--------------------------- MODULE EmitterProofs ---------------------------
(* Theorems about Emitter, for every register, scale, immediate and         *)
(* displacement a function can be called with.                              *)
EXTENDS Emitter, SequenceTheorems, TLAPS

-----------------------------------------------------------------------------
(* What is written.                                                         *)

Info == [size : {0} \cup Sizes, num : 0 .. 15, needs_rex : BOOLEAN, valid : BOOLEAN]

LEMMA InfoType ==
    /\ NoInfo \in Info
    /\ \A r : reg_info(r) \in Info
BY DEF reg_info, Info, NoInfo, Register, Sizes

LEMMA InfoIs ==
    ASSUME NEW r
    PROVE  /\ reg_info(r).valid <=> r \in Register
           /\ r \in Register => reg_info(r).size = r.size /\ r.size \in Sizes
           /\ r \notin Register => reg_info(r).size = 0
BY DEF reg_info, Register, NoInfo

(* At most limit bytes.                                                     *)
Upto(s, limit) == s \in Seq(Byte) /\ Len(s) <= limit

(* What the functions fill an emit_descriptor_t with: a register or a digit *)
(* for the reg field, not both.                                             *)
Encodable(d) ==
    /\ Upto(d.opcodes, 2) /\ Upto(d.imm_bytes, 4)
    /\ d.reg \in Info /\ d.rm \in Info /\ d.index \in Info /\ d.base \in Info
    /\ d.digit \in 0 .. 7 /\ (d.digit = 0 \/ d.reg = NoInfo)
    /\ d.mode \in DOMAIN Modes
    /\ d.disp8 \in Byte /\ d.disp32 \in Byte

LEMMA UptoJoin ==
    ASSUME NEW s, NEW t, NEW m \in Nat, NEW n \in Nat, Upto(s, m), Upto(t, n)
    PROVE  Upto(s \o t, m + n)
BY ConcatProperties, LenProperties DEF Upto

LEMMA Literal ==
    /\ <<>> \in Seq(Byte) /\ Len(<<>>) = 0
    /\ \A a \in Byte : <<a>> \in Seq(Byte) /\ Len(<<a>>) = 1
    /\ \A a, b \in Byte : <<a, b>> \in Seq(Byte) /\ Len(<<a, b>>) = 2
    /\ \A a, b, c, d \in Byte :
           <<a, b, c, d>> \in Seq(Byte) /\ Len(<<a, b, c, d>>) = 4
OBVIOUS

LEMMA SomeBytes ==
    /\ 0 \in Byte /\ \h66 \in Byte /\ INSTRUCTION_END \in Byte
    /\ \h40 .. \h4F \subseteq Byte
BY DEF Byte, INSTRUCTION_END

LEMMA UptoLiteral ==
    /\ Upto(<<>>, 1) /\ Upto(<<>>, 4)
    /\ \A a \in Byte : Upto(<<a>>, 1) /\ Upto(<<a>>, 2) /\ Upto(<<a>>, 4)
    /\ \A a, b \in Byte : Upto(<<a, b>>, 2)
    /\ \A a \in Byte : Upto(<<a, 0, 0, 0>>, 4)
BY Literal, SomeBytes DEF Upto

LEMMA RexByte ==
    ASSUME NEW reg \in Info, NEW rm \in Info, NEW index \in Info, NEW base \in Info
    PROVE  rex_value(reg, rm, index, base) \in {0} \cup \h40 .. \h4F
<1> DEFINE W == Flag(8 \in {reg.size, rm.size})
           R == Flag(reg.num >= 8)
           X == Flag(index.num >= 8)
           B == Flag(base.num >= 8 \/ rm.num >= 8)
           needed == \/ W + R + X + B > 0
                     \/ TRUE \in {reg.needs_rex, rm.needs_rex, index.needs_rex, base.needs_rex}
<1>1. W \in {0, 1} /\ R \in {0, 1} /\ X \in {0, 1} /\ B \in {0, 1}
  BY DEF Flag
<1>2. rex_value(reg, rm, index, base)
        = IF needed THEN \h40 + 8 * W + 4 * R + 2 * X + B ELSE 0
  BY DEF rex_value
<1> HIDE DEF W, R, X, B, needed
<1> QED
  BY <1>1, <1>2

LEMMA OtherBytes ==
    ASSUME NEW d, Encodable(d)
    PROVE  modRM_value(d) \in Byte /\ sib_value(d) \in Byte
<1> DEFINE mode == Modes[d.mode]
           reg == d.reg.num
           rm == d.rm.num
           scale == ScaleBits(d.scale)
           index == d.index.num
           base == d.base.num
           digit == d.digit
<1>1. mode \in 0 .. 3
  BY DEF Encodable, Modes
<1>2. /\ reg \in 0 .. 15 /\ rm \in 0 .. 15 /\ index \in 0 .. 15 /\ base \in 0 .. 15
      /\ digit \in 0 .. 7 /\ (digit = 0 \/ reg = 0)
  BY DEF Encodable, Info, NoInfo
<1>3. scale \in 0 .. 3
  BY DEF ScaleBits
<1>4. /\ modRM_value(d) = 64 * mode + 8 * ((reg % 8) + digit)
                              + (IF d.has_sib THEN 4 ELSE rm % 8)
      /\ sib_value(d) = 64 * scale + 8 * (index % 8) + (base % 8)
  BY DEF modRM_value, sib_value
<1> HIDE DEF mode, reg, rm, scale, index, base, digit
<1> QED
  BY <1>1, <1>2, <1>3, <1>4 DEF Byte

(* An answer is an error or bytes that fit in instruction_bytes.            *)
Answer(r) ==
    /\ r.error \in Errors \cup {"none", "OK"}
    /\ Upto(r.instruction_bytes, MAX_INSTRUCTION_SIZE)

LEMMA Encoded ==
    ASSUME NEW d, Encodable(d)
    PROVE  Answer(emit_encode(d)) /\ emit_encode(d).error = "OK"
<1> DEFINE rex == rex_value(d.reg, d.rm, d.index, d.base)
           prefix == IF d.emit_66h THEN <<\h66>> ELSE <<>>
           rexes == IF rex = 0 THEN <<>> ELSE <<rex>>
           modRM == IF d.has_modRM THEN <<modRM_value(d)>> ELSE <<>>
           sib == IF d.has_sib THEN <<sib_value(d)>> ELSE <<>>
           displaced == Displaced(d)
           end == <<INSTRUCTION_END>>
<1>1. Upto(prefix, 1)
  BY UptoLiteral, SomeBytes
<1>2. Upto(rexes, 1)
  <2>1. rex \in {0} \cup \h40 .. \h4F
    BY RexByte DEF Encodable
  <2> HIDE DEF rex
  <2> QED
    BY <2>1, UptoLiteral, SomeBytes
<1>3. Upto(modRM, 1) /\ Upto(sib, 1)
  BY OtherBytes, UptoLiteral
<1>4. Upto(displaced, 4)
  BY UptoLiteral DEF Displaced, Encodable
<1>5. Upto(end, 1)
  BY UptoLiteral, SomeBytes
<1>6. Upto(d.opcodes, 2) /\ Upto(d.imm_bytes, 4)
  BY DEF Encodable
<1>7. emit_encode(d) =
        [error |-> "OK",
         instruction_bytes |->
             prefix \o rexes \o d.opcodes \o modRM \o sib \o displaced \o d.imm_bytes \o end]
  BY DEF emit_encode
<1> HIDE DEF prefix, rexes, modRM, sib, displaced, end
<1>8. Upto(prefix \o rexes, 2)
  BY <1>1, <1>2, UptoJoin
<1>9. Upto(prefix \o rexes \o d.opcodes, 4)
  BY <1>6, <1>8, UptoJoin
<1>10. Upto(prefix \o rexes \o d.opcodes \o modRM, 5)
  BY <1>3, <1>9, UptoJoin
<1>11. Upto(prefix \o rexes \o d.opcodes \o modRM \o sib, 6)
  BY <1>3, <1>10, UptoJoin
<1>12. Upto(prefix \o rexes \o d.opcodes \o modRM \o sib \o displaced, 10)
  BY <1>4, <1>11, UptoJoin
<1>13. Upto(prefix \o rexes \o d.opcodes \o modRM \o sib \o displaced \o d.imm_bytes, 14)
  BY <1>6, <1>12, UptoJoin
<1>14. Upto(prefix \o rexes \o d.opcodes \o modRM \o sib \o displaced \o d.imm_bytes \o end, 15)
  BY <1>5, <1>13, UptoJoin
<1> QED
  BY <1>7, <1>14 DEF Answer, MAX_INSTRUCTION_SIZE

-----------------------------------------------------------------------------
(* What is refused.                                                         *)

LEMMA Operands ==
    /\ \A r : /\ Reg(r).kind = "reg" /\ SizeOf(Reg(r)) = r.size /\ NamedIn(Reg(r)) = {r}
             /\ Addressable(Reg(r))
    /\ \A bytes : /\ Imm(bytes).kind = "imm" /\ Imm(bytes).bytes = bytes
                  /\ NamedIn(Imm(bytes)) = {}
BY DEF Reg, Imm, SizeOf, NamedIn, Addressable

LEMMA MemoryOperand ==
    ASSUME NEW width, NEW base, NEW index, NEW scale, NEW displacement
    PROVE  LET m == Mem(width, base, index, scale, displacement)
           IN  /\ m.kind = "mem" /\ SizeOf(m) = width
               /\ NamedIn(m) = {base, index} \ {NoRegister}
               /\ Addressable(m) => /\ base.size = 8 /\ scale \in {1, 2, 4, 8}
                                    /\ index # NoRegister => index.size = 8
BY DEF Mem, SizeOf, NamedIn, Addressable

LEMMA InvalidIsNotNone ==
    InvalidRegister # NoRegister /\ NoRegister \notin Register
BY DEF InvalidRegister, NoRegister, Register

(* The error of an answer that refuses an instruction there is not.         *)
Good(i, r) == Answer(r) /\ (r.error \in Errors => ~Exists(i))

LEMMA RefusedIs ==
    ASSUME NEW i, NEW error, error \in Errors => ~Exists(i), error \in Errors \cup {"none"}
    PROVE  Good(i, Refused(error))
BY UptoLiteral DEF Good, Answer, Refused, Upto, MAX_INSTRUCTION_SIZE

LEMMA EncodedIs ==
    ASSUME NEW i, NEW d, Encodable(d)
    PROVE  Good(i, emit_encode(d))
BY Encoded DEF Good, Errors

(* A call with a register that is none.                                     *)
LEMMA InvalidNamed ==
    ASSUME NEW op, NEW dst, NEW src, NEW r, r \notin Register,
           r \in NamedIn(dst) \/ r \in NamedIn(src)
    PROVE  ~Exists(Instruction(op, dst, src))
BY DEF Exists, Named, Instruction

LEMMA NotAddressable ==
    ASSUME NEW op, NEW dst, NEW src, ~Addressable(dst) \/ ~Addressable(src)
    PROVE  ~Exists(Instruction(op, dst, src))
BY DEF Exists, Instruction

LEMMA SizesDiffer ==
    ASSUME NEW op, NEW dst, NEW src,
           op \in {"mov", "test"} \cup AluOperations, src.kind \in {"reg", "mem"},
           SizeOf(dst) # SizeOf(src)
    PROVE  ~Exists(Instruction(op, dst, src))
BY DEF Exists, Instruction, SizesFit, AluOperations, alu_opcode

LEMMA RegRmEncodable ==
    ASSUME NEW reg \in Info, NEW rm \in Info, NEW mode \in DOMAIN Modes,
           NEW opcodes, Upto(opcodes, 2)
    PROVE  Encodable(RegRm(reg, rm, mode, opcodes))
BY InfoType, UptoLiteral, SomeBytes DEF Encodable, RegRm, Descriptor

LEMMA DigitRmEncodable ==
    ASSUME NEW digit \in 0 .. 7, NEW rm \in Info, NEW mode \in DOMAIN Modes,
           NEW opcodes, Upto(opcodes, 2), NEW is_word, NEW immediate, Upto(immediate, 4)
    PROVE  /\ Encodable(DigitRm(digit, rm, mode, opcodes, is_word))
           /\ Encodable([DigitRm(digit, rm, mode, opcodes, is_word) EXCEPT
                            !.imm_bytes = immediate])
BY InfoType, UptoLiteral, SomeBytes DEF Encodable, DigitRm, Descriptor

LEMMA OpcodeRegEncodable ==
    ASSUME NEW base \in {\hB0, \hB8}, NEW rm \in Info, NEW immediate, Upto(immediate, 4)
    PROVE  Encodable(OpcodeReg(base, rm, immediate))
<1>1. base + (rm.num % 8) \in Byte
  BY DEF Info, Byte
<1> DEFINE opcode == base + (rm.num % 8)
<1>2. Upto(<<opcode>>, 2)
  BY <1>1, UptoLiteral
<1>3. OpcodeReg(base, rm, immediate)
        = [Descriptor EXCEPT !.opcodes = <<opcode>>, !.rm = rm,
                             !.imm_bytes = immediate, !.has_modRM = FALSE]
  BY DEF OpcodeReg
<1> HIDE DEF opcode
<1> QED
  BY <1>2, <1>3, InfoType, UptoLiteral, SomeBytes DEF Encodable, Descriptor, Modes

LEMMA LeaOpcode == Upto(<<\h8D>>, 2)
<1>1. \h8D \in Byte
  BY DEF Byte
<1> QED
  BY <1>1, UptoLiteral

LEMMA LeaRegEncodable ==
    ASSUME NEW reg \in Info, NEW rm \in Info, NEW mode \in DOMAIN Modes,
           NEW disp8 \in Byte, NEW disp32 \in Byte
    PROVE  Encodable([RegRm(reg, rm, mode, <<\h8D>>) EXCEPT
                  !.disp8 = disp8, !.disp32 = disp32])
BY LeaOpcode, InfoType, UptoLiteral, SomeBytes DEF Encodable, RegRm, Descriptor

LeaDescriptor(reg, mode, scale, index, base, disp8, disp32) ==
    [RegRm(reg, NoInfo, mode, <<\h8D>>) EXCEPT
        !.scale = scale, !.index = index, !.base = base,
        !.disp8 = disp8, !.disp32 = disp32, !.has_sib = TRUE]

LEMMA LeaSibEncodable ==
    ASSUME NEW reg \in Info, NEW mode \in DOMAIN Modes, NEW scale,
           NEW index \in Info, NEW base \in Info, NEW disp8 \in Byte, NEW disp32 \in Byte
    PROVE  Encodable(LeaDescriptor(reg, mode, scale, index, base, disp8, disp32))
BY LeaOpcode, InfoType, UptoLiteral, SomeBytes DEF Encodable, RegRm, Descriptor, LeaDescriptor

-----------------------------------------------------------------------------
(* Opcodes, digits and immediates.                                          *)

LEMMA OpcodeBytes ==
    ASSUME NEW base, base \in 0 .. 254, NEW size
    PROVE  Upto(<<SizeOpcode(base, size)>>, 2)
<1>1. SizeOpcode(base, size) \in Byte
  BY DEF SizeOpcode, Flag, Byte
<1> QED
  BY <1>1, UptoLiteral

LEMMA OneOpcode ==
    ASSUME NEW code \in Byte
    PROVE  Upto(<<code>>, 2) /\ Upto(<<\h0F, code>>, 2)
<1>1. \h0F \in Byte
  BY DEF Byte
<1> QED
  BY <1>1, UptoLiteral

LEMMA Tables ==
    /\ \A op \in AluOperations : alu_opcode[op] + 2 \in 0 .. 254 /\ alu_digit[op] \in 0 .. 7
    /\ \A op \in GroupOperations : group[op] \in 0 .. 254 /\ group_digit[op] \in 0 .. 7
    /\ \A condition \in DOMAIN condition_opcode : condition_opcode[condition] \in Byte
    /\ \A op \in DOMAIN plain_opcode : plain_opcode[op] \in Byte
BY DEF AluOperations, alu_opcode, alu_digit, GroupOperations, group, group_digit,
       condition_opcode, plain_opcode, Byte

LEMMA ImmediateBytes ==
    ASSUME NEW n \in {1, 2, 4}, NEW v \in [1 .. n -> Byte]
    PROVE  Upto(v, 4) /\ Len(v) = n /\ v[1] \in Byte
<1>1. v \in Seq(Byte)
  BY SeqDef
<1>2. Len(v) = n
  BY <1>1, LenProperties
<1> QED
  BY <1>1, <1>2 DEF Upto

LEMMA ImmediateSizes ==
    ASSUME NEW op, NEW r, NEW bytes, Exists(Instruction(op, Reg(r), Imm(bytes)))
    PROVE  /\ op \in {"mov", "test"} => ImmediateFits(r.size, Len(bytes))
           /\ op \in AluOperations => Len(bytes) = 1 \/ ImmediateFits(r.size, Len(bytes))
           /\ op = "bt" => r.size # 1
           /\ r.size \in Sizes
<1> DEFINE i == Instruction(op, Reg(r), Imm(bytes))
<1>1. i.op = op /\ i.dst = Reg(r) /\ i.src = Imm(bytes)
  BY DEF Instruction
<1>2. SizeOf(i.dst) = r.size /\ i.src.kind = "imm" /\ i.src.bytes = bytes
  BY <1>1, Operands
<1> HIDE DEF i
<1>3. SizesFit(i)
  BY DEF Exists, i
<1>4. op \in {"mov", "test"} => ImmediateFits(r.size, Len(bytes))
  BY <1>1, <1>2, <1>3 DEF SizesFit
<1>5. op \in AluOperations => Len(bytes) = 1 \/ ImmediateFits(r.size, Len(bytes))
  BY <1>1, <1>2, <1>3 DEF SizesFit, AluOperations, alu_opcode
<1>6. op = "bt" => r.size # 1
  BY <1>1, <1>2, <1>3 DEF SizesFit
<1>7. r.size \in Sizes
  <2>1. NamedIn(i.dst) \subseteq Register
    BY DEF Exists, Named, i
  <2> QED
    BY <1>1, <2>1, Operands DEF Register
<1> QED
  BY <1>4, <1>5, <1>6, <1>7

LEMMA ImmediateOpcodes ==
    /\ Upto(<<\hF6>>, 2) /\ Upto(<<\hF7>>, 2) /\ Upto(<<\h0F, \hBA>>, 2)
    /\ Upto(<<\h80>>, 2) /\ Upto(<<\h81>>, 2) /\ Upto(<<\h83>>, 2)
<1>1. {\hF6, \hF7, \h0F, \hBA, \h80, \h81, \h83} \subseteq Byte
  BY DEF Byte
<1> QED
  BY <1>1, UptoLiteral

-----------------------------------------------------------------------------
(* The functions, one kind after another.                                   *)

LEMMA Answered ==
    ASSUME NEW f, NEW i, NEW r, Called(f, i, r), Good(i, r)
    PROVE  Good(asked', result')
BY DEF Called

LEMMA ImmediateGood ==
    ASSUME NEW function, NEW op, NEW digit \in 0 .. 7, NEW opcode, Upto(opcode, 2),
           NEW destination, NEW immediate, Upto(immediate, 4),
           NEW sizes, NEW error \in Errors \cup {"none"},
           Immediate(function, op, digit, opcode, destination, immediate, sizes, error),
           \/ error = "none"
           \/ Exists(Instruction(op, Reg(destination), Imm(immediate)))
                  => destination.size \in sizes
    PROVE  Good(asked', result')
<1> DEFINE i == Instruction(op, Reg(destination), Imm(immediate))
           dst == reg_info(destination)
           d == [DigitRm(digit, dst, "DIRECT", opcode, dst.size = 2) EXCEPT !.imm_bytes = immediate]
           r == IF ~dst.valid THEN Refused("INVALID_REGISTER")
                ELSE IF dst.size \notin sizes THEN Refused(error)
                ELSE emit_encode(d)
<1>1. CASE ~dst.valid
  <2>1. destination \notin Register
    BY <1>1, InfoIs
  <2>2. ~Exists(i)
    BY <2>1, Operands, InvalidNamed
  <2> QED
    BY <1>1, <2>2, RefusedIs, Answered DEF Immediate, Errors
<1>2. CASE dst.valid /\ dst.size \notin sizes
  <2>1. dst.size = destination.size
    BY <1>2, InfoIs
  <2>2. error \in Errors => ~Exists(i)
    BY <1>2, <2>1 DEF Errors
  <2>3. Good(i, Refused(error))
    BY <2>2, RefusedIs
  <2> QED
    BY <1>2, <2>3, Answered DEF Immediate
<1>3. CASE dst.valid /\ dst.size \in sizes
  <2>1. dst \in Info /\ "DIRECT" \in DOMAIN Modes
    BY InfoType DEF Modes
  <2>2. Encodable(d)
    BY <2>1, DigitRmEncodable
  <2>3. Good(i, emit_encode(d))
    BY <2>2, EncodedIs
  <2> QED
    BY <1>3, <2>3, Answered DEF Immediate
<1> QED
  BY <1>1, <1>2, <1>3

(* A function makes its checks one after another and encodes.               *)
LEMMA Checked ==
    ASSUME NEW i, NEW r, NEW wrong, NEW error \in Errors,
           wrong => ~Exists(i), ~wrong => Good(i, r)
    PROVE  Good(i, IF wrong THEN Refused(error) ELSE r)
BY RefusedIs

LEMMA CheckedTwice ==
    ASSUME NEW i, NEW d, Encodable(d),
           NEW invalid, NEW error1 \in Errors, invalid => ~Exists(i),
           NEW wrong, NEW error2 \in Errors, ~invalid /\ wrong => ~Exists(i)
    PROVE  Good(i, IF invalid THEN Refused(error1)
                   ELSE IF wrong THEN Refused(error2) ELSE emit_encode(d))
<1> DEFINE r == IF wrong THEN Refused(error2) ELSE emit_encode(d)
<1>1. ~invalid => Good(i, r)
  BY EncodedIs, Checked
<1> HIDE DEF r
<1>2. Good(i, IF invalid THEN Refused(error1) ELSE r)
  BY <1>1, Checked
<1> QED
  BY <1>2 DEF r

LEMMA CheckedThrice ==
    ASSUME NEW i, NEW d, Encodable(d),
           NEW invalid, NEW error1 \in Errors, invalid => ~Exists(i),
           NEW wrong, NEW error2 \in Errors, ~invalid /\ wrong => ~Exists(i),
           NEW odd, NEW error3 \in Errors, ~invalid /\ ~wrong /\ odd => ~Exists(i)
    PROVE  Good(i, IF invalid THEN Refused(error1)
                   ELSE IF wrong THEN Refused(error2)
                   ELSE IF odd THEN Refused(error3) ELSE emit_encode(d))
<1> DEFINE r == IF odd THEN Refused(error3) ELSE emit_encode(d)
           q == IF wrong THEN Refused(error2) ELSE r
<1>1. ~invalid /\ ~wrong => Good(i, r)
  BY EncodedIs, Checked
<1> HIDE DEF r
<1>2. ~invalid => Good(i, q)
  BY <1>1, Checked
<1> HIDE DEF q
<1>3. Good(i, IF invalid THEN Refused(error1) ELSE q)
  BY <1>2, Checked
<1> QED
  BY <1>3 DEF q, r

LEMMA ValidIs ==
    ASSUME NEW registers
    PROVE  Valid(registers) <=> registers \subseteq Register
BY InfoIs DEF Valid

LEMMA ErrorNames ==
    {"SIZE_MISMATCH", "SIZE_INVALID", "INVALID_REGISTER", "INVALID_SCALE", "INVALID_ADDRESSING"}
        \subseteq Errors
BY DEF Errors

LEMMA ModeNames ==
    {"INDIRECT", "INDIRECT_DISP8", "INDIRECT_DISP32", "DIRECT"} \subseteq DOMAIN Modes
BY DEF Modes

(* mov, test and the operations of alu.c between registers.                 *)
RegRegAnswer(destination, source, opcodes) ==
    LET dst == reg_info(destination)
        src == reg_info(source)
    IN  IF ~Valid({destination, source}) THEN Refused("INVALID_REGISTER")
        ELSE IF dst.size # src.size THEN Refused("SIZE_MISMATCH")
        ELSE emit_encode(RegRm(dst, src, "DIRECT", opcodes))

LEMMA RegRegGood ==
    ASSUME NEW op \in {"mov", "test"} \cup AluOperations, NEW destination, NEW source,
           NEW opcodes, Upto(opcodes, 2)
    PROVE  Good(Instruction(op, Reg(destination), Reg(source)),
                RegRegAnswer(destination, source, opcodes))
<1> DEFINE dst == reg_info(destination)
           src == reg_info(source)
           i == Instruction(op, Reg(destination), Reg(source))
           d == RegRm(dst, src, "DIRECT", opcodes)
           invalid == ~Valid({destination, source})
           mismatch == dst.size # src.size
<1>1. invalid => ~Exists(i)
  BY ValidIs, InvalidNamed, Operands
<1>2. ~invalid /\ mismatch => ~Exists(i)
  BY ValidIs, InfoIs, SizesDiffer, Operands
<1>3. Encodable(d)
  BY InfoType, ModeNames, RegRmEncodable
<1> HIDE DEF i, d, invalid, mismatch
<1>4. Good(i, IF invalid THEN Refused("INVALID_REGISTER")
              ELSE IF mismatch THEN Refused("SIZE_MISMATCH") ELSE emit_encode(d))
  BY <1>1, <1>2, <1>3, ErrorNames, CheckedTwice
<1> QED
  BY <1>4 DEF i, d, invalid, mismatch, RegRegAnswer

(* mov and the operations of alu.c from memory, mov to memory.              *)
RegMemAnswer(destination, source, opcodes) ==
    LET dst == reg_info(destination)
        src == reg_info(source)
    IN  IF ~Valid({destination, source}) THEN Refused("INVALID_REGISTER")
        ELSE IF src.size # 8 THEN Refused("INVALID_ADDRESSING")
        ELSE emit_encode(RegRm(dst, src, "INDIRECT", opcodes))

LEMMA RegMemGood ==
    ASSUME NEW op, NEW destination, NEW source, source # NoRegister,
           NEW opcodes, Upto(opcodes, 2)
    PROVE  Good(Instruction(op, Reg(destination), At(reg_info(destination).size, source)),
                RegMemAnswer(destination, source, opcodes))
<1> DEFINE dst == reg_info(destination)
           src == reg_info(source)
           m == At(dst.size, source)
           i == Instruction(op, Reg(destination), m)
           d == RegRm(dst, src, "INDIRECT", opcodes)
           invalid == ~Valid({destination, source})
           narrow == src.size # 8
<1>1. source \in NamedIn(m) /\ (Addressable(m) => source.size = 8)
  BY MemoryOperand DEF At
<1> HIDE DEF m
<1>2. invalid => ~Exists(i)
  BY <1>1, ValidIs, InvalidNamed, Operands
<1>3. ~invalid /\ narrow => ~Exists(i)
  BY <1>1, ValidIs, InfoIs, NotAddressable
<1>4. Encodable(d)
  BY InfoType, ModeNames, RegRmEncodable
<1> HIDE DEF i, d, invalid, narrow
<1>5. Good(i, IF invalid THEN Refused("INVALID_REGISTER")
              ELSE IF narrow THEN Refused("INVALID_ADDRESSING") ELSE emit_encode(d))
  BY <1>2, <1>3, <1>4, ErrorNames, CheckedTwice
<1> QED
  BY <1>5 DEF i, d, invalid, narrow, m, RegMemAnswer

LEMMA MemRegGood ==
    ASSUME NEW destination, NEW source, destination # NoRegister,
           emit_mov_mem_reg(destination, source)
    PROVE  Good(asked', result')
<1> DEFINE dst == reg_info(destination)
           src == reg_info(source)
           m == At(src.size, destination)
           i == Instruction("mov", m, Reg(source))
           opcodes == <<SizeOpcode(\h88, src.size)>>
           d == RegRm(src, dst, "INDIRECT", opcodes)
           invalid == ~Valid({destination, source})
           narrow == dst.size # 8
<1>1. destination \in NamedIn(m) /\ (Addressable(m) => destination.size = 8)
  BY MemoryOperand DEF At
<1> HIDE DEF m
<1>2. invalid => ~Exists(i)
  BY <1>1, ValidIs, InvalidNamed, Operands
<1>3. ~invalid /\ narrow => ~Exists(i)
  BY <1>1, ValidIs, InfoIs, NotAddressable
<1>4. Encodable(d)
  <2>1. Upto(opcodes, 2)
    BY OpcodeBytes
  <2> HIDE DEF opcodes
  <2> QED
    BY <2>1, InfoType, ModeNames, RegRmEncodable
<1> DEFINE r == IF invalid THEN Refused("INVALID_REGISTER")
                ELSE IF narrow THEN Refused("INVALID_ADDRESSING") ELSE emit_encode(d)
<1>5. Called("mov_mem_reg", i, r)
  BY DEF emit_mov_mem_reg, m
<1> HIDE DEF i, d, invalid, narrow
<1>6. Good(i, r)
  BY <1>2, <1>3, <1>4, ErrorNames, CheckedTwice
<1> QED
  BY <1>5, <1>6, Answered

LEMMA MovImmediateGood ==
    ASSUME NEW destination, NEW v,
           \/ v \in [1 .. 1 -> Byte] /\ emit_mov_reg_imm8(destination, v)
           \/ v \in [1 .. 4 -> Byte] /\ emit_mov_reg_imm32(destination, v)
    PROVE  Good(asked', result')
<1> DEFINE dst == reg_info(destination)
           i == Instruction("mov", Reg(destination), Imm(v))
           invalid == ~dst.valid
           d8 == OpcodeReg(\hB0, dst, v)
           d32 == OpcodeReg(\hB8, dst, v)
           wrong8 == dst.size # 1
           wrong32 == dst.size \notin {4, 8}
           r8 == IF invalid THEN Refused("INVALID_REGISTER")
                 ELSE IF wrong8 THEN Refused("SIZE_INVALID") ELSE emit_encode(d8)
           r32 == IF invalid THEN Refused("INVALID_REGISTER")
                  ELSE IF wrong32 THEN Refused("SIZE_INVALID") ELSE emit_encode(d32)
<1>1. invalid => ~Exists(i)
  BY InfoIs, InvalidNamed, Operands
<1>2. ~invalid => destination.size \in Sizes /\ dst.size = destination.size
  BY InfoIs
<1>3. Exists(i) => ImmediateFits(destination.size, Len(v))
  BY ImmediateSizes
<1>4. CASE v \in [1 .. 1 -> Byte] /\ emit_mov_reg_imm8(destination, v)
  <2>1. Called("mov_reg_imm8", i, r8)
    BY <1>4 DEF emit_mov_reg_imm8
  <2>2. Upto(v, 4) /\ Len(v) = 1
    BY <1>4, ImmediateBytes
  <2>3. ~invalid /\ wrong8 => ~Exists(i)
    BY <1>2, <1>3, <2>2 DEF ImmediateFits, Sizes
  <2>4. Encodable(d8)
    BY <2>2, InfoType, OpcodeRegEncodable
  <2> HIDE DEF i, d8, invalid, wrong8
  <2>5. Good(i, r8)
    BY <1>1, <2>3, <2>4, ErrorNames, CheckedTwice
  <2> QED
    BY <2>1, <2>5, Answered
<1>5. CASE v \in [1 .. 4 -> Byte] /\ emit_mov_reg_imm32(destination, v)
  <2>1. Called("mov_reg_imm32", i, r32)
    BY <1>5 DEF emit_mov_reg_imm32
  <2>2. Upto(v, 4) /\ Len(v) = 4
    BY <1>5, ImmediateBytes
  <2>3. ~invalid /\ wrong32 => ~Exists(i)
    BY <1>2, <1>3, <2>2 DEF ImmediateFits, Sizes
  <2>4. Encodable(d32)
    BY <2>2, InfoType, OpcodeRegEncodable
  <2> HIDE DEF i, d32, invalid, wrong32
  <2>5. Good(i, r32)
    BY <1>1, <2>3, <2>4, ErrorNames, CheckedTwice
  <2> QED
    BY <2>1, <2>5, Answered
<1> QED
  BY <1>4, <1>5

LEMMA MovzxSizes ==
    ASSUME NEW dst, NEW src, Exists(Instruction("movzx", dst, src))
    PROVE  SizeOf(src) \in {1, 2} /\ SizeOf(src) < SizeOf(dst)
BY DEF Exists, Instruction, SizesFit

LEMMA ZeroExtendOpcode ==
    ASSUME NEW size
    PROVE  Upto(ZeroExtend(size), 2)
<1>1. \h0F \in Byte /\ \hB6 \in Byte /\ \hB7 \in Byte
  BY DEF Byte
<1> QED
  BY <1>1, UptoLiteral DEF ZeroExtend

LEMMA MovzxGood ==
    ASSUME NEW destination, NEW source, source # NoRegister, NEW pointer \in Sizes,
           \/ emit_movzx_reg_reg(destination, source)
           \/ emit_movzx_reg_mem(destination, source, pointer)
    PROVE  Good(asked', result')
<1> DEFINE dst == reg_info(destination)
           src == reg_info(source)
           invalid == ~Valid({destination, source})
<1>1. ~invalid => /\ dst.size = destination.size /\ dst.size \in Sizes
                  /\ src.size = source.size /\ src.size \in Sizes
  BY ValidIs, InfoIs
<1>2. CASE emit_movzx_reg_reg(destination, source)
  <2> DEFINE i == Instruction("movzx", Reg(destination), Reg(source))
             d == RegRm(dst, src, "DIRECT", ZeroExtend(src.size))
             wrong == src.size > dst.size \/ src.size \notin {1, 2}
             r == IF invalid THEN Refused("INVALID_REGISTER")
                  ELSE IF wrong THEN Refused("SIZE_INVALID") ELSE emit_encode(d)
  <2>1. Called("movzx_reg_reg", i, r)
    BY <1>2 DEF emit_movzx_reg_reg
  <2>2. invalid => ~Exists(i)
    BY ValidIs, InvalidNamed, Operands
  <2>3. Exists(i) => source.size \in {1, 2} /\ source.size < destination.size
    BY MovzxSizes, Operands
  <2>4. ~invalid /\ wrong => ~Exists(i)
    BY <1>1, <2>3 DEF Sizes
  <2>5. Encodable(d)
    BY InfoType, ModeNames, ZeroExtendOpcode, RegRmEncodable
  <2> HIDE DEF i, d, invalid, wrong
  <2>6. Good(i, r)
    BY <2>2, <2>4, <2>5, ErrorNames, CheckedTwice
  <2> QED
    BY <2>1, <2>6, Answered
<1>3. CASE emit_movzx_reg_mem(destination, source, pointer)
  <2> DEFINE m == At(pointer, source)
             i == Instruction("movzx", Reg(destination), m)
             d == RegRm(dst, src, "INDIRECT", ZeroExtend(pointer))
             unaddressed == pointer \notin {1, 2} \/ src.size # 8
             narrow == dst.size <= pointer
             r == IF invalid THEN Refused("INVALID_REGISTER")
                  ELSE IF unaddressed THEN Refused("INVALID_ADDRESSING")
                  ELSE IF narrow THEN Refused("SIZE_INVALID") ELSE emit_encode(d)
  <2>1. Called("movzx_reg_mem", i, r)
    BY <1>3 DEF emit_movzx_reg_mem
  <2>2. /\ source \in NamedIn(m) /\ (Addressable(m) => source.size = 8)
        /\ SizeOf(m) = pointer
    BY MemoryOperand DEF At
  <2> HIDE DEF m
  <2>3. invalid => ~Exists(i)
    BY <2>2, ValidIs, InvalidNamed, Operands
  <2>4. Exists(i) => pointer \in {1, 2} /\ pointer < destination.size
    BY <2>2, MovzxSizes, Operands
  <2>5. Exists(i) => source.size = 8
    BY <2>2, NotAddressable
  <2>6. ~invalid /\ unaddressed => ~Exists(i)
    BY <1>1, <2>4, <2>5
  <2>7. ~invalid /\ ~unaddressed /\ narrow => ~Exists(i)
    BY <1>1, <2>4 DEF Sizes
  <2>8. Encodable(d)
    BY InfoType, ModeNames, ZeroExtendOpcode, RegRmEncodable
  <2> HIDE DEF i, d, invalid, unaddressed, narrow
  <2>9. Good(i, r)
    BY <2>3, <2>6, <2>7, <2>8, ErrorNames, CheckedThrice
  <2> QED
    BY <2>1, <2>9, Answered
<1> QED
  BY <1>2, <1>3

LEMMA LeaSizes ==
    ASSUME NEW r, NEW src, Exists(Instruction("lea", Reg(r), src))
    PROVE  r.size # 1
<1> DEFINE i == Instruction("lea", Reg(r), src)
<1>1. i.op = "lea" /\ SizeOf(i.dst) = r.size
  BY Operands DEF Instruction
<1>2. SizesFit(i)
  BY DEF Exists
<1> HIDE DEF i
<1> QED
  BY <1>1, <1>2 DEF SizesFit

LEMMA LeaSibGood ==
    ASSUME NEW function, NEW destination, NEW scale, NEW index, NEW base,
           index # NoRegister, base # NoRegister,
           NEW mode \in DOMAIN Modes, NEW disp8 \in Byte, NEW disp32, disp32[1] \in Byte,
           emit_lea_sib_disp(function, destination, scale, index, base, mode, disp8, disp32)
    PROVE  Good(asked', result')
<1> DEFINE dst == reg_info(destination)
           x == reg_info(index)
           b == reg_info(base)
           m == Mem(0, base, index, scale, Added(mode, disp8, disp32))
           i == Instruction("lea", Reg(destination), m)
           low == Narrowed(disp32)
           d == [RegRm(dst, NoInfo, mode, <<\h8D>>) EXCEPT
                    !.scale = scale, !.index = x, !.base = b,
                    !.disp8 = disp8, !.disp32 = low, !.has_sib = TRUE]
           invalid == ~Valid({destination, index, base})
           unaddressed == x.size # 8 \/ b.size # 8
           unscaled == scale \notin {1, 2, 4, 8}
           narrow == dst.size = 1
           q == IF unaddressed THEN Refused("INVALID_ADDRESSING")
                ELSE IF unscaled THEN Refused("INVALID_SCALE")
                ELSE IF narrow THEN Refused("SIZE_INVALID") ELSE emit_encode(d)
           r == IF invalid THEN Refused("INVALID_REGISTER") ELSE q
<1>1. Called(function, i, r)
  BY DEF emit_lea_sib_disp
<1>2. /\ base \in NamedIn(m) /\ index \in NamedIn(m)
      /\ Addressable(m) => base.size = 8 /\ scale \in {1, 2, 4, 8} /\ index.size = 8
  BY MemoryOperand
<1>3. Encodable(d)
  <2>1. low \in Byte /\ dst \in Info /\ x \in Info /\ b \in Info
    BY InfoType DEF Narrowed
  <2> HIDE DEF low, dst, x, b
  <2>2. d = LeaDescriptor(dst, mode, scale, x, b, disp8, low)
    BY DEF LeaDescriptor
  <2> HIDE DEF d
  <2> QED
    BY <2>1, <2>2, LeaSibEncodable
<1> HIDE DEF m, d
<1>4. invalid => ~Exists(i)
  BY <1>2, ValidIs, InvalidNamed, Operands
<1>5. ~invalid => /\ x.size = index.size /\ b.size = base.size /\ dst.size = destination.size
  BY ValidIs, InfoIs
<1>6. Exists(i) => Addressable(m) /\ destination.size # 1
  BY LeaSizes, NotAddressable
<1>7. /\ ~invalid /\ unaddressed => ~Exists(i)
      /\ ~invalid /\ unscaled => ~Exists(i)
      /\ ~invalid /\ narrow => ~Exists(i)
  BY <1>2, <1>5, <1>6
<1> HIDE DEF i, invalid, unaddressed, unscaled, narrow
<1>8. ~invalid => Good(i, q)
  <2> SUFFICES ASSUME ~invalid PROVE Good(i, q)
    OBVIOUS
  <2>1. /\ unaddressed => ~Exists(i)
        /\ ~unaddressed /\ unscaled => ~Exists(i)
        /\ ~unaddressed /\ ~unscaled /\ narrow => ~Exists(i)
    BY <1>7
  <2> QED
    BY <1>3, <2>1, ErrorNames, CheckedThrice
<1> HIDE DEF q
<1>9. Good(i, r)
  BY <1>4, <1>8, ErrorNames, Checked
<1> QED
  BY <1>1, <1>9, Answered

LEMMA LeaRegGood ==
    ASSUME NEW function, NEW destination, NEW source, source # NoRegister,
           NEW mode \in DOMAIN Modes, NEW disp8 \in Byte, NEW disp32, disp32[1] \in Byte,
           emit_lea_reg_disp(function, destination, source, mode, disp8, disp32)
    PROVE  Good(asked', result')
<1> DEFINE dst == reg_info(destination)
           src == reg_info(source)
           m == Mem(0, source, NoRegister, 1, Added(mode, disp8, disp32))
           i == Instruction("lea", Reg(destination), m)
           low == Narrowed(disp32)
           d == [RegRm(dst, src, mode, <<\h8D>>) EXCEPT !.disp8 = disp8, !.disp32 = low]
           invalid == ~Valid({destination, source})
           narrow == dst.size = 1
           unaddressed == src.size \in {1, 2}
           r == IF invalid THEN Refused("INVALID_REGISTER")
                ELSE IF narrow THEN Refused("SIZE_INVALID")
                ELSE IF unaddressed THEN Refused("INVALID_ADDRESSING") ELSE emit_encode(d)
<1>1. Called(function, i, r)
  BY DEF emit_lea_reg_disp
<1>2. source \in NamedIn(m) /\ (Addressable(m) => source.size = 8)
  BY MemoryOperand
<1>3. Encodable(d)
  <2>1. low \in Byte /\ dst \in Info /\ src \in Info
    BY InfoType DEF Narrowed
  <2> HIDE DEF low, dst, src
  <2> QED
    BY <2>1, LeaRegEncodable
<1> HIDE DEF m, d
<1>4. invalid => ~Exists(i)
  BY <1>2, ValidIs, InvalidNamed, Operands
<1>5. ~invalid => src.size = source.size /\ dst.size = destination.size
  BY ValidIs, InfoIs
<1>6. Exists(i) => source.size = 8 /\ destination.size # 1
  BY <1>2, LeaSizes, NotAddressable
<1>7. /\ ~invalid /\ narrow => ~Exists(i)
      /\ ~invalid /\ ~narrow /\ unaddressed => ~Exists(i)
  BY <1>5, <1>6
<1> HIDE DEF i, invalid, unaddressed, narrow
<1>8. Good(i, r)
  BY <1>3, <1>4, <1>7, ErrorNames, CheckedThrice
<1> QED
  BY <1>1, <1>8, Answered

LEMMA GroupGood ==
    ASSUME NEW op \in GroupOperations, NEW destination, destination # NoRegister,
           NEW ptr_size,
           emit_group_reg(op, destination) \/ emit_group_mem(op, destination, ptr_size)
    PROVE  Good(asked', result')
<1> DEFINE dst == reg_info(destination)
           digit == group_digit[op]
           invalid == ~dst.valid
<1>1. digit \in 0 .. 7 /\ group[op] \in 0 .. 254
  BY Tables
<1> HIDE DEF digit
<1>2. CASE emit_group_reg(op, destination)
  <2> DEFINE i == Instruction(op, Reg(destination), Nothing)
             opcodes == <<SizeOpcode(group[op], dst.size)>>
             d == DigitRm(digit, dst, "DIRECT", opcodes, dst.size = 2)
             r == IF invalid THEN Refused("INVALID_REGISTER") ELSE emit_encode(d)
  <2>1. Called("group_reg", i, r)
    BY <1>2 DEF emit_group_reg, digit
  <2>2. Upto(opcodes, 2)
    BY <1>1, OpcodeBytes
  <2> HIDE DEF opcodes
  <2>3. Encodable(d)
    BY <1>1, <2>2, InfoType, ModeNames, UptoLiteral, DigitRmEncodable
  <2>4. invalid => ~Exists(i)
    BY InfoIs, InvalidNamed, Operands
  <2> HIDE DEF i, d, invalid
  <2>5. Good(i, r)
    BY <2>3, <2>4, EncodedIs, ErrorNames, Checked
  <2> QED
    BY <2>1, <2>5, Answered
<1>3. CASE emit_group_mem(op, destination, ptr_size)
  <2> DEFINE m == At(ptr_size, destination)
             i == Instruction(op, m, Nothing)
             opcodes == <<SizeOpcode(group[op], ptr_size)>>
             d == DigitRm(digit, dst, "INDIRECT", opcodes, ptr_size = 2)
             narrow == dst.size # 8
             r == IF invalid THEN Refused("INVALID_REGISTER")
                  ELSE IF narrow THEN Refused("INVALID_ADDRESSING") ELSE emit_encode(d)
  <2>1. Called("group_mem", i, r)
    BY <1>3 DEF emit_group_mem, digit
  <2>2. destination \in NamedIn(m) /\ (Addressable(m) => destination.size = 8)
    BY MemoryOperand DEF At
  <2>3. Upto(opcodes, 2)
    BY <1>1, OpcodeBytes
  <2> HIDE DEF opcodes, m
  <2>4. Encodable(d)
    BY <1>1, <2>3, InfoType, ModeNames, UptoLiteral, DigitRmEncodable
  <2>5. invalid => ~Exists(i)
    BY <2>2, InfoIs, InvalidNamed
  <2>6. ~invalid /\ narrow => ~Exists(i)
    BY <2>2, InfoIs, NotAddressable
  <2> HIDE DEF i, d, invalid, narrow
  <2>7. Good(i, r)
    BY <2>4, <2>5, <2>6, ErrorNames, CheckedTwice
  <2> QED
    BY <2>1, <2>7, Answered
<1> QED
  BY <1>2, <1>3

LEMMA SetGood ==
    ASSUME NEW condition \in DOMAIN condition_opcode, NEW destination,
           emit_set_flags(condition, destination)
    PROVE  Good(asked', result')
<1> DEFINE dst == reg_info(destination)
           i == Instruction("set", Reg(destination), Condition(Conditions[condition]))
           opcodes == <<\h0F, condition_opcode[condition]>>
           d == DigitRm(0, dst, "DIRECT", opcodes, FALSE)
           invalid == ~dst.valid
           wrong == dst.size # 1
           r == IF invalid THEN Refused("INVALID_REGISTER")
                ELSE IF wrong THEN Refused("SIZE_INVALID") ELSE emit_encode(d)
<1>1. Called(condition, i, r)
  BY DEF emit_set_flags
<1>2. Encodable(d)
  <2>1. Upto(opcodes, 2)
    BY Tables, OneOpcode
  <2> HIDE DEF opcodes
  <2>2. 0 \in 0 .. 7
    OBVIOUS
  <2> QED
    BY <2>1, <2>2, InfoType, ModeNames, UptoLiteral, DigitRmEncodable
<1>3. invalid => ~Exists(i)
  BY InfoIs, InvalidNamed, Operands
<1>4. ~invalid /\ wrong => ~Exists(i)
  <2>1. i.op = "set" /\ SizeOf(i.dst) = destination.size
    BY Operands DEF Instruction
  <2>2. Exists(i) => destination.size = 1
    BY <2>1 DEF Exists, SizesFit
  <2> QED
    BY <2>2, InfoIs
<1> HIDE DEF i, d, invalid, wrong
<1>5. Good(i, r)
  BY <1>2, <1>3, <1>4, ErrorNames, CheckedTwice
<1> QED
  BY <1>1, <1>5, Answered

LEMMA PlainGood ==
    ASSUME NEW op \in DOMAIN plain_opcode, emit_plain(op)
    PROVE  Good(asked', result')
<1> DEFINE opcodes == <<plain_opcode[op]>>
           d == [Descriptor EXCEPT !.opcodes = opcodes, !.has_modRM = FALSE]
<1>1. Upto(opcodes, 2)
  BY Tables, OneOpcode
<1> HIDE DEF opcodes
<1>2. Encodable(d)
  BY <1>1, InfoType, UptoLiteral, SomeBytes DEF Encodable, Descriptor, Modes
<1>3. Called(op, Instruction(op, Nothing, Nothing), emit_encode(d))
  BY DEF emit_plain, opcodes
<1> QED
  BY <1>2, <1>3, EncodedIs, Answered

LEMMA RealRegisters == \A r \in Registers : r # NoRegister
BY EmitterAssumption, InvalidIsNotNone

(* Two registers.                                                           *)
LEMMA RegRegCalls ==
    ASSUME NEW d \in Registers, NEW s \in Registers,
           \/ emit_mov_reg_reg(d, s) \/ emit_test_reg_reg(d, s)
           \/ \E op \in AluOperations : emit_alu_reg_reg(op, d, s)
    PROVE  Good(asked', result')
<1>1. CASE emit_mov_reg_reg(d, s)
  <2> DEFINE opcodes == <<SizeOpcode(\h8A, reg_info(d).size)>>
  <2>1. Upto(opcodes, 2)
    BY OpcodeBytes
  <2>2. Called("mov_reg_reg", Instruction("mov", Reg(d), Reg(s)), RegRegAnswer(d, s, opcodes))
    BY <1>1 DEF emit_mov_reg_reg, RegRegAnswer
  <2> HIDE DEF opcodes
  <2> QED
    BY <2>1, <2>2, RegRegGood, Answered
<1>2. CASE emit_test_reg_reg(d, s)
  <2> DEFINE opcodes == <<SizeOpcode(\h84, reg_info(d).size)>>
  <2>1. Upto(opcodes, 2)
    BY OpcodeBytes
  <2>2. Called("test_reg_reg", Instruction("test", Reg(d), Reg(s)), RegRegAnswer(d, s, opcodes))
    BY <1>2 DEF emit_test_reg_reg, RegRegAnswer
  <2> HIDE DEF opcodes
  <2> QED
    BY <2>1, <2>2, RegRegGood, Answered
<1>3. ASSUME NEW op \in AluOperations, emit_alu_reg_reg(op, d, s)
      PROVE  Good(asked', result')
  <2> DEFINE opcodes == <<SizeOpcode(alu_opcode[op] + 2, reg_info(d).size)>>
  <2>1. Upto(opcodes, 2)
    BY Tables, OpcodeBytes
  <2>2. Called("alu_reg_reg", Instruction(op, Reg(d), Reg(s)), RegRegAnswer(d, s, opcodes))
    BY <1>3 DEF emit_alu_reg_reg, RegRegAnswer
  <2> HIDE DEF opcodes
  <2> QED
    BY <2>1, <2>2, RegRegGood, Answered
<1> QED
  BY <1>1, <1>2, <1>3

(* A register and memory.                                                   *)
LEMMA RegMemCalls ==
    ASSUME NEW d \in Registers, NEW s \in Registers,
           \/ emit_mov_reg_mem(d, s) \/ emit_mov_mem_reg(d, s)
           \/ \E op \in AluOperations : emit_alu_reg_mem(op, d, s)
    PROVE  Good(asked', result')
<1>1. CASE emit_mov_reg_mem(d, s)
  <2> DEFINE opcodes == <<SizeOpcode(\h8A, reg_info(d).size)>>
  <2>1. Upto(opcodes, 2)
    BY OpcodeBytes
  <2>2. Called("mov_reg_mem", Instruction("mov", Reg(d), At(reg_info(d).size, s)),
               RegMemAnswer(d, s, opcodes))
    BY <1>1 DEF emit_mov_reg_mem, RegMemAnswer
  <2> HIDE DEF opcodes
  <2> QED
    BY <2>1, <2>2, RealRegisters, RegMemGood, Answered
<1>2. CASE emit_mov_mem_reg(d, s)
  BY <1>2, RealRegisters, MemRegGood
<1>3. ASSUME NEW op \in AluOperations, emit_alu_reg_mem(op, d, s)
      PROVE  Good(asked', result')
  <2> DEFINE opcodes == <<SizeOpcode(alu_opcode[op] + 2, reg_info(d).size)>>
  <2>1. Upto(opcodes, 2)
    BY Tables, OpcodeBytes
  <2>2. Called("alu_reg_mem", Instruction(op, Reg(d), At(reg_info(d).size, s)),
               RegMemAnswer(d, s, opcodes))
    BY <1>3 DEF emit_alu_reg_mem, RegMemAnswer
  <2> HIDE DEF opcodes
  <2> QED
    BY <2>1, <2>2, RealRegisters, RegMemGood, Answered
<1> QED
  BY <1>1, <1>2, <1>3

(* An address.                                                              *)
LEMMA LeaCalls ==
    ASSUME NEW d \in Registers, NEW s \in Registers,
           \/ \E v \in Bytes1 : emit_lea_reg_disp8(d, s, v)
           \/ \E v \in Bytes4 : emit_lea_reg_disp32(d, s, v)
           \/ \E i \in IndexRegisters, scale \in Scales :
               \/ emit_lea_sib(d, scale, i, s)
               \/ \E v \in Bytes1 : emit_lea_sib_disp8(d, scale, i, s, v)
               \/ \E v \in Bytes4 : emit_lea_sib_disp32(d, scale, i, s, v)
    PROVE  Good(asked', result')
<1>1. /\ \A v \in Bytes1 : v[1] \in Byte
      /\ \A v \in Bytes4 : v[1] \in Byte
      /\ Zeros[1] \in Byte /\ 0 \in Byte
  BY EmitterAssumption, ImmediateBytes, SomeBytes DEF Zeros
<1>2. s # NoRegister /\ \A i \in IndexRegisters : i # NoRegister
  BY RealRegisters, EmitterAssumption
<1>3. ASSUME NEW v \in Bytes1, emit_lea_reg_disp8(d, s, v)
      PROVE  Good(asked', result')
  BY <1>1, <1>2, <1>3, ModeNames, LeaRegGood DEF emit_lea_reg_disp8
<1>4. ASSUME NEW v \in Bytes4, emit_lea_reg_disp32(d, s, v)
      PROVE  Good(asked', result')
  BY <1>1, <1>2, <1>4, ModeNames, LeaRegGood DEF emit_lea_reg_disp32
<1>5. ASSUME NEW i \in IndexRegisters, NEW scale \in Scales, emit_lea_sib(d, scale, i, s)
      PROVE  Good(asked', result')
  <2> DEFINE mode == IF reg_info(s).num % 8 = 5 THEN "INDIRECT_DISP8" ELSE "INDIRECT"
  <2>1. mode \in DOMAIN Modes
    BY ModeNames
  <2>2. emit_lea_sib_disp("lea_sib", d, scale, i, s, mode, 0, Zeros)
    BY <1>5 DEF emit_lea_sib
  <2> HIDE DEF mode
  <2> QED
    BY <1>1, <1>2, <2>1, <2>2, LeaSibGood
<1>6. ASSUME NEW i \in IndexRegisters, NEW scale \in Scales, NEW v \in Bytes1,
             emit_lea_sib_disp8(d, scale, i, s, v)
      PROVE  Good(asked', result')
  BY <1>1, <1>2, <1>6, ModeNames, LeaSibGood DEF emit_lea_sib_disp8
<1>7. ASSUME NEW i \in IndexRegisters, NEW scale \in Scales, NEW v \in Bytes4,
             emit_lea_sib_disp32(d, scale, i, s, v)
      PROVE  Good(asked', result')
  BY <1>1, <1>2, <1>7, ModeNames, LeaSibGood DEF emit_lea_sib_disp32
<1> QED
  BY <1>3, <1>4, <1>5, <1>6, <1>7


(* A register and an immediate of one byte, of two, of four.                *)
LEMMA Imm8Calls ==
    ASSUME NEW d \in Registers, NEW v \in Bytes1,
           \/ emit_mov_reg_imm8(d, v) \/ emit_test_reg_imm8(d, v) \/ emit_bt_reg_imm8(d, v)
           \/ \E op \in AluOperations : emit_alu_reg_imm8(op, d, v)
           \/ \E op \in {"shl", "shr"} : emit_group_imm(op, d, v)
    PROVE  Good(asked', result')
<1>1. v \in [1 .. 1 -> Byte]
  BY EmitterAssumption
<1>2. Upto(v, 4) /\ Len(v) = 1
  BY <1>1, ImmediateBytes
<1>3. CASE emit_mov_reg_imm8(d, v)
  BY <1>1, <1>3, MovImmediateGood
<1>4. CASE emit_test_reg_imm8(d, v)
  <2>1. Exists(Instruction("test", Reg(d), Imm(v))) => d.size \in {1}
    <3>1. Exists(Instruction("test", Reg(d), Imm(v))) =>
            ImmediateFits(d.size, Len(v)) /\ d.size \in Sizes
      BY <1>2, ImmediateSizes
    <3> QED
      BY <1>2, <3>1 DEF ImmediateFits, Sizes
  <2>2. Upto(<<\hF6>>, 2)
    BY ImmediateOpcodes
  <2> QED
    BY <1>2, <1>4, <2>1, <2>2, ErrorNames, ImmediateGood DEF emit_test_reg_imm8
<1>5. CASE emit_bt_reg_imm8(d, v)
  <2>1. Exists(Instruction("bt", Reg(d), Imm(v))) => d.size \in {2, 4, 8}
    BY ImmediateSizes DEF Sizes
  <2>2. Upto(<<\h0F, \hBA>>, 2)
    BY ImmediateOpcodes
  <2> QED
    BY <1>2, <1>5, <2>1, <2>2, ErrorNames, ImmediateGood DEF emit_bt_reg_imm8
<1>6. ASSUME NEW op \in AluOperations, emit_alu_reg_imm8(op, d, v)
      PROVE  Good(asked', result')
  <2> DEFINE opcode == <<IF reg_info(d).size = 1 THEN \h80 ELSE \h83>>
             digit == alu_digit[op]
  <2>1. Upto(opcode, 2)
    BY ImmediateOpcodes
  <2>2. digit \in 0 .. 7
    BY Tables
  <2>3. Immediate("alu_reg_imm8", op, digit, opcode, d, v, Sizes, "none")
    BY <1>6 DEF emit_alu_reg_imm8
  <2> HIDE DEF opcode, digit
  <2> QED
    BY <1>2, <2>1, <2>2, <2>3, ImmediateGood
<1>7. ASSUME NEW op \in {"shl", "shr"}, emit_group_imm(op, d, v)
      PROVE  Good(asked', result')
  <2> DEFINE opcode == <<SizeOpcode(\hC0, reg_info(d).size)>>
             digit == group_digit[op]
  <2>1. Upto(opcode, 2)
    BY OpcodeBytes
  <2>2. digit \in 0 .. 7
    BY DEF group_digit
  <2>3. Immediate("group_imm", op, digit, opcode, d, v, Sizes, "none")
    BY <1>7 DEF emit_group_imm
  <2> HIDE DEF opcode, digit
  <2> QED
    BY <1>2, <2>1, <2>2, <2>3, ImmediateGood
<1> QED
  BY <1>3, <1>4, <1>5, <1>6, <1>7

LEMMA Imm16Calls ==
    ASSUME NEW d \in Registers, NEW v \in Bytes2,
           \/ emit_test_reg_imm16(d, v)
           \/ \E op \in AluOperations : emit_alu_reg_imm16(op, d, v)
    PROVE  Good(asked', result')
<1>1. v \in [1 .. 2 -> Byte]
  BY EmitterAssumption
<1>2. Upto(v, 4) /\ Len(v) = 2
  BY <1>1, ImmediateBytes
<1>3. CASE emit_test_reg_imm16(d, v)
  <2>1. Exists(Instruction("test", Reg(d), Imm(v))) => d.size \in {2}
    <3>1. Exists(Instruction("test", Reg(d), Imm(v))) =>
            ImmediateFits(d.size, Len(v)) /\ d.size \in Sizes
      BY <1>2, ImmediateSizes
    <3> QED
      BY <1>2, <3>1 DEF ImmediateFits, Sizes
  <2>2. Upto(<<\hF7>>, 2)
    BY ImmediateOpcodes
  <2> QED
    BY <1>2, <1>3, <2>1, <2>2, ErrorNames, ImmediateGood DEF emit_test_reg_imm16
<1>4. ASSUME NEW op \in AluOperations, emit_alu_reg_imm16(op, d, v)
      PROVE  Good(asked', result')
  <2>1. Exists(Instruction(op, Reg(d), Imm(v))) => d.size \in {2}
    <3> SUFFICES ASSUME Exists(Instruction(op, Reg(d), Imm(v))) PROVE d.size \in {2}
      OBVIOUS
    <3>1. (Len(v) = 1 \/ ImmediateFits(d.size, Len(v))) /\ d.size \in Sizes
      BY ImmediateSizes
    <3> QED
      BY <1>2, <3>1 DEF ImmediateFits, Sizes
  <2>2. Upto(<<\h81>>, 2)
    BY ImmediateOpcodes
  <2> DEFINE digit == alu_digit[op]
  <2>3. digit \in 0 .. 7
    BY Tables
  <2>4. Immediate("alu_reg_imm16", op, digit, <<\h81>>, d, v, {2}, "SIZE_INVALID")
    BY <1>4 DEF emit_alu_reg_imm16
  <2> HIDE DEF digit
  <2> QED
    BY <1>2, <2>1, <2>2, <2>3, <2>4, ErrorNames, ImmediateGood
<1> QED
  BY <1>3, <1>4

LEMMA Imm32Calls ==
    ASSUME NEW d \in Registers, NEW v \in Bytes4,
           \/ emit_mov_reg_imm32(d, v) \/ emit_test_reg_imm32(d, v)
           \/ \E op \in AluOperations : emit_alu_reg_imm32(op, d, v)
    PROVE  Good(asked', result')
<1>1. v \in [1 .. 4 -> Byte]
  BY EmitterAssumption
<1>2. Upto(v, 4) /\ Len(v) = 4
  BY <1>1, ImmediateBytes
<1>3. CASE emit_mov_reg_imm32(d, v)
  BY <1>1, <1>3, MovImmediateGood
<1>4. CASE emit_test_reg_imm32(d, v)
  <2>1. Exists(Instruction("test", Reg(d), Imm(v))) => d.size \in {4, 8}
    <3>1. Exists(Instruction("test", Reg(d), Imm(v))) =>
            ImmediateFits(d.size, Len(v)) /\ d.size \in Sizes
      BY <1>2, ImmediateSizes
    <3> QED
      BY <1>2, <3>1 DEF ImmediateFits, Sizes
  <2>2. Upto(<<\hF7>>, 2)
    BY ImmediateOpcodes
  <2> QED
    BY <1>2, <1>4, <2>1, <2>2, ErrorNames, ImmediateGood DEF emit_test_reg_imm32
<1>5. ASSUME NEW op \in AluOperations, emit_alu_reg_imm32(op, d, v)
      PROVE  Good(asked', result')
  <2>1. Exists(Instruction(op, Reg(d), Imm(v))) => d.size \in {4, 8}
    <3> SUFFICES ASSUME Exists(Instruction(op, Reg(d), Imm(v))) PROVE d.size \in {4, 8}
      OBVIOUS
    <3>1. (Len(v) = 1 \/ ImmediateFits(d.size, Len(v))) /\ d.size \in Sizes
      BY ImmediateSizes
    <3> QED
      BY <1>2, <3>1 DEF ImmediateFits, Sizes
  <2>2. Upto(<<\h81>>, 2)
    BY ImmediateOpcodes
  <2> DEFINE digit == alu_digit[op]
  <2>3. digit \in 0 .. 7
    BY Tables
  <2>4. Immediate("alu_reg_imm32", op, digit, <<\h81>>, d, v, {4, 8}, "SIZE_INVALID")
    BY <1>5 DEF emit_alu_reg_imm32
  <2> HIDE DEF digit
  <2> QED
    BY <1>2, <2>1, <2>2, <2>3, <2>4, ErrorNames, ImmediateGood
<1> QED
  BY <1>3, <1>4, <1>5

-----------------------------------------------------------------------------
(* The specification.                                                       *)

LEMMA CallGood ==
    ASSUME Call
    PROVE  Good(asked', result')
<1>1. ASSUME NEW d \in Registers, NEW s \in Registers,
             \/ emit_mov_reg_reg(d, s) \/ emit_mov_reg_mem(d, s) \/ emit_mov_mem_reg(d, s)
             \/ emit_movzx_reg_reg(d, s) \/ emit_test_reg_reg(d, s)
             \/ \E pointer \in Sizes : emit_movzx_reg_mem(d, s, pointer)
             \/ \E op \in AluOperations : emit_alu_reg_reg(op, d, s)
             \/ \E op \in AluOperations \ {"add"} : emit_alu_reg_mem(op, d, s)
             \/ \E v \in Bytes1 : emit_lea_reg_disp8(d, s, v)
             \/ \E v \in Bytes4 : emit_lea_reg_disp32(d, s, v)
             \/ \E i \in IndexRegisters, scale \in Scales :
                 \/ emit_lea_sib(d, scale, i, s)
                 \/ \E v \in Bytes1 : emit_lea_sib_disp8(d, scale, i, s, v)
                 \/ \E v \in Bytes4 : emit_lea_sib_disp32(d, scale, i, s, v)
      PROVE  Good(asked', result')
  <2>1. s # NoRegister /\ 1 \in Sizes
    BY RealRegisters DEF Sizes
  <2>2. CASE emit_movzx_reg_reg(d, s) \/ \E pointer \in Sizes : emit_movzx_reg_mem(d, s, pointer)
    BY <2>1, <2>2, MovzxGood
  <2> QED
    BY <1>1, <2>2, RegRegCalls, RegMemCalls, LeaCalls
<1>2. ASSUME NEW d \in Registers,
             \/ \E v \in Bytes1 :
                 \/ emit_mov_reg_imm8(d, v) \/ emit_test_reg_imm8(d, v) \/ emit_bt_reg_imm8(d, v)
                 \/ \E op \in AluOperations : emit_alu_reg_imm8(op, d, v)
                 \/ \E op \in {"shl", "shr"} : emit_group_imm(op, d, v)
             \/ \E v \in Bytes2 :
                 \/ emit_test_reg_imm16(d, v)
                 \/ \E op \in AluOperations : emit_alu_reg_imm16(op, d, v)
             \/ \E v \in Bytes4 :
                 \/ emit_mov_reg_imm32(d, v) \/ emit_test_reg_imm32(d, v)
                 \/ \E op \in AluOperations : emit_alu_reg_imm32(op, d, v)
      PROVE  Good(asked', result')
  BY <1>2, Imm8Calls, Imm16Calls, Imm32Calls
<1>3. ASSUME NEW d \in Registers,
             \/ \E op \in GroupOperations : emit_group_reg(op, d)
             \/ \E op \in GroupOperations \ {"not"}, ptr_size \in Sizes :
                    emit_group_mem(op, d, ptr_size)
      PROVE  Good(asked', result')
  BY <1>3, RealRegisters, GroupGood
<1>4. ASSUME NEW d \in Registers,
             \E condition \in DOMAIN condition_opcode : emit_set_flags(condition, d)
      PROVE  Good(asked', result')
  BY <1>4, SetGood
<1>5. ASSUME \E op \in DOMAIN plain_opcode : emit_plain(op)
      PROVE  Good(asked', result')
  BY <1>5, PlainGood
<1> QED
  BY <1>1, <1>2, <1>3, <1>4, <1>5 DEF Call

(* The inductive invariant: the answer is one, and what it refuses there is *)
(* not.                                                                     *)
Inv == Good(asked, result)

LEMMA Inductive == Spec => []Inv
<1>1. Init => Inv
  BY UptoLiteral DEF Init, Inv, Good, Answer, Idle, Errors, Upto, MAX_INSTRUCTION_SIZE
<1>2. Inv /\ [Next]_vars => Inv'
  <2> SUFFICES ASSUME Inv, [Next]_vars PROVE Good(asked', result')
    BY DEF Inv
  <2>1. CASE Call
    BY <2>1, CallGood
  <2>2. CASE UNCHANGED vars
    BY <2>2 DEF vars, Inv
  <2> QED
    BY <2>1, <2>2 DEF Next, Done
<1> QED
  BY <1>1, <1>2, PTL DEF Spec

(* Whatever an emit_ function is called with, it answers with an error or   *)
(* with bytes, and they and the end marker fit in the instruction_bytes of  *)
(* an emit_result_t: emit_encode never writes past the array.               *)
THEOREM TypeCorrect == Spec => []TypeOK
<1>1. Inv => TypeOK
  <2> SUFFICES ASSUME Inv PROVE TypeOK
    OBVIOUS
  <2> DEFINE bytes == result.instruction_bytes
  <2>1. bytes \in Seq(Byte) /\ Len(bytes) <= MAX_INSTRUCTION_SIZE
    BY DEF Inv, Good, Answer, Upto
  <2>2. \A i \in 1 .. Len(bytes) : bytes[i] \in Byte
    BY <2>1
  <2>3. result.error \in Errors \cup {"none", "OK"}
    BY DEF Inv, Good, Answer
  <2> QED
    BY <2>1, <2>2, <2>3 DEF TypeOK
<1> QED
  BY <1>1, Inductive, PTL

(* No check of an emit_ function refuses an instruction a processor has,    *)
(* its addresses being of 64 bits, for any registers, scale, immediate and  *)
(* displacement.                                                            *)
THEOREM RefusesNothingPossibleCorrect == Spec => []RefusesNothingPossible
<1>1. Inv => RefusesNothingPossible
  BY DEF Inv, Good, RefusesNothingPossible
<1> QED
  BY <1>1, Inductive, PTL

-----------------------------------------------------------------------------
(* Bytes from their fields, and back.                                       *)

LEMMA Powers == 2 ^ 0 = 1 /\ 2 ^ 1 = 2 /\ 2 ^ 2 = 4 /\ 2 ^ 3 = 8
OBVIOUS

(* A ModRM or SIB byte is its three fields, and they are what a processor   *)
(* takes it apart into.                                                     *)
LEMMA Fields ==
    ASSUME NEW m, m \in 0 .. 3, NEW r, r \in 0 .. 7, NEW b, b \in 0 .. 7
    PROVE  LET v == 64 * m + 8 * r + b
           IN  v \div 64 = m /\ (v \div 8) % 8 = r /\ v % 8 = b
OBVIOUS

(* A REX prefix is its four bits; without one they read as zeros.           *)
LEMMA RexFields ==
    ASSUME NEW W \in {0, 1}, NEW R \in {0, 1}, NEW X \in {0, 1}, NEW B \in {0, 1}
    PROVE  LET v == \h40 + 8 * W + 4 * R + 2 * X + B
           IN  /\ Bit(v, 3) = W /\ Bit(v, 2) = R /\ Bit(v, 1) = X /\ Bit(v, 0) = B
               /\ Bit(0, 3) = 0 /\ Bit(0, 2) = 0 /\ Bit(0, 1) = 0 /\ Bit(0, 0) = 0
BY Powers DEF Bit

(* What the prefix tells a processor.                                       *)
LEMMA RexBits ==
    ASSUME NEW reg \in Info, NEW rm \in Info, NEW index \in Info, NEW base \in Info
    PROVE  LET rex == rex_value(reg, rm, index, base)
           IN  /\ Bit(rex, 3) = Flag(8 \in {reg.size, rm.size})
               /\ Bit(rex, 2) = Flag(reg.num >= 8)
               /\ Bit(rex, 1) = Flag(index.num >= 8)
               /\ Bit(rex, 0) = Flag(base.num >= 8 \/ rm.num >= 8)
               /\ rex = 0 <=>
                      /\ 8 \notin {reg.size, rm.size}
                      /\ ~(reg.num >= 8) /\ ~(index.num >= 8) /\ ~(base.num >= 8) /\ ~(rm.num >= 8)
                      /\ ~reg.needs_rex /\ ~rm.needs_rex /\ ~index.needs_rex /\ ~base.needs_rex
<1> DEFINE rex == rex_value(reg, rm, index, base)
           wide == 8 \in {reg.size, rm.size}
           based == base.num >= 8 \/ rm.num >= 8
           W == Flag(wide)
           R == Flag(reg.num >= 8)
           X == Flag(index.num >= 8)
           B == Flag(based)
           asking == TRUE \in {reg.needs_rex, rm.needs_rex, index.needs_rex, base.needs_rex}
           v == \h40 + 8 * W + 4 * R + 2 * X + B
<1>1. /\ W \in {0, 1} /\ (W = 0 <=> ~wide)
      /\ R \in {0, 1} /\ (R = 0 <=> ~(reg.num >= 8))
      /\ X \in {0, 1} /\ (X = 0 <=> ~(index.num >= 8))
      /\ B \in {0, 1} /\ (B = 0 <=> ~based)
  BY DEF Flag
<1>2. rex = IF W + R + X + B > 0 \/ asking THEN v ELSE 0
  BY DEF rex_value
<1>3. asking <=> \/ reg.needs_rex \/ rm.needs_rex \/ index.needs_rex \/ base.needs_rex
  BY DEF Info
<1> HIDE DEF rex, W, R, X, B, asking
<1>4. /\ Bit(v, 3) = W /\ Bit(v, 2) = R /\ Bit(v, 1) = X /\ Bit(v, 0) = B
      /\ Bit(0, 3) = 0 /\ Bit(0, 2) = 0 /\ Bit(0, 1) = 0 /\ Bit(0, 0) = 0
  BY <1>1, RexFields
<1>5. v # 0
  BY <1>1
<1>6. rex = 0 <=> W + R + X + B = 0 /\ ~asking
  BY <1>1, <1>2, <1>5
<1>7. W + R + X + B = 0 <=> ~wide /\ ~(reg.num >= 8) /\ ~(index.num >= 8) /\ ~based
  BY <1>1
<1>8. /\ Bit(rex, 3) = W /\ Bit(rex, 2) = R /\ Bit(rex, 1) = X /\ Bit(rex, 0) = B
  <2>1. CASE W + R + X + B > 0 \/ asking
    BY <1>2, <1>4, <2>1
  <2>2. CASE ~(W + R + X + B > 0 \/ asking)
    <3>1. W = 0 /\ R = 0 /\ X = 0 /\ B = 0
      BY <1>1, <2>2
    <3> QED
      BY <1>2, <1>4, <2>2, <3>1
  <2> QED
    BY <2>1, <2>2
<1> QED
  BY <1>3, <1>6, <1>7, <1>8 DEF rex, W, R, X, B

(* Places in a sequence made of two.                                        *)
LEMMA Pair ==
    ASSUME NEW a \in Byte, NEW b \in Byte
    PROVE  <<a>> \o <<b>> = <<a, b>>
<1> DEFINE s == <<a>> \o <<b>>
           t == <<a, b>>
<1>1. /\ s \in Seq(Byte) /\ Len(s) = 1 + 1
      /\ \A i \in 1 .. 1 + 1 : s[i] = IF i <= 1 THEN <<a>>[i] ELSE <<b>>[i - 1]
  BY Literal, ConcatProperties
<1>2. t \in Seq(Byte) /\ Len(t) = 2 /\ t[1] = a /\ t[2] = b
  BY Literal
<1> HIDE DEF s, t
<1>3. s[1] = a /\ s[2] = b
  BY <1>1
<1>4. \A i \in 1 .. 2 : s[i] = t[i]
  BY <1>2, <1>3
<1>5. Len(s) = 2
  BY <1>1
<1>6. s = t
  BY <1>1, <1>2, <1>4, <1>5, SeqEqual
<1> QED
  BY <1>6 DEF s, t

LEMMA OneOrTwo == \A l \in {1, 2} : 1 \in 1 .. l /\ (l = 2 => 2 \in 1 .. l)
OBVIOUS

LEMMA LeftOf ==
    ASSUME NEW s \in Seq(Byte), NEW t \in Seq(Byte), NEW i, i \in 1 .. Len(s)
    PROVE  (s \o t)[i] = s[i]
BY ConcatProperties, LenProperties

LEMMA RightOf ==
    ASSUME NEW s \in Seq(Byte), NEW t \in Seq(Byte), NEW i, i \in 1 .. Len(t)
    PROVE  (s \o t)[Len(s) + i] = t[i]
<1> DEFINE j == Len(s) + i
<1>1. Len(s) \in Nat /\ Len(t) \in Nat
  BY LenProperties
<1>2. j \in 1 .. Len(s) + Len(t) /\ ~(j <= Len(s)) /\ j - Len(s) = i
  BY <1>1
<1> HIDE DEF j
<1>3. (s \o t)[j] = IF j <= Len(s) THEN s[j] ELSE t[j - Len(s)]
  BY <1>2, ConcatProperties
<1> QED
  BY <1>2, <1>3 DEF j

(* What comes before the ModRM byte.                                        *)
Prefixes(word, rex) == (IF word THEN <<\h66>> ELSE <<>>) \o (IF rex = 0 THEN <<>> ELSE <<rex>>)

(* An opcode is not taken for a prefix, and one of two bytes is known by    *)
(* the first.                                                               *)
Opcodes(s) ==
    /\ s \in Seq(Byte) /\ Len(s) \in {1, 2}
    /\ s[1] # \h66 /\ s[1] \notin \h40 .. \h4F
    /\ Len(s) = 2 <=> s[1] = \h0F

(* The bytes before the opcode, place by place.                             *)
LEMMA PrefixesAre ==
    ASSUME NEW word, NEW rex, rex \in {0} \cup \h40 .. \h4F
    PROVE  /\ Prefixes(word, rex) =
                 IF word THEN IF rex = 0 THEN <<\h66>> ELSE <<\h66, rex>>
                 ELSE IF rex = 0 THEN <<>> ELSE <<rex>>
           /\ Prefixes(word, rex) \in Seq(Byte)
           /\ Len(Prefixes(word, rex)) = Flag(word) + Flag(rex # 0)
<1>1. rex # 0 => rex \in Byte
  BY SomeBytes
<1>2. CASE word /\ rex # 0
  <2>1. <<\h66>> \o <<rex>> = <<\h66, rex>>
    BY <1>1, <1>2, SomeBytes, Pair
  <2> QED
    BY <1>1, <1>2, <2>1, Literal, SomeBytes DEF Prefixes, Flag
<1>3. CASE word /\ rex = 0
  BY <1>3, Literal, SomeBytes, ConcatEmptySeq DEF Prefixes, Flag
<1>4. CASE ~word /\ rex # 0
  BY <1>1, <1>4, Literal, SomeBytes, ConcatEmptySeq DEF Prefixes, Flag
<1>5. CASE ~word /\ rex = 0
  BY <1>5, Literal, ConcatEmptySeq DEF Prefixes, Flag
<1> QED
  BY <1>2, <1>3, <1>4, <1>5

(* The bytes at the places a processor looks at, whatever follows.          *)
Begins(s, p, opcodes, tail) ==
    /\ s \in Seq(Byte) /\ Len(s) = Len(p) + Len(opcodes) + Len(tail)
    /\ \A i \in 1 .. Len(p) : s[i] = p[i]
    /\ s[Len(p) + 1] = opcodes[1]
    /\ Len(opcodes) = 2 => s[Len(p) + 2] = opcodes[2]
    /\ \A i \in 1 .. Len(tail) : s[Len(p) + Len(opcodes) + i] = tail[i]

(* Where prefixes and opcode stand in what is written.                      *)
LEMMA OpeningBytes ==
    ASSUME NEW word, NEW rex, rex \in {0} \cup \h40 .. \h4F,
           NEW opcodes, Opcodes(opcodes), NEW tail \in Seq(Byte)
    PROVE  Begins(Prefixes(word, rex) \o opcodes \o tail, Prefixes(word, rex), opcodes, tail)
<1> DEFINE p == Prefixes(word, rex)
           o == p \o opcodes
           n == Len(p)
           l == Len(opcodes)
<1>1. p \in Seq(Byte) /\ n \in Nat /\ opcodes \in Seq(Byte) /\ l \in {1, 2}
  BY PrefixesAre, LenProperties DEF Opcodes
<1> HIDE DEF p
<1>2. o \in Seq(Byte) /\ Len(o) = n + l
  BY <1>1, ConcatProperties
<1>3. \A i \in 1 .. n : o[i] = p[i]
  BY <1>1, LeftOf
<1>4. o[n + 1] = opcodes[1] /\ (l = 2 => o[n + 2] = opcodes[2])
  <2>1. 1 \in 1 .. l /\ (l = 2 => 2 \in 1 .. l)
    BY <1>1, OneOrTwo
  <2> QED
    BY <1>1, <2>1, RightOf
<1> DEFINE s == o \o tail
<1> HIDE DEF o
<1>5. s \in Seq(Byte) /\ Len(s) = n + l + Len(tail)
  BY <1>2, ConcatProperties
<1>6. \A i \in 1 .. n + l : s[i] = o[i]
  BY <1>2, LeftOf
<1>7. \A i \in 1 .. Len(tail) : s[n + l + i] = tail[i]
  <2>1. \A i \in 1 .. Len(tail) : s[Len(o) + i] = tail[i]
    BY <1>2, RightOf
  <2> QED
    BY <1>2, <2>1
<1> HIDE DEF s, n, l
<1>8. /\ \A i \in 1 .. n : i \in 1 .. n + l
      /\ n + 1 \in 1 .. n + l /\ (l = 2 => n + 2 \in 1 .. n + l)
  BY <1>1
<1>9. /\ \A i \in 1 .. n : s[i] = p[i]
      /\ s[n + 1] = opcodes[1] /\ (l = 2 => s[n + 2] = opcodes[2])
  BY <1>3, <1>4, <1>6, <1>8
<1> QED
  BY <1>5, <1>7, <1>9 DEF s, o, p, n, l, Begins

(* What a processor makes of them.                                          *)
Reads(s, word, rex, opcodes, n) ==
    /\ Has66(s) <=> word
    /\ Rex(s) = rex
    /\ Code(s) = IF Len(opcodes) = 2 THEN 256 + opcodes[2] ELSE opcodes[1]
    /\ CodeAt(s) = n + 1
    /\ ModRMAt(s) = n + Len(opcodes) + 1

(* A processor finds prefixes and opcode where they were put.               *)
LEMMA OpeningRead ==
    ASSUME NEW word, NEW rex, rex \in {0} \cup \h40 .. \h4F,
           NEW opcodes, Opcodes(opcodes), NEW tail \in Seq(Byte)
    PROVE  Reads(Prefixes(word, rex) \o opcodes \o tail, word, rex, opcodes,
                 Len(Prefixes(word, rex)))
<1> DEFINE p == Prefixes(word, rex)
           n == Len(p)
           s == p \o opcodes \o tail
           l == Len(opcodes)
           a == opcodes[1]
           b == opcodes[2]
<1>1. /\ p = IF word THEN IF rex = 0 THEN <<\h66>> ELSE <<\h66, rex>>
             ELSE IF rex = 0 THEN <<>> ELSE <<rex>>
      /\ n = Flag(word) + Flag(rex # 0)
  BY PrefixesAre
<1>2. /\ a \in Byte /\ a # \h66 /\ a \notin \h40 .. \h4F /\ (l = 2 <=> a = \h0F)
      /\ l \in {1, 2} /\ (l = 2 => b \in Byte)
  <2>1. 1 \in 1 .. Len(opcodes) /\ (l = 2 => 2 \in 1 .. Len(opcodes))
    BY OneOrTwo DEF Opcodes
  <2> QED
    BY <2>1, ElementOfSeq DEF Opcodes
<1>3. /\ \A i \in 1 .. n : s[i] = p[i]
      /\ s[n + 1] = a
      /\ l = 2 => s[n + 2] = b
  <2>1. rex \in {0} \cup \h40 .. \h4F /\ Opcodes(opcodes) /\ tail \in Seq(Byte)
    OBVIOUS
  <2>2. Begins(s, p, opcodes, tail)
    BY <2>1, OpeningBytes
  <2> HIDE DEF s, p
  <2> QED
    BY <2>2 DEF Begins
<1> HIDE DEF p, n, s, l, a, b
<1>4. /\ Has66(s) <=> word
      /\ RexAt(s) = 1 + Flag(word)
      /\ Rex(s) = rex
      /\ CodeAt(s) = n + 1
  <2>1. CASE word /\ rex # 0
    <3>1. n = 2 /\ p[1] = \h66 /\ p[2] = rex
      BY <1>1, <2>1 DEF Flag
    <3>2. s[1] = \h66 /\ s[2] = rex
      BY <1>3, <3>1
    <3> QED
      BY <2>1, <3>1, <3>2 DEF Has66, RexAt, Rex, CodeAt, Flag
  <2>2. CASE word /\ rex = 0
    <3>1. n = 1 /\ p[1] = \h66
      BY <1>1, <2>2 DEF Flag
    <3>2. s[1] = \h66 /\ s[2] = a
      BY <1>3, <3>1
    <3> QED
      BY <1>2, <2>2, <3>1, <3>2 DEF Has66, RexAt, Rex, CodeAt, Flag
  <2>3. CASE ~word /\ rex # 0
    <3>1. n = 1 /\ p[1] = rex /\ rex # \h66
      BY <1>1, <2>3 DEF Flag
    <3>2. s[1] = rex
      BY <1>3, <3>1
    <3> QED
      BY <2>3, <3>1, <3>2 DEF Has66, RexAt, Rex, CodeAt, Flag
  <2>4. CASE ~word /\ rex = 0
    <3>1. n = 0
      BY <1>1, <2>4 DEF Flag
    <3>2. s[1] = a
      BY <1>3, <3>1
    <3> QED
      BY <1>2, <2>4, <3>1, <3>2 DEF Has66, RexAt, Rex, CodeAt, Flag
  <2> QED
    BY <2>1, <2>2, <2>3, <2>4
<1>5. n \in {0, 1, 2}
  BY <1>1 DEF Flag
<1>6. Code(s) = IF l = 2 THEN 256 + b ELSE a
  <2>1. l = 2 => s[n + 1 + 1] = b
    BY <1>3, <1>5
  <2> QED
    BY <1>2, <1>3, <1>4, <2>1 DEF Code
<1>7. ModRMAt(s) = n + l + 1
  <2>1. CASE l = 2
    <3>1. Code(s) > 255
      <4>1. Code(s) = 256 + b /\ b \in Byte
        BY <1>2, <1>6, <2>1
      <4> QED
        BY <4>1 DEF Byte
    <3> QED
      BY <1>4, <1>5, <2>1, <3>1 DEF ModRMAt
  <2>2. CASE l = 1
    <3>1. ~(Code(s) > 255)
      BY <1>2, <1>6, <2>2 DEF Byte
    <3> QED
      BY <1>4, <1>5, <2>2, <3>1 DEF ModRMAt
  <2> QED
    BY <1>2, <2>1, <2>2
<1> QED
  BY <1>4, <1>6, <1>7 DEF s, n, l, p, a, b, Reads

-----------------------------------------------------------------------------
(* What emit_encode writes, taken apart.                                    *)

Pad == [i \in 1 .. 16 |-> 0]
Body(d) ==
    (IF d.has_modRM THEN <<modRM_value(d)>> ELSE <<>>)
    \o (IF d.has_sib THEN <<sib_value(d)>> ELSE <<>>)
    \o Displaced(d) \o d.imm_bytes
RexOf(d) == rex_value(d.reg, d.rm, d.index, d.base)
CodeOf(opcodes) == IF Len(opcodes) = 2 THEN 256 + opcodes[2] ELSE opcodes[1]
WithoutEnd(r) == SubSeq(r.instruction_bytes, 1, Len(r.instruction_bytes) - 1)

LEMMA PadIs == Pad \in Seq(Byte) /\ Len(Pad) = 16 /\ \A i \in 1 .. 16 : Pad[i] = 0
<1>1. Pad \in [1 .. 16 -> Byte]
  BY SomeBytes DEF Pad
<1>2. Pad \in Seq(Byte)
  BY <1>1, SeqDef
<1> QED
  BY <1>1, <1>2, LenProperties DEF Pad

(* Without the end marker the bytes are the parts emit_encode joins.        *)
LEMMA EndRemoved ==
    ASSUME NEW w \in Seq(Byte), NEW e \in Byte
    PROVE  SubSeq(w \o <<e>>, 1, Len(w \o <<e>>) - 1) = w
<1> DEFINE b == w \o <<e>>
           n == Len(w)
           v == SubSeq(b, 1, n)
<1>1. n \in Nat /\ <<e>> \in Seq(Byte) /\ Len(<<e>>) = 1
  BY LenProperties, Literal
<1>2. b \in Seq(Byte) /\ Len(b) = n + 1
  BY <1>1, ConcatProperties
<1>3. \A i \in 1 .. n : b[i] = w[i] /\ w[i] \in Byte
  BY <1>1, LeftOf, ElementOfSeq
<1> HIDE DEF b, n
<1>4. /\ v \in Seq(Byte) /\ Len(v) = IF 1 <= n THEN n - 1 + 1 ELSE 0
      /\ \A i \in 1 .. n - 1 + 1 : v[i] = b[1 + i - 1]
  <2>1. \A i \in 1 .. n : b[i] \in Byte
    BY <1>3
  <2>2. 1 \in Int /\ n \in Int
    BY <1>1
  <2> QED
    BY <2>1, <2>2, SubSeqProperties
<1> HIDE DEF v
<1>5. Len(v) = n
  BY <1>1, <1>4
<1>6. \A i \in 1 .. n : v[i] = w[i]
  <2> SUFFICES ASSUME NEW i \in 1 .. n PROVE v[i] = w[i]
    OBVIOUS
  <2>1. i \in 1 .. n - 1 + 1 /\ 1 + i - 1 = i
    BY <1>1
  <2> QED
    BY <1>3, <1>4, <2>1
<1>7. v = w
  BY <1>4, <1>5, <1>6, SeqEqual DEF n
<1>8. Len(b) - 1 = n
  BY <1>1, <1>2
<1> QED
  BY <1>7, <1>8 DEF v, b

(* What follows the opcode is bytes.                                        *)
LEMMA BodyType ==
    ASSUME NEW d, Encodable(d)
    PROVE  Body(d) \in Seq(Byte)
<1> DEFINE modRM == IF d.has_modRM THEN <<modRM_value(d)>> ELSE <<>>
           sib == IF d.has_sib THEN <<sib_value(d)>> ELSE <<>>
           displaced == Displaced(d)
<1>1. modRM \in Seq(Byte) /\ sib \in Seq(Byte)
  BY OtherBytes, Literal
<1>2. displaced \in Seq(Byte)
  BY UptoLiteral DEF Displaced, Encodable, Upto
<1>3. d.imm_bytes \in Seq(Byte)
  BY DEF Encodable, Upto
<1>4. Body(d) = modRM \o sib \o displaced \o d.imm_bytes
  BY DEF Body
<1> HIDE DEF modRM, sib, displaced
<1> QED
  BY <1>1, <1>2, <1>3, <1>4, ConcatProperties

LEMMA Associative ==
    ASSUME NEW a, a \in Seq(Byte), NEW b, b \in Seq(Byte), NEW c, c \in Seq(Byte)
    PROVE (a \o b) \o c = a \o (b \o c)
BY ConcatAssociative
(* What is written is prefixes, opcode and body, whatever follows them.     *)
LEMMA WrittenIs ==
    ASSUME NEW d, Encodable(d)
    PROVE  LET o == Prefixes(d.emit_66h, RexOf(d)) \o d.opcodes
           IN  WithoutEnd(emit_encode(d)) = o \o Body(d) /\ o \in Seq(Byte)
<1> DEFINE rex == RexOf(d)
           p == Prefixes(d.emit_66h, rex)
           o == p \o d.opcodes
           modRM == IF d.has_modRM THEN <<modRM_value(d)>> ELSE <<>>
           sib == IF d.has_sib THEN <<sib_value(d)>> ELSE <<>>
           displaced == Displaced(d)
           end == <<INSTRUCTION_END>>
           w == o \o modRM \o sib \o displaced \o d.imm_bytes
<1>1. emit_encode(d).instruction_bytes = w \o end
  BY DEF emit_encode, Prefixes, RexOf
<1>2. modRM \in Seq(Byte) /\ sib \in Seq(Byte)
  BY OtherBytes, Literal
<1>3. displaced \in Seq(Byte)
  BY UptoLiteral DEF Displaced, Encodable, Upto
<1>4. d.imm_bytes \in Seq(Byte) /\ d.opcodes \in Seq(Byte)
  BY DEF Encodable, Upto
<1>5. rex \in {0} \cup \h40 .. \h4F
  BY RexByte DEF Encodable, RexOf
<1> HIDE DEF rex
<1>6. p \in Seq(Byte)
  BY <1>5, PrefixesAre
<1> HIDE DEF p
<1>7. o \in Seq(Byte)
  BY <1>4, <1>6, ConcatProperties
<1>8. Body(d) = modRM \o sib \o displaced \o d.imm_bytes
  BY DEF Body
<1> HIDE DEF o, modRM, sib, displaced
<1>9. w \in Seq(Byte)
  BY <1>2, <1>3, <1>4, <1>7, ConcatProperties
<1>10. w = o \o Body(d)
  <2> DEFINE x == modRM \o sib
             y == x \o displaced
             imm == d.imm_bytes
  <2>1. x \in Seq(Byte) /\ y \in Seq(Byte) /\ imm \in Seq(Byte)
    BY <1>2, <1>3, <1>4, ConcatProperties
  <2> HIDE DEF imm
  <2>2. (o \o modRM) \o sib = o \o x
    BY <1>2, <1>7, Associative
  <2> HIDE DEF x
  <2>3. (o \o x) \o displaced = o \o y
    BY <1>3, <1>7, <2>1, Associative
  <2> HIDE DEF y
  <2>4. (o \o y) \o imm = o \o (y \o imm)
    <3>1. \A f, g, h \in Seq(Byte) : (f \o g) \o h = f \o (g \o h)
      BY Associative
    <3> QED
      BY <1>7, <2>1, <3>1
  <2>5. o \o modRM \o sib \o displaced \o imm = o \o (y \o imm)
    BY <2>2, <2>3, <2>4
  <2> QED
    BY <1>8, <2>5 DEF x, y, imm
<1> HIDE DEF w
<1>11. WithoutEnd(emit_encode(d)) = w
  BY <1>1, <1>9, SomeBytes, EndRemoved DEF WithoutEnd
<1> QED
  BY <1>7, <1>10, <1>11 DEF o, p, rex

(* A processor that starts to read what is written: w are the bytes, s the  *)
(* bytes and what follows them.                                             *)
Opened(w, s, d) ==
    /\ Has66(s) <=> d.emit_66h
    /\ Rex(s) = RexOf(d)
    /\ Code(s) = CodeOf(d.opcodes)
    /\ CodeAt(s) \in Nat /\ ModRMAt(s) = CodeAt(s) + Len(d.opcodes)
    /\ s \in Seq(Byte) /\ w \in Seq(Byte)
    /\ Len(w) = ModRMAt(s) - 1 + Len(Body(d)) /\ Len(s) = Len(w) + 16
    /\ \A i \in 1 .. Len(Body(d)) : s[ModRMAt(s) - 1 + i] = Body(d)[i]
    /\ \A i \in 1 .. 16 : s[Len(w) + i] = 0

(* The bytes of a descriptor are opened as its prefixes and opcode say.     *)
LEMMA OpenedIs ==
    ASSUME NEW d, Encodable(d), Opcodes(d.opcodes)
    PROVE  LET w == WithoutEnd(emit_encode(d)) IN Opened(w, w \o Pad, d)
<1> DEFINE rex == RexOf(d)
           p == Prefixes(d.emit_66h, rex)
           o == p \o d.opcodes
           w == WithoutEnd(emit_encode(d))
           s == w \o Pad
           b == Body(d)
           n == Len(p)
           l == Len(d.opcodes)
           m == Len(b)
<1>1. w = o \o b /\ o \in Seq(Byte)
  BY WrittenIs
<1>2. rex \in {0} \cup \h40 .. \h4F
  BY RexByte DEF Encodable, RexOf
<1>3. b \in Seq(Byte) /\ m \in Nat
  BY BodyType, LenProperties
<1> HIDE DEF rex, w, b
<1>4. p \in Seq(Byte) /\ n \in Nat
  BY <1>2, PrefixesAre, LenProperties
<1>5. l \in {1, 2} /\ d.opcodes \in Seq(Byte)
  BY DEF Opcodes
<1>6. Begins(o \o b, p, d.opcodes, b)
  BY <1>2, <1>3, OpeningBytes
<1>7. s = o \o (b \o Pad) /\ b \o Pad \in Seq(Byte)
  <2>1. Pad \in Seq(Byte)
    BY PadIs
  <2> HIDE DEF o
  <2>2. (o \o b) \o Pad = o \o (b \o Pad)
    BY <1>1, <1>3, <2>1, ConcatAssociative
  <2> QED
    BY <1>1, <1>3, <2>1, <2>2, ConcatProperties
<1>8. /\ Has66(s) <=> d.emit_66h
      /\ Rex(s) = rex
      /\ Code(s) = CodeOf(d.opcodes)
      /\ CodeAt(s) = n + 1
      /\ ModRMAt(s) = n + l + 1
  <2>1. Reads(p \o d.opcodes \o (b \o Pad), d.emit_66h, rex, d.opcodes, Len(p))
    <3>1. rex \in {0} \cup \h40 .. \h4F /\ Opcodes(d.opcodes) /\ b \o Pad \in Seq(Byte)
      BY <1>2, <1>7
    <3> DEFINE t == b \o Pad
    <3> HIDE DEF t
    <3> QED
      BY <3>1, OpeningRead DEF t
  <2>2. Reads(s, d.emit_66h, rex, d.opcodes, n)
    BY <1>7, <2>1
  <2> HIDE DEF s, n
  <2> QED
    BY <2>2 DEF Reads, CodeOf
<1>9. /\ w \in Seq(Byte) /\ Len(w) = n + l + m
      /\ \A i \in 1 .. m : w[n + l + i] = b[i]
  BY <1>1, <1>6 DEF Begins
<1> HIDE DEF p, o, n, l, m
<1>10. /\ s \in Seq(Byte) /\ Len(s) = Len(w) + 16
       /\ \A i \in 1 .. Len(w) : s[i] = w[i]
       /\ \A i \in 1 .. 16 : s[Len(w) + i] = 0
  <2>1. Pad \in Seq(Byte) /\ Len(Pad) = 16 /\ \A i \in 1 .. 16 : Pad[i] = 0
    BY PadIs
  <2>2. s \in Seq(Byte) /\ Len(s) = Len(w) + Len(Pad)
    BY <1>9, <2>1, ConcatProperties
  <2>3. \A i \in 1 .. Len(w) : s[i] = w[i]
    BY <1>9, <2>1, LeftOf
  <2>4. \A i \in 1 .. Len(Pad) : s[Len(w) + i] = Pad[i]
    <3>1. ASSUME NEW i, i \in 1 .. Len(Pad) PROVE (w \o Pad)[Len(w) + i] = Pad[i]
      <4>1. \A a, c \in Seq(Byte) : \A k \in 1 .. Len(c) : (a \o c)[Len(a) + k] = c[k]
        BY RightOf
      <4>2. w \in Seq(Byte) /\ Pad \in Seq(Byte)
        BY <1>9, <2>1
      <4> QED
        BY <3>1, <4>1, <4>2
    <3> QED
      BY <3>1
  <2> HIDE DEF s
  <2> QED
    BY <2>1, <2>2, <2>3, <2>4
<1> HIDE DEF s
<1>11. \A i \in 1 .. m : s[n + l + i] = b[i]
  <2> SUFFICES ASSUME NEW i \in 1 .. m PROVE s[n + l + i] = b[i]
    OBVIOUS
  <2>1. n + l + i \in 1 .. Len(w)
    BY <1>3, <1>4, <1>5, <1>9
  <2> QED
    BY <1>9, <1>10, <2>1
<1>12. CodeAt(s) \in Nat /\ ModRMAt(s) = CodeAt(s) + l /\ ModRMAt(s) - 1 = n + l
  BY <1>4, <1>5, <1>8
<1> QED
  BY <1>8, <1>9, <1>10, <1>11, <1>12 DEF Opened, rex, l, m, b, s, w

-----------------------------------------------------------------------------
(* What a processor takes from the prefix and the ModRM byte.               *)

LEMMA Number ==
    ASSUME NEW n, n \in 0 .. 15
    PROVE  n % 8 \in 0 .. 7 /\ (n % 8) + 8 * Flag(n >= 8) = n
BY DEF Flag

(* The fields of what has been written.                                     *)
Fielded(s, d) ==
    /\ Mod(s) = Modes[d.mode]
    /\ Digit(s) = (d.reg.num % 8) + d.digit
    /\ Rm(s) = IF d.has_sib THEN 4 ELSE d.rm.num % 8

(* The ModRM byte of a descriptor is read as its mode, digit or register,   *)
(* and r/m.                                                                 *)
LEMMA FieldedIs ==
    ASSUME NEW d, Encodable(d), NEW s, s[ModRMAt(s)] = modRM_value(d)
    PROVE  Fielded(s, d)
<1> DEFINE m == Modes[d.mode]
           n == d.reg.num
           r == (n % 8) + d.digit
           k == d.rm.num
           b == IF d.has_sib THEN 4 ELSE k % 8
<1>1. m \in 0 .. 3
  BY DEF Encodable, Modes
<1>2. n \in 0 .. 15 /\ k \in 0 .. 15 /\ d.digit \in 0 .. 7 /\ (d.digit = 0 \/ n = 0)
  BY DEF Encodable, Info, NoInfo
<1>3. modRM_value(d) = 64 * m + 8 * r + b
  BY DEF modRM_value
<1>4. b \in 0 .. 7
  <2> HIDE DEF k
  <2> QED
    BY <1>2
<1>5. r \in 0 .. 7
  <2> DEFINE digit == d.digit
  <2> HIDE DEF n, digit
  <2>1. n % 8 \in 0 .. 7 /\ (digit = 0 \/ n % 8 = 0)
    BY <1>2 DEF digit
  <2> QED
    BY <1>2, <2>1 DEF digit
<1> HIDE DEF m, r, b
<1>6. s[ModRMAt(s)] \div 64 = m /\ (s[ModRMAt(s)] \div 8) % 8 = r /\ s[ModRMAt(s)] % 8 = b
  <2>1. LET v == 64 * m + 8 * r + b
        IN  v \div 64 = m /\ (v \div 8) % 8 = r /\ v % 8 = b
    BY <1>1, <1>4, <1>5, Fields
  <2> QED
    BY <1>3, <2>1
<1> QED
  BY <1>6 DEF Fielded, Mod, Digit, Rm, m, r, b, n, k

(* The registers and sizes the prefixes and fields stand for.               *)
RexTells(s, d) ==
    /\ OperandSize(s) = IF 8 \in {d.reg.size, d.rm.size} THEN 8 ELSE IF d.emit_66h THEN 2 ELSE 4
    /\ d.digit = 0 => \A size : RegOperand(s, size) = Reg(General(d.reg.num, size, RexOf(d)))
    /\ d.reg = NoInfo => Digit(s) = d.digit

(* Operand size, register and digit are read as the descriptor has them.    *)
LEMMA RexTellsIs ==
    ASSUME NEW d, Encodable(d), NEW s, Fielded(s, d),
           Rex(s) = RexOf(d), Has66(s) <=> d.emit_66h
    PROVE  RexTells(s, d)
<1> DEFINE rex == RexOf(d)
           n == d.reg.num
<1>1. /\ Bit(rex, 3) = Flag(8 \in {d.reg.size, d.rm.size})
      /\ Bit(rex, 2) = Flag(n >= 8)
  BY RexBits DEF RexOf, Encodable
<1>2. n \in 0 .. 15 /\ d.digit \in 0 .. 7 /\ (d.reg = NoInfo => n = 0)
  BY DEF Encodable, Info, NoInfo
<1> HIDE DEF rex
<1>3. OperandSize(s) = IF 8 \in {d.reg.size, d.rm.size} THEN 8 ELSE IF d.emit_66h THEN 2 ELSE 4
  BY <1>1 DEF OperandSize, Flag, rex
<1>4. ASSUME d.digit = 0, NEW size
      PROVE  RegOperand(s, size) = Reg(General(n, size, rex))
  <2> HIDE DEF n
  <2>1. (n % 8) + 8 * Flag(n >= 8) = n /\ n % 8 \in 0 .. 7
    BY <1>2, Number
  <2>2. Digit(s) = n % 8
    BY <1>4, <2>1 DEF Fielded, n
  <2>3. Digit(s) + 8 * Bit(rex, 2) = n
    BY <1>1, <2>1, <2>2
  <2> QED
    BY <2>3 DEF RegOperand, rex
<1>5. d.reg = NoInfo => Digit(s) = d.digit
  <2> SUFFICES ASSUME d.reg = NoInfo PROVE Digit(s) = d.digit
    OBVIOUS
  <2>1. Digit(s) = (0 % 8) + d.digit
    BY <1>2 DEF Fielded
  <2> QED
    BY <1>2, <2>1
<1> QED
  BY <1>3, <1>4, <1>5 DEF RexTells, rex

-----------------------------------------------------------------------------
(* The places of the ModRM byte, the SIB byte, the displacement and the     *)
(* immediate.                                                               *)

HeadLength(d) == 1 + Flag(d.has_sib)
Places(b, at, d) ==
    LET k == Len(Displaced(d))
    IN  /\ b[at + 1] = modRM_value(d)
        /\ d.has_sib => b[at + 2] = sib_value(d)
        /\ \A i \in 1 .. k : b[at + HeadLength(d) + i] = Displaced(d)[i]
        /\ \A i \in 1 .. Len(d.imm_bytes) : b[at + HeadLength(d) + k + i] = d.imm_bytes[i]

(* A displacement is bytes, at most four.                                   *)
LEMMA DisplacedType ==
    ASSUME NEW d, Encodable(d)
    PROVE  Displaced(d) \in Seq(Byte) /\ Len(Displaced(d)) \in 0 .. 4
<1>1. Upto(Displaced(d), 4)
  BY UptoLiteral DEF Displaced, Encodable
<1> DEFINE k == Len(Displaced(d))
<1>2. Displaced(d) \in Seq(Byte) /\ k \in Nat /\ k <= 4
  BY <1>1, LenProperties DEF Upto
<1> HIDE DEF k
<1>3. k \in 0 .. 4
  BY <1>2
<1> QED
  BY <1>2, <1>3 DEF k

(* r is s and then t.                                                       *)
Follows(r, s, t) ==
    /\ r \in Seq(Byte) /\ Len(r) = Len(s) + Len(t)
    /\ \A i \in 1 .. Len(s) : r[i] = s[i]
    /\ \A i \in 1 .. Len(t) : r[Len(s) + i] = t[i]

LEMMA JoinFollows ==
    ASSUME NEW s \in Seq(Byte), NEW t \in Seq(Byte)
    PROVE  Follows(s \o t, s, t)
<1>1. \A i \in 1 .. Len(s) : (s \o t)[i] = s[i]
  BY LeftOf
<1>2. \A i \in 1 .. Len(t) : (s \o t)[Len(s) + i] = t[i]
  BY RightOf
<1>3. s \o t \in Seq(Byte) /\ Len(s \o t) = Len(s) + Len(t)
  BY ConcatProperties
<1> QED
  BY <1>1, <1>2, <1>3 DEF Follows

HeadBytes(d) ==
    (IF d.has_modRM THEN <<modRM_value(d)>> ELSE <<>>)
    \o (IF d.has_sib THEN <<sib_value(d)>> ELSE <<>>)

(* ModRM and SIB are one byte or two.                                       *)
LEMMA HeadIs ==
    ASSUME NEW d, Encodable(d), d.has_modRM
    PROVE  /\ HeadBytes(d) \in Seq(Byte) /\ Len(HeadBytes(d)) = HeadLength(d)
           /\ HeadBytes(d)[1] = modRM_value(d)
           /\ d.has_sib => HeadBytes(d)[2] = sib_value(d)
<1> DEFINE m == modRM_value(d)
           v == sib_value(d)
<1>1. m \in Byte /\ v \in Byte
  BY OtherBytes
<1> HIDE DEF m, v
<1>2. CASE d.has_sib
  <2>1. <<m>> \o <<v>> = <<m, v>> /\ <<m, v>> \in Seq(Byte) /\ Len(<<m, v>>) = 2
    BY <1>1, Pair, Literal
  <2>2. HeadLength(d) = 2
    BY <1>2 DEF HeadLength, Flag
  <2> QED
    BY <1>2, <2>1, <2>2 DEF m, v, HeadBytes
<1>3. CASE ~d.has_sib
  <2>1. <<m>> \o <<>> = <<m>> /\ <<m>> \in Seq(Byte) /\ Len(<<m>>) = 1
    BY <1>1, Literal, ConcatEmptySeq
  <2>2. HeadLength(d) = 1
    BY <1>3 DEF HeadLength, Flag
  <2> QED
    BY <1>3, <2>1, <2>2 DEF m, v, HeadBytes
<1> QED
  BY <1>2, <1>3

(* Where the parts of the body stand.                                       *)
LEMMA BodyPlaces ==
    ASSUME NEW d, Encodable(d), d.has_modRM
    PROVE  /\ Places(Body(d), 0, d)
           /\ Len(Body(d)) = HeadLength(d) + Len(Displaced(d)) + Len(d.imm_bytes)
<1> DEFINE head == HeadBytes(d)
           displaced == Displaced(d)
           imm == d.imm_bytes
           o == head \o displaced
           b == o \o imm
           h == Len(head)
           k == Len(displaced)
           l == Len(imm)
<1>1. /\ head \in Seq(Byte) /\ h = HeadLength(d) /\ h \in {1, 2}
      /\ head[1] = modRM_value(d) /\ (d.has_sib => h = 2 /\ head[2] = sib_value(d))
  BY HeadIs DEF HeadLength, Flag
<1>2. displaced \in Seq(Byte) /\ k \in 0 .. 4
  BY DisplacedType
<1>3. imm \in Seq(Byte) /\ l \in Nat
  BY LenProperties DEF Encodable, Upto
<1>4. Body(d) = b
  BY DEF Body, HeadBytes
<1> HIDE DEF head, displaced, imm
<1>5. /\ o \in Seq(Byte) /\ Len(o) = h + k
      /\ \A i \in 1 .. h : o[i] = head[i]
      /\ \A i \in 1 .. k : o[h + i] = displaced[i]
  <2>1. Follows(o, head, displaced)
    BY <1>1, <1>2, JoinFollows
  <2> HIDE DEF o
  <2> QED
    BY <2>1 DEF Follows
<1> HIDE DEF o
<1>6. /\ Len(b) = Len(o) + l
      /\ \A i \in 1 .. Len(o) : b[i] = o[i]
      /\ \A i \in 1 .. l : b[Len(o) + i] = imm[i]
  <2>1. Follows(b, o, imm)
    BY <1>3, <1>5, JoinFollows
  <2> HIDE DEF b
  <2> QED
    BY <2>1 DEF Follows
<1> HIDE DEF b, h, k, l
<1>7. /\ b[1] = modRM_value(d)
      /\ d.has_sib => b[2] = sib_value(d)
  <2>1. 1 \in 1 .. h /\ 1 \in 1 .. h + k /\ (h = 2 => 2 \in 1 .. h /\ 2 \in 1 .. h + k)
    BY <1>1, <1>2
  <2> QED
    BY <1>1, <1>5, <1>6, <2>1
<1>8. \A i \in 1 .. k : b[h + i] = displaced[i]
  <2> SUFFICES ASSUME NEW i, i \in 1 .. k PROVE b[h + i] = displaced[i]
    OBVIOUS
  <2>1. h + i \in 1 .. h + k
    BY <1>1, <1>2
  <2> QED
    BY <1>5, <1>6, <2>1
<1>9. \A i \in 1 .. l : b[h + k + i] = imm[i]
  BY <1>5, <1>6
<1>10. Places(b, 0, d)
  <2>1. /\ b[0 + 1] = modRM_value(d)
        /\ d.has_sib => b[0 + 2] = sib_value(d)
    BY <1>7
  <2>2. 0 + h = h /\ 0 + h + k = h + k
    BY <1>1, <1>2
  <2> QED
    BY <1>1, <1>8, <1>9, <2>1, <2>2 DEF Places, displaced, imm, k, l
<1>11. Len(b) = h + k + l
  BY <1>5, <1>6
<1> QED
  BY <1>1, <1>4, <1>10, <1>11 DEF k, l, displaced, imm

(* In the bytes a processor reads, from the place before the ModRM byte on. *)
LEMMA OpenedPlaces ==
    ASSUME NEW d, Encodable(d), d.has_modRM, NEW w, NEW s, Opened(w, s, d)
    PROVE  /\ Places(s, ModRMAt(s) - 1, d)
           /\ Len(w) = ModRMAt(s) - 1 + HeadLength(d) + Len(Displaced(d)) + Len(d.imm_bytes)
           /\ ModRMAt(s) \in Nat
<1> DEFINE b == Body(d)
           h == HeadLength(d)
           k == Len(Displaced(d))
           l == Len(d.imm_bytes)
           at == ModRMAt(s) - 1
           n == Len(d.opcodes)
<1>1. Places(b, 0, d) /\ Len(b) = h + k + l
  BY BodyPlaces
<1>2. h \in {1, 2} /\ (d.has_sib => h = 2) /\ k \in Nat /\ l \in Nat /\ n \in Nat
  BY DisplacedType, LenProperties DEF HeadLength, Flag, Encodable, Upto
<1>3. /\ \A i \in 1 .. Len(b) : s[at + i] = b[i]
      /\ Len(w) = at + Len(b)
      /\ at + 1 = ModRMAt(s) /\ ModRMAt(s) \in Nat
  <2>1. /\ \A i \in 1 .. Len(b) : s[at + i] = b[i]
        /\ Len(w) = at + Len(b)
    BY DEF Opened
  <2>2. ModRMAt(s) = CodeAt(s) + n /\ CodeAt(s) \in Nat
    BY DEF Opened
  <2> HIDE DEF n
  <2>3. ModRMAt(s) \in Nat
    BY <1>2, <2>2
  <2> QED
    BY <2>1, <2>3
<1>4. /\ b[1] = modRM_value(d)
      /\ d.has_sib => b[2] = sib_value(d)
      /\ \A i \in 1 .. k : b[h + i] = Displaced(d)[i]
      /\ \A i \in 1 .. l : b[h + k + i] = d.imm_bytes[i]
  <2>1. 0 + 1 = 1 /\ 0 + 2 = 2 /\ 0 + h = h /\ 0 + h + k = h + k
    BY <1>2
  <2> HIDE DEF b
  <2> QED
    BY <1>1, <2>1 DEF Places
<1>10. at \in Int
  BY <1>3
<1> HIDE DEF b, h, k, l, at
<1>5. s[at + 1] = modRM_value(d) /\ (d.has_sib => s[at + 2] = sib_value(d))
  <2>1. 1 \in 1 .. Len(b) /\ (d.has_sib => 2 \in 1 .. Len(b))
    BY <1>1, <1>2
  <2> QED
    BY <1>3, <1>4, <2>1
<1>6. \A i \in 1 .. k : s[at + h + i] = Displaced(d)[i]
  <2> SUFFICES ASSUME NEW i, i \in 1 .. k PROVE s[at + h + i] = Displaced(d)[i]
    OBVIOUS
  <2>1. h + i \in 1 .. Len(b) /\ at + (h + i) = at + h + i
    BY <1>1, <1>2, <1>10
  <2> QED
    BY <1>3, <1>4, <2>1
<1>7. \A i \in 1 .. l : s[at + h + k + i] = d.imm_bytes[i]
  <2> SUFFICES ASSUME NEW i, i \in 1 .. l PROVE s[at + h + k + i] = d.imm_bytes[i]
    OBVIOUS
  <2>1. h + k + i \in 1 .. Len(b) /\ at + (h + k + i) = at + h + k + i
    BY <1>1, <1>2, <1>10
  <2> QED
    BY <1>3, <1>4, <2>1
<1>8. Places(s, at, d)
  BY <1>5, <1>6, <1>7 DEF Places, h, k, l
<1>9. Len(w) = at + h + k + l
  BY <1>1, <1>2, <1>3 DEF at
<1> QED
  BY <1>3, <1>8, <1>9 DEF at, h, k, l

(* A stretch of a sequence, from its places.                                *)
LEMMA SubSeqIs ==
    ASSUME NEW s \in Seq(Byte), NEW t \in Seq(Byte), NEW at \in Nat,
           \A i \in 1 .. Len(t) : s[at + i] = t[i]
    PROVE  SubSeq(s, at + 1, at + Len(t)) = t
<1> DEFINE n == Len(t)
           from == at + 1
           to == at + n
           v == SubSeq(s, from, to)
<1>1. n \in Nat /\ \A i \in 1 .. n : t[i] \in Byte
  BY LenProperties, ElementOfSeq
<1> HIDE DEF n
<1>2. \A i \in from .. to : s[i] \in Byte
  <2> SUFFICES ASSUME NEW i, i \in from .. to PROVE s[i] \in Byte
    OBVIOUS
  <2>1. i - at \in 1 .. n /\ at + (i - at) = i
    BY <1>1
  <2> QED
    BY <1>1, <2>1 DEF n
<1>3. from \in Int /\ to \in Int /\ (from <= to <=> 1 <= n) /\ to - from + 1 = n
  BY <1>1
<1>4. \A i \in 1 .. n : from + i - 1 = at + i
  BY <1>1
<1> HIDE DEF from, to
<1>5. /\ v \in Seq(Byte) /\ Len(v) = IF from <= to THEN to - from + 1 ELSE 0
      /\ \A i \in 1 .. to - from + 1 : v[i] = s[from + i - 1]
  BY <1>2, <1>3, SubSeqProperties
<1> HIDE DEF v
<1>6. Len(v) = n
  BY <1>1, <1>3, <1>5
<1>7. \A i \in 1 .. n : v[i] = t[i]
  BY <1>3, <1>4, <1>5 DEF n
<1>8. v = t
  BY <1>5, <1>6, <1>7, SeqEqual DEF n
<1> QED
  BY <1>8 DEF v, from, to, n

-----------------------------------------------------------------------------
(* A register in the place of register or memory.                           *)

Direct(d) ==
    /\ Encodable(d) /\ Opcodes(d.opcodes)
    /\ d.has_modRM /\ ~d.has_sib /\ d.mode = "DIRECT" /\ d.base = NoInfo

(* The immediate follows and nothing else.                                  *)
Ends(w, s, d) ==
    /\ ImmediateAt(s) \in Nat
    /\ Len(w) = ImmediateAt(s) - 1 + Len(d.imm_bytes)
    /\ SubSeq(s, ImmediateAt(s), ImmediateAt(s) + Len(d.imm_bytes) - 1) = d.imm_bytes

DirectRead(w, s, d) ==
    /\ RexTells(s, d) /\ Ends(w, s, d)
    /\ Code(s) = CodeOf(d.opcodes)
    /\ \A size : RmOperand(s, size) = Reg(General(d.rm.num, size, RexOf(d)))

(* When a processor starts the immediate where the displacement ends, it    *)
(* takes all of it and no byte is left.                                     *)
LEMMA EndsIs ==
    ASSUME NEW d, Encodable(d), d.has_modRM, NEW w, NEW s, Opened(w, s, d),
           ImmediateAt(s) = ModRMAt(s) + HeadLength(d) + Len(Displaced(d))
    PROVE  Ends(w, s, d)
<1> DEFINE at == ModRMAt(s) - 1
           h == HeadLength(d)
           k == Len(Displaced(d))
           l == Len(d.imm_bytes)
           e == at + h + k
<1>1. h \in {1, 2} /\ k \in Nat /\ l \in Nat /\ d.imm_bytes \in Seq(Byte)
  BY DisplacedType, LenProperties DEF HeadLength, Flag, Encodable, Upto
<1>2. /\ Places(s, at, d) /\ Len(w) = at + h + k + l
      /\ ModRMAt(s) \in Nat /\ s \in Seq(Byte)
  BY OpenedPlaces DEF Opened
<1>3. \A i \in 1 .. l : s[e + i] = d.imm_bytes[i]
  <2> HIDE DEF at, h
  <2> QED
    BY <1>2 DEF Places, h
<1>40. ImmediateAt(s) = ModRMAt(s) + h + k
  OBVIOUS
<1> HIDE DEF h, k, l
<1>4. e \in Nat /\ ImmediateAt(s) = e + 1 /\ Len(w) = e + l
  <2> DEFINE m == ModRMAt(s)
  <2>1. m \in Nat /\ ImmediateAt(s) = m + h + k /\ Len(w) = m - 1 + h + k + l
    BY <1>2, <1>40
  <2>2. e = m - 1 + h + k
    OBVIOUS
  <2> HIDE DEF m, e
  <2> QED
    BY <1>1, <2>1, <2>2
<1> HIDE DEF e
<1>5. SubSeq(s, e + 1, e + l) = d.imm_bytes
  BY <1>1, <1>2, <1>3, <1>4, SubSeqIs DEF l
<1>6. /\ ImmediateAt(s) \in Nat
      /\ Len(w) = ImmediateAt(s) - 1 + l
      /\ ImmediateAt(s) + l - 1 = e + l
  BY <1>1, <1>4
<1> QED
  BY <1>4, <1>5, <1>6 DEF Ends, l

(* A descriptor of two registers, or one and a digit, is read back.         *)
LEMMA DirectIs ==
    ASSUME NEW d, Direct(d), NEW w, NEW s, Opened(w, s, d)
    PROVE  DirectRead(w, s, d)
<1> DEFINE at == ModRMAt(s) - 1
           rex == RexOf(d)
           n == d.rm.num
<1>1. Encodable(d) /\ d.has_modRM /\ d.mode = "DIRECT" /\ ~d.has_sib
  BY DEF Direct
<1>2. Places(s, at, d) /\ ModRMAt(s) \in Nat
  BY <1>1, OpenedPlaces
<1>3. s[ModRMAt(s)] = modRM_value(d)
  <2>1. s[at + 1] = modRM_value(d)
    BY <1>2 DEF Places
  <2>2. at + 1 = ModRMAt(s)
    BY <1>2
  <2> QED
    BY <2>1, <2>2
<1>4. Fielded(s, d)
  BY <1>1, <1>3, FieldedIs
<1>5. Mod(s) = 3 /\ Rm(s) = n % 8
  BY <1>1, <1>4 DEF Fielded, Modes
<1>6. RexTells(s, d)
  BY <1>1, <1>4, RexTellsIs DEF Opened
<1>7. Displaced(d) = <<>> /\ HeadLength(d) = 1
  BY <1>1 DEF Displaced, HeadLength, Flag
<1>8. DisplacementAt(s) = ModRMAt(s) + 1 /\ DisplacementLength(s) = 0
  BY <1>5 DEF DisplacementAt, DisplacementLength, HasSib, Baseless
<1>9. ImmediateAt(s) = ModRMAt(s) + HeadLength(d) + Len(Displaced(d))
  <2>1. Len(Displaced(d)) = 0
    BY <1>7, Literal
  <2> QED
    BY <1>2, <1>7, <1>8, <2>1 DEF ImmediateAt
<1>10. Ends(w, s, d)
  BY <1>1, <1>9, EndsIs
<1>11. ASSUME NEW size
       PROVE  RmOperand(s, size) = Reg(General(n, size, rex))
  <2>1. Bit(rex, 0) = Flag(d.base.num >= 8 \/ n >= 8)
    BY <1>1, RexBits DEF RexOf, Encodable
  <2>2. d.base.num = 0 /\ n \in 0 .. 15
    BY <1>1 DEF Direct, NoInfo, Encodable, Info
  <2> HIDE DEF rex, n
  <2>3. Bit(rex, 0) = Flag(n >= 8)
    BY <2>1, <2>2
  <2>4. (n % 8) + 8 * Flag(n >= 8) = n
    BY <2>2, Number
  <2>5. Rm(s) + 8 * Bit(Rex(s), 0) = n /\ Rex(s) = rex
    BY <1>5, <2>3, <2>4 DEF Opened, rex
  <2> QED
    BY <1>5, <2>5 DEF RmOperand
<1>12. Code(s) = CodeOf(d.opcodes)
  BY DEF Opened
<1> QED
  BY <1>6, <1>10, <1>11, <1>12 DEF DirectRead, rex, n

-----------------------------------------------------------------------------
(* Memory.                                                                  *)

(* The displacement a processor is to take.                                 *)
Disp(d) ==
    CASE d.mode = "INDIRECT_DISP8" -> SignExtended(d.disp8)
      [] d.mode = "INDIRECT_DISP32" -> <<d.disp32, 0, 0, 0>>
      [] OTHER -> <<0, 0, 0, 0>>

(* A displacement is read back, disp32 as its one byte.                     *)
LEMMA DisplacementIs ==
    ASSUME NEW d, Encodable(d), d.has_modRM, d.mode # "DIRECT", NEW w, NEW s, Opened(w, s, d),
           Fielded(s, d), ~Baseless(s), HasSib(s) <=> d.has_sib
    PROVE  /\ Displacement(s) = Disp(d)
           /\ ImmediateAt(s) = ModRMAt(s) + HeadLength(d) + Len(Displaced(d))
<1> DEFINE m == ModRMAt(s)
           at == m - 1
           h == HeadLength(d)
<1>1. d.mode \in {"INDIRECT", "INDIRECT_DISP8", "INDIRECT_DISP32"}
  BY DEF Encodable, Modes
<1>2. h \in {1, 2} /\ DisplacementAt(s) = m + h
  BY DEF DisplacementAt, HeadLength, Flag
<1>3. m \in Nat /\ Places(s, at, d) /\ s \in Seq(Byte)
  BY OpenedPlaces DEF Opened
<1>4. d.disp8 \in Byte /\ d.disp32 \in Byte /\ 0 \in Byte
  BY SomeBytes DEF Encodable
<1> HIDE DEF m, h
<1>5. at + h + 1 = m + h
  BY <1>2, <1>3
<1>6. CASE d.mode = "INDIRECT"
  <2>1. Mod(s) = 0
    BY <1>6 DEF Fielded, Modes
  <2>2. DisplacementLength(s) = 0
    BY <2>1 DEF DisplacementLength
  <2>3. Displaced(d) = <<>> /\ Disp(d) = <<0, 0, 0, 0>>
    BY <1>6 DEF Displaced, Disp
  <2>4. Displacement(s) = <<0, 0, 0, 0>>
    BY <2>2 DEF Displacement
  <2>5. ImmediateAt(s) = m + h + 0 /\ Len(Displaced(d)) = 0
    BY <1>2, <2>2, <2>3, Literal DEF ImmediateAt
  <2> QED
    BY <2>3, <2>4, <2>5 DEF m, h
<1>7. CASE d.mode = "INDIRECT_DISP8"
  <2> DEFINE t == Displaced(d)
  <2>1. Mod(s) = 1
    BY <1>7 DEF Fielded, Modes
  <2>2. DisplacementLength(s) = 1
    BY <2>1 DEF DisplacementLength, Baseless
  <2>3. t = <<d.disp8>> /\ Disp(d) = SignExtended(d.disp8)
    BY <1>7 DEF Displaced, Disp
  <2>4. t[1] = d.disp8 /\ Len(t) = 1
    BY <1>4, <2>3, Literal
  <2> HIDE DEF t
  <2>5. s[at + h + 1] = t[1]
    <3>1. \A i \in 1 .. 1 : s[at + h + i] = t[i]
      BY <1>3, <2>4 DEF Places, t, h
    <3> QED
      BY <3>1
  <2>6. Displacement(s) = SignExtended(s[m + h])
    BY <1>2, <2>2 DEF Displacement
  <2>7. ImmediateAt(s) = m + h + 1
    BY <1>2, <2>2 DEF ImmediateAt
  <2> QED
    BY <1>5, <2>3, <2>4, <2>5, <2>6, <2>7 DEF m, h, t
<1>8. CASE d.mode = "INDIRECT_DISP32"
  <2> DEFINE t == Displaced(d)
             n == m + h
  <2>1. Mod(s) = 2
    BY <1>8 DEF Fielded, Modes
  <2>2. DisplacementLength(s) = 4
    BY <2>1 DEF DisplacementLength, Baseless
  <2>3. t = <<d.disp32, 0, 0, 0>> /\ Disp(d) = t
    BY <1>8 DEF Displaced, Disp
  <2>4. t \in Seq(Byte) /\ Len(t) = 4
    BY <1>4, <2>3, Literal
  <2> HIDE DEF t
  <2>5. \A i \in 1 .. Len(t) : s[at + h + i] = t[i]
    BY <1>3 DEF Places, t, h
  <2>6. at + h \in Nat /\ at + h + 1 = n /\ at + h + 4 = n + 3
    BY <1>2, <1>3
  <2>7. SubSeq(s, at + h + 1, at + h + Len(t)) = t
    <3> DEFINE e == at + h
    <3>1. e \in Nat /\ \A i \in 1 .. Len(t) : s[e + i] = t[i]
      BY <2>5, <2>6
    <3> HIDE DEF e
    <3>2. SubSeq(s, e + 1, e + Len(t)) = t
      BY <1>3, <2>4, <3>1, SubSeqIs
    <3> QED
      BY <3>2 DEF e
  <2>8. Displacement(s) = SubSeq(s, n, n + 3)
    <3>1. DisplacementAt(s) = n
      BY <1>2
    <3>2. Displacement(s) = SubSeq(s, DisplacementAt(s), DisplacementAt(s) + 3)
      <4> DEFINE a == <<0, 0, 0, 0>>
                 b == SignExtended(s[DisplacementAt(s)])
                 c == SubSeq(s, DisplacementAt(s), DisplacementAt(s) + 3)
                 x == DisplacementLength(s)
      <4>1. Displacement(s) = CASE x = 0 -> a [] x = 1 -> b [] x = 4 -> c
        BY DEF Displacement
      <4> HIDE DEF a, b, c, x
      <4>2. (CASE x = 0 -> a [] x = 1 -> b [] x = 4 -> c) = c
        BY <2>2 DEF x
      <4> QED
        BY <4>1, <4>2 DEF c
    <3> HIDE DEF n
    <3> QED
      BY <3>1, <3>2
  <2>9. ImmediateAt(s) = m + h + 4
    BY <1>2, <2>2 DEF ImmediateAt
  <2> QED
    BY <2>3, <2>4, <2>6, <2>7, <2>8, <2>9 DEF m, h, t
<1> QED
  BY <1>1, <1>6, <1>7, <1>8

Indirect(d) ==
    /\ Encodable(d) /\ Opcodes(d.opcodes)
    /\ d.has_modRM /\ ~d.has_sib /\ d.mode # "DIRECT" /\ d.base = NoInfo /\ d.imm_bytes = <<>>

(* The register of 64 bits with a number.                                   *)
Wide(number) == [family |-> number, size |-> 8, high |-> FALSE]

(* A processor takes more bytes than there are for a base it cannot have.   *)
NeedsMore(d) ==
    \/ d.rm.num % 8 = 4
    \/ d.rm.num % 8 = 5 /\ d.mode = "INDIRECT"
IndirectRead(w, s, d) ==
    /\ RexTells(s, d) /\ ImmediateAt(s) \in Nat
    /\ Code(s) = CodeOf(d.opcodes)
    /\ \A size : RmOperand(s, size).kind = "mem"
    /\ NeedsMore(d) => Len(w) < ImmediateAt(s) - 1
    /\ ~NeedsMore(d) =>
           /\ Len(w) = ImmediateAt(s) - 1
           /\ \A size : RmOperand(s, size) = Mem(size, Wide(d.rm.num), NoRegister, 1, Disp(d))

(* A descriptor with a register as address is read back, or a processor     *)
(* wants more bytes than there are.                                         *)
LEMMA IndirectIs ==
    ASSUME NEW d, Indirect(d), NEW w, NEW s, Opened(w, s, d)
    PROVE  IndirectRead(w, s, d)
<1> DEFINE at == ModRMAt(s) - 1
           m == ModRMAt(s)
           rex == RexOf(d)
           n == d.rm.num
           k == Len(Displaced(d))
<1>1. Encodable(d) /\ d.has_modRM /\ d.mode # "DIRECT" /\ ~d.has_sib
  BY DEF Indirect
<1>2. Places(s, at, d) /\ m \in Nat /\ Len(w) = at + HeadLength(d) + k + Len(d.imm_bytes)
  BY <1>1, OpenedPlaces
<1>3. s[m] = modRM_value(d)
  <2>1. s[at + 1] = modRM_value(d)
    BY <1>2 DEF Places
  <2>2. at + 1 = m
    BY <1>2
  <2> QED
    BY <2>1, <2>2
<1>4. Fielded(s, d)
  BY <1>1, <1>3, FieldedIs
<1>5. /\ Mod(s) = Modes[d.mode] /\ Mod(s) # 3 /\ (Mod(s) = 0 <=> d.mode = "INDIRECT")
      /\ Rm(s) = n % 8
      /\ HasSib(s) <=> n % 8 = 4
  BY <1>1, <1>4 DEF Fielded, Modes, HasSib, Encodable
<1>6. RexTells(s, d)
  BY <1>1, <1>4, RexTellsIs DEF Opened
<1>7. HeadLength(d) = 1 /\ k \in Nat /\ Len(d.imm_bytes) = 0
  BY <1>1, DisplacedType, Literal DEF HeadLength, Flag, Indirect
<1>8. /\ Len(w) = m + k
      /\ n \in 0 .. 15
  <2>1. n \in 0 .. 15
    BY <1>1 DEF Encodable, Info
  <2> HIDE DEF m, k
  <2>2. Len(w) = (m - 1) + 1 + k + 0
    BY <1>2, <1>7 DEF m
  <2> QED
    BY <1>2, <1>7, <2>1, <2>2
<1>9. \A size : RmOperand(s, size).kind = "mem"
  BY <1>5 DEF RmOperand, Mem
<1>10. ~NeedsMore(d) => HasSib(s) = FALSE /\ ~Baseless(s)
  BY <1>5 DEF NeedsMore, Baseless, BaseNumber
<1>11. Code(s) = CodeOf(d.opcodes)
  BY DEF Opened
<1>12. ASSUME ~NeedsMore(d)
       PROVE  /\ ImmediateAt(s) = m + 1 + k
              /\ \A size : RmOperand(s, size) = Mem(size, Wide(n), NoRegister, 1, Disp(d))
  <2>1. Displacement(s) = Disp(d) /\ ImmediateAt(s) = m + 1 + k
    BY <1>1, <1>4, <1>7, <1>10, <1>12, DisplacementIs
  <2>2. Bit(rex, 0) = Flag(d.base.num >= 8 \/ n >= 8)
    BY <1>1, RexBits DEF RexOf, Encodable
  <2>3. d.base.num = 0
    BY DEF Indirect, NoInfo
  <2>4. BaseNumber(s) = n % 8
    BY <1>5, <1>10, <1>12 DEF BaseNumber
  <2> HIDE DEF rex, n
  <2>5. Bit(rex, 0) = Flag(n >= 8)
    BY <2>2, <2>3
  <2>6. (n % 8) + 8 * Flag(n >= 8) = n
    BY <1>8, Number
  <2>7. BaseNumber(s) + 8 * Bit(Rex(s), 0) = n /\ Rex(s) = rex
    BY <2>4, <2>5, <2>6 DEF Opened, rex
  <2> QED
    BY <1>5, <1>10, <1>12, <2>1, <2>7 DEF RmOperand, Wide
<1>13. ASSUME NeedsMore(d)
       PROVE  /\ ImmediateAt(s) \in Nat
              /\ Len(w) < ImmediateAt(s) - 1
  <2>1. /\ d.mode \in {"INDIRECT", "INDIRECT_DISP8", "INDIRECT_DISP32"}
        /\ k = IF d.mode = "INDIRECT" THEN 0 ELSE IF d.mode = "INDIRECT_DISP8" THEN 1 ELSE 4
    <3>1. d.mode \in {"INDIRECT", "INDIRECT_DISP8", "INDIRECT_DISP32"}
      BY <1>1 DEF Encodable, Modes
    <3>2. d.disp8 \in Byte /\ d.disp32 \in Byte /\ 0 \in Byte
      BY <1>1, SomeBytes DEF Encodable
    <3> QED
      BY <1>1, <3>1, <3>2, Literal DEF Displaced
  <2> DEFINE x == DisplacementLength(s)
  <2>2. /\ x \in {0, 1, 4}
        /\ d.mode = "INDIRECT_DISP8" => x = 1
        /\ d.mode = "INDIRECT_DISP32" => x = 4
        /\ d.mode = "INDIRECT" /\ n % 8 = 5 => x = 4
    <3>1. /\ d.mode = "INDIRECT_DISP8" => Mod(s) = 1
          /\ d.mode = "INDIRECT_DISP32" => Mod(s) = 2
          /\ d.mode = "INDIRECT" => Mod(s) = 0
      BY <1>5 DEF Modes
    <3>2. n % 8 = 5 => BaseNumber(s) = 5
      BY <1>5 DEF BaseNumber
    <3> QED
      BY <2>1, <3>1, <3>2 DEF DisplacementLength, Baseless
  <2>3. DisplacementAt(s) = m + (IF n % 8 = 4 THEN 2 ELSE 1)
    BY <1>5 DEF DisplacementAt
  <2>4. ImmediateAt(s) = m + (IF n % 8 = 4 THEN 2 ELSE 1) + x
    BY <2>3 DEF ImmediateAt
  <2>5. n % 8 = 4 \/ (n % 8 = 5 /\ d.mode = "INDIRECT")
    BY <1>13 DEF NeedsMore
  <2> HIDE DEF m, x, k, n
  <2>6. ImmediateAt(s) \in Nat
    BY <1>2, <2>2, <2>4
  <2>7. k <= x /\ (n % 8 = 5 /\ d.mode = "INDIRECT" => k = 0 /\ x = 4)
    BY <2>1, <2>2
  <2>8. CASE n % 8 = 4
    BY <1>2, <1>7, <1>8, <2>2, <2>4, <2>6, <2>7, <2>8
  <2>9. CASE n % 8 = 5 /\ d.mode = "INDIRECT"
    BY <1>2, <1>7, <1>8, <2>2, <2>4, <2>6, <2>7, <2>9
  <2> QED
    BY <2>5, <2>8, <2>9
<1>14. ~NeedsMore(d) => ImmediateAt(s) \in Nat /\ Len(w) = ImmediateAt(s) - 1
  <2> HIDE DEF m, k
  <2> QED
    BY <1>2, <1>7, <1>8, <1>12
<1> QED
  BY <1>6, <1>9, <1>11, <1>12, <1>13, <1>14 DEF IndirectRead, n

(* A scale is read back from its two bits.                                  *)
LEMMA ScaleIs ==
    ASSUME NEW scale, scale \in {1, 2, 4, 8}
    PROVE  ScaleBits(scale) \in 0 .. 3 /\ 2 ^ ScaleBits(scale) = scale
<1>1. CASE scale = 1
  BY <1>1, Powers DEF ScaleBits
<1>2. CASE scale = 2
  BY <1>2, Powers DEF ScaleBits
<1>3. CASE scale = 4
  BY <1>3, Powers DEF ScaleBits
<1>4. CASE scale = 8
  BY <1>4, Powers DEF ScaleBits
<1> QED
  BY <1>1, <1>2, <1>3, <1>4

Sibbed(d) ==
    /\ Encodable(d) /\ Opcodes(d.opcodes)
    /\ d.has_modRM /\ d.has_sib /\ d.mode # "DIRECT" /\ d.rm = NoInfo /\ d.imm_bytes = <<>>
    /\ d.scale \in {1, 2, 4, 8}
    /\ ~(d.mode = "INDIRECT" /\ d.base.num % 8 = 5)

(* There is no index 4.                                                     *)
Indexed(d) == d.index.num # 4
SibRead(w, s, d) ==
    /\ RexTells(s, d) /\ ImmediateAt(s) \in Nat
    /\ Code(s) = CodeOf(d.opcodes)
    /\ Len(w) = ImmediateAt(s) - 1
    /\ \A size : RmOperand(s, size) =
           Mem(size, Wide(d.base.num),
               IF Indexed(d) THEN Wide(d.index.num) ELSE NoRegister,
               IF Indexed(d) THEN d.scale ELSE 1, Disp(d))

(* A descriptor with a SIB byte is read back.                               *)
LEMMA SibIs ==
    ASSUME NEW d, Sibbed(d), NEW w, NEW s, Opened(w, s, d)
    PROVE  SibRead(w, s, d)
<1> DEFINE at == ModRMAt(s) - 1
           m == ModRMAt(s)
           rex == RexOf(d)
           b == d.base.num
           x == d.index.num
           c == ScaleBits(d.scale)
           v == Sib(s)
           k == Len(Displaced(d))
<1>1. Encodable(d) /\ d.has_modRM /\ d.mode # "DIRECT" /\ d.has_sib
  BY DEF Sibbed
<1>2. Places(s, at, d) /\ m \in Nat /\ Len(w) = at + HeadLength(d) + k + Len(d.imm_bytes)
  BY <1>1, OpenedPlaces
<1>3. s[m] = modRM_value(d) /\ s[m + 1] = sib_value(d)
  <2>1. s[at + 1] = modRM_value(d) /\ s[at + 2] = sib_value(d)
    BY <1>1, <1>2 DEF Places
  <2>2. at + 1 = m /\ at + 2 = m + 1
    BY <1>2
  <2> QED
    BY <2>1, <2>2
<1>4. Fielded(s, d)
  BY <1>1, <1>3, FieldedIs
<1>5. /\ Mod(s) # 3 /\ (Mod(s) = 0 <=> d.mode = "INDIRECT")
      /\ HasSib(s) = TRUE
  BY <1>1, <1>4 DEF Fielded, Modes, HasSib, Encodable
<1>6. RexTells(s, d)
  BY <1>1, <1>4, RexTellsIs DEF Opened
<1>7. HeadLength(d) = 2 /\ k \in Nat /\ Len(d.imm_bytes) = 0
  BY <1>1, DisplacedType, Literal DEF HeadLength, Flag, Sibbed
<1>8. b \in 0 .. 15 /\ x \in 0 .. 15 /\ d.rm.num = 0
  BY <1>1 DEF Encodable, Info, Sibbed, NoInfo
<1>9. c \in 0 .. 3 /\ 2 ^ c = d.scale
  BY ScaleIs DEF Sibbed
<1>10. v = 64 * c + 8 * (x % 8) + (b % 8)
  BY <1>3 DEF Sib, sib_value
<1>11. /\ Bit(rex, 1) = Flag(x >= 8)
       /\ Bit(rex, 0) = Flag(b >= 8 \/ d.rm.num >= 8)
       /\ Rex(s) = rex
  <2>1. d.reg \in Info /\ d.rm \in Info /\ d.index \in Info /\ d.base \in Info
    BY <1>1 DEF Encodable
  <2>2. rex = rex_value(d.reg, d.rm, d.index, d.base) /\ Rex(s) = rex
    BY DEF RexOf, Opened
  <2> HIDE DEF rex
  <2> QED
    BY <2>1, <2>2, RexBits
<1> HIDE DEF rex, b, x, c, v
<1>12. v \div 64 = c /\ (v \div 8) % 8 = x % 8 /\ v % 8 = b % 8
  <2>1. x % 8 \in 0 .. 7 /\ b % 8 \in 0 .. 7
    BY <1>8
  <2> DEFINE r == x % 8
             l == b % 8
  <2> HIDE DEF r, l
  <2>2. LET u == 64 * c + 8 * r + l
        IN  u \div 64 = c /\ (u \div 8) % 8 = r /\ u % 8 = l
    BY <1>9, <2>1, Fields DEF r, l
  <2> QED
    BY <1>10, <2>2 DEF r, l
<1>13. IndexNumber(s) = x
  <2>1. (x % 8) + 8 * Flag(x >= 8) = x
    BY <1>8, Number
  <2> QED
    BY <1>11, <1>12, <2>1 DEF IndexNumber, v
<1>14. BaseNumber(s) = b % 8 /\ BaseNumber(s) + 8 * Bit(Rex(s), 0) = b
  <2>1. (b % 8) + 8 * Flag(b >= 8) = b
    BY <1>8, Number
  <2>2. Bit(rex, 0) = Flag(b >= 8)
    BY <1>8, <1>11
  <2>3. BaseNumber(s) = b % 8
    BY <1>5, <1>12 DEF BaseNumber, v
  <2> QED
    BY <1>11, <2>1, <2>2, <2>3
<1>15. ~Baseless(s)
  BY <1>5, <1>14 DEF Baseless, Sibbed, b
<1>16. Displacement(s) = Disp(d) /\ ImmediateAt(s) = m + HeadLength(d) + k
  BY <1>1, <1>4, <1>5, <1>15, DisplacementIs
<1>17. ImmediateAt(s) \in Nat /\ Len(w) = ImmediateAt(s) - 1
  <2> HIDE DEF m, k
  <2>1. Len(w) = (m - 1) + HeadLength(d) + k + Len(d.imm_bytes)
    BY <1>2 DEF m
  <2> QED
    BY <1>2, <1>7, <1>16, <2>1
<1>18. ASSUME NEW size
       PROVE  RmOperand(s, size) =
                  Mem(size, Wide(b), IF x # 4 THEN Wide(x) ELSE NoRegister,
                      IF x # 4 THEN d.scale ELSE 1, Disp(d))
  BY <1>5, <1>9, <1>12, <1>13, <1>14, <1>15, <1>16 DEF RmOperand, Wide, v
<1>19. Code(s) = CodeOf(d.opcodes)
  BY DEF Opened
<1> QED
  BY <1>6, <1>17, <1>18, <1>19 DEF SibRead, Indexed, b, x

-----------------------------------------------------------------------------
(* No ModRM byte.                                                           *)

Bare(d) ==
    Encodable(d) /\ Opcodes(d.opcodes) /\ ~d.has_modRM /\ ~d.has_sib

BareRead(w, s, d) ==
    /\ Code(s) = CodeOf(d.opcodes) /\ Rex(s) = RexOf(d)
    /\ ModRMAt(s) \in Nat /\ ModRMAt(s) = CodeAt(s) + Len(d.opcodes)
    /\ OperandSize(s) = IF 8 \in {d.reg.size, d.rm.size} THEN 8 ELSE IF d.emit_66h THEN 2 ELSE 4
    /\ Bit(Rex(s), 0) = Flag(d.base.num >= 8 \/ d.rm.num >= 8)
    /\ Len(w) = ModRMAt(s) - 1 + Len(d.imm_bytes)
    /\ SubSeq(s, ModRMAt(s), ModRMAt(s) + Len(d.imm_bytes) - 1) = d.imm_bytes
    /\ s \in Seq(Byte) /\ Len(s) = Len(w) + 16

(* A descriptor without ModRM byte is read back.                            *)
LEMMA BareIs ==
    ASSUME NEW d, Bare(d), NEW w, NEW s, Opened(w, s, d)
    PROVE  BareRead(w, s, d)
<1> DEFINE m == ModRMAt(s)
           e == m - 1
           n == Len(d.opcodes)
           imm == d.imm_bytes
           l == Len(imm)
           rex == RexOf(d)
<1>1. Encodable(d) /\ n \in {1, 2}
  BY DEF Bare, Opcodes
<1>2. imm \in Seq(Byte) /\ l \in Nat
  BY <1>1, LenProperties DEF Encodable, Upto
<1>3. Body(d) = imm
  <2>1. Displaced(d) = <<>>
    BY DEF Bare, Displaced
  <2>2. Body(d) = <<>> \o <<>> \o <<>> \o imm
    BY <2>1 DEF Body, Bare
  <2> HIDE DEF imm
  <2>3. <<>> \o <<>> = <<>> /\ <<>> \o imm = imm
    BY <1>2, Literal, ConcatEmptySeq
  <2> QED
    BY <2>2, <2>3
<1>4. /\ m = CodeAt(s) + n /\ CodeAt(s) \in Nat
      /\ s \in Seq(Byte) /\ Len(w) = e + l
      /\ \A i \in 1 .. l : s[e + i] = imm[i]
      /\ Len(s) = Len(w) + 16
  BY <1>3 DEF Opened
<1> HIDE DEF n, imm, l
<1>5. m \in Nat /\ e \in Nat /\ e + 1 = m /\ m + l - 1 = e + l
  BY <1>1, <1>2, <1>4
<1> HIDE DEF m, e
<1>6. SubSeq(s, e + 1, e + l) = imm
  BY <1>2, <1>4, <1>5, SubSeqIs DEF l
<1>7. /\ Bit(rex, 3) = Flag(8 \in {d.reg.size, d.rm.size})
      /\ Bit(rex, 0) = Flag(d.base.num >= 8 \/ d.rm.num >= 8)
      /\ Rex(s) = rex
  <2>1. d.reg \in Info /\ d.rm \in Info /\ d.index \in Info /\ d.base \in Info
    BY <1>1 DEF Encodable
  <2>2. rex = rex_value(d.reg, d.rm, d.index, d.base) /\ Rex(s) = rex
    BY DEF RexOf, Opened
  <2> HIDE DEF rex
  <2> QED
    BY <2>1, <2>2, RexBits
<1>8. Code(s) = CodeOf(d.opcodes) /\ (Has66(s) <=> d.emit_66h)
  BY DEF Opened
<1>9. OperandSize(s) = IF 8 \in {d.reg.size, d.rm.size} THEN 8 ELSE IF d.emit_66h THEN 2 ELSE 4
  BY <1>7, <1>8 DEF OperandSize, Flag
<1> QED
  BY <1>4, <1>5, <1>6, <1>7, <1>8, <1>9 DEF BareRead, m, e, n, imm, l, rex

-----------------------------------------------------------------------------
(* The register a number stands for.                                        *)

(* What asks for a REX prefix in a register itself.                         *)
Asks(r) == r.family >= 8 \/ LowByteOfHigh(r)

LEMMA RegisterInfo ==
    ASSUME NEW r \in Register
    PROVE  /\ reg_info(r).size = r.size /\ r.size \in Sizes
           /\ reg_info(r).num \in 0 .. 15
           /\ reg_info(r).num >= 8 \/ reg_info(r).needs_rex <=> Asks(r)
           /\ r.high => r.size = 1 /\ ~Asks(r)
           /\ ~r.high => reg_info(r).num = r.family
           /\ r = [family |-> r.family, size |-> r.size, high |-> r.high]
           /\ r.high \in BOOLEAN
<1>1. /\ r.family \in 0 .. 15 /\ r.size \in Sizes /\ r.high \in BOOLEAN
      /\ r.high => r.size = 1 /\ r.family < 4
      /\ r = [family |-> r.family, size |-> r.size, high |-> r.high]
  BY DEF Register
<1>2. /\ reg_info(r).size = r.size
      /\ reg_info(r).num = IF r.high THEN r.family + 4 ELSE r.family
      /\ reg_info(r).needs_rex <=> r.family >= 8 \/ (r.size = 1 /\ ~r.high /\ r.family >= 4)
  BY DEF reg_info
<1>3. CASE r.high
  BY <1>1, <1>2, <1>3 DEF Asks, LowByteOfHigh
<1>4. CASE ~r.high
  BY <1>1, <1>2, <1>4 DEF Asks, LowByteOfHigh
<1> QED
  BY <1>3, <1>4

(* The register read for a register's number is that register when the      *)
(* prefix it asks for is there, unless it is high and there is a prefix.    *)
LEMMA GeneralIs ==
    ASSUME NEW r \in Register, NEW rex, Asks(r) => rex # 0
    PROVE  General(reg_info(r).num, r.size, rex) = r <=> ~(r.high /\ rex # 0)
<1> DEFINE n == reg_info(r).num
<1>1. CASE r.high
  <2>1. n = r.family + 4 /\ r.size = 1 /\ r.family \in 0 .. 3 /\ n \in 4 .. 7
    BY <1>1 DEF reg_info, Register
  <2> HIDE DEF n
  <2>2. r = [family |-> n - 4, size |-> 1, high |-> TRUE]
    BY <1>1, <2>1 DEF Register
  <2> QED
    BY <1>1, <2>1, <2>2 DEF General, n
<1>2. CASE ~r.high
  <2>1. n = r.family /\ r = [family |-> n, size |-> r.size, high |-> FALSE]
    BY <1>2 DEF reg_info, Register
  <2>2. r.size = 1 /\ n \in 4 .. 7 => rex # 0
    BY <1>2, <2>1 DEF Asks, LowByteOfHigh
  <2> HIDE DEF n
  <2> QED
    BY <1>2, <2>1, <2>2 DEF General, n
<1> QED
  BY <1>1, <1>2

-----------------------------------------------------------------------------
(* Opcodes.                                                                 *)

ReadSize(s) == IF Code(s) % 2 = 0 THEN 1 ELSE OperandSize(s)
Wide32(size) == IF size = 8 THEN 4 ELSE size
Following(s, length) == Imm(SubSeq(s, ImmediateAt(s), ImmediateAt(s) + length - 1))

(* What Read makes of each opcode the emitter writes.                       *)
LEMMA ReadMov ==
    ASSUME NEW s
    PROVE  /\ Code(s) \in {\h8A, \h8B} =>
                  Read(s) = Instruction("mov", RegOperand(s, ReadSize(s)), RmOperand(s, ReadSize(s)))
           /\ Code(s) \in {\h88, \h89} =>
                  Read(s) = Instruction("mov", RmOperand(s, ReadSize(s)), RegOperand(s, ReadSize(s)))
           /\ Code(s) \in {\h84, \h85} =>
                  Read(s) = Instruction("test", RegOperand(s, ReadSize(s)), RmOperand(s, ReadSize(s)))
           /\ Code(s) = \h8D =>
                  Read(s) = Instruction("lea", RegOperand(s, ReadSize(s)),
                                        [RmOperand(s, ReadSize(s)) EXCEPT !.width = 0])
<1>1. CASE Code(s) = \h8A
  BY <1>1 DEF Read, ReadSize
<1>2. CASE Code(s) = \h8B
  BY <1>2 DEF Read, ReadSize
<1>3. CASE Code(s) = \h88
  BY <1>3 DEF Read, ReadSize
<1>4. CASE Code(s) = \h89
  BY <1>4 DEF Read, ReadSize
<1>5. CASE Code(s) = \h84
  BY <1>5 DEF Read, ReadSize
<1>6. CASE Code(s) = \h85
  BY <1>6 DEF Read, ReadSize
<1>7. CASE Code(s) = \h8D
  BY <1>7 DEF Read, ReadSize
<1> QED
  BY <1>1, <1>2, <1>3, <1>4, <1>5, <1>6, <1>7

(* The opcode is one or the next.                                           *)
Sized(s, code) == Code(s) \in {code, code + 1}

LEMMA ReadAlu ==
    ASSUME NEW s, NEW op \in AluOperations, Sized(s, alu_opcode[op] + 2)
    PROVE  Read(s) = Instruction(op, RegOperand(s, ReadSize(s)), RmOperand(s, ReadSize(s)))
<1> DEFINE code == alu_opcode[op] + 2
<1>1. op \in {"add", "or", "adc", "and", "sub", "xor", "cmp"}
  BY DEF AluOperations, alu_opcode
<1>2. ASSUME NEW n \in {0, 8, 16, 32, 40, 48, 56}, NEW name,
             Code(s) \in {n + 2, n + 3}, AluOps[(n \div 8) + 1] = name
      PROVE  Read(s) = Instruction(name, RegOperand(s, ReadSize(s)), RmOperand(s, ReadSize(s)))
  <2>1. Code(s) < \h40 /\ Code(s) % 8 \in {2, 3} /\ Code(s) \div 8 = n \div 8
    BY <1>2
  <2>2. /\ Code(s) \notin {\h88, \h89, \h8A, \h8B, \h8D, \h80, \h81, \h83, \h84, \h85}
        /\ ~(Code(s) >= \h80)
    BY <1>2
  <2> QED
    BY <1>2, <2>1, <2>2 DEF Read, ReadSize
<1>3. /\ op = "add" => alu_opcode[op] = 0 /\ AluOps[(0 \div 8) + 1] = op
      /\ op = "or" => alu_opcode[op] = 8 /\ AluOps[(8 \div 8) + 1] = op
      /\ op = "adc" => alu_opcode[op] = 16 /\ AluOps[(16 \div 8) + 1] = op
      /\ op = "and" => alu_opcode[op] = 32 /\ AluOps[(32 \div 8) + 1] = op
      /\ op = "sub" => alu_opcode[op] = 40 /\ AluOps[(40 \div 8) + 1] = op
      /\ op = "xor" => alu_opcode[op] = 48 /\ AluOps[(48 \div 8) + 1] = op
      /\ op = "cmp" => alu_opcode[op] = 56 /\ AluOps[(56 \div 8) + 1] = op
  BY DEF alu_opcode, AluOps
<1>4. PICK n \in {0, 8, 16, 32, 40, 48, 56} :
          alu_opcode[op] = n /\ AluOps[(n \div 8) + 1] = op
  BY <1>1, <1>3
<1>5. Code(s) \in {n + 2, n + 3}
  BY <1>4 DEF Sized
<1> QED
  BY <1>2, <1>4, <1>5

LEMMA ReadAluImmediate ==
    ASSUME NEW s, NEW op \in AluOperations, Digit(s) = alu_digit[op]
    PROVE  /\ Sized(s, \h80) =>
                  Read(s) = Instruction(op, RmOperand(s, ReadSize(s)),
                                        Following(s, Wide32(ReadSize(s))))
           /\ Code(s) = \h83 =>
                  Read(s) = Instruction(op, RmOperand(s, ReadSize(s)), Following(s, 1))
<1>1. AluOps[Digit(s) + 1] = op
  BY DEF AluOperations, alu_opcode, alu_digit, AluOps
<1>2. CASE Code(s) = \h80
  BY <1>1, <1>2 DEF Read, ReadSize, Following, Wide32, Sized
<1>3. CASE Code(s) = \h81
  BY <1>1, <1>3 DEF Read, ReadSize, Following, Wide32, Sized
<1>4. CASE Code(s) = \h83
  BY <1>1, <1>4 DEF Read, ReadSize, Following, Sized
<1> QED
  BY <1>2, <1>3, <1>4 DEF Sized

LEMMA ReadGroup ==
    ASSUME NEW s, NEW op \in GroupOperations, Digit(s) = group_digit[op],
           Sized(s, group[op])
    PROVE  Read(s) = Instruction(op, RmOperand(s, ReadSize(s)), Nothing)
<1>1. op \in {"inc", "dec", "not", "shl", "shr", "rcl", "rcr"}
  BY DEF GroupOperations, group
<1>2. CASE op \in {"inc", "dec"}
  <2>1. /\ Digit(s) \in {0, 1} /\ <<"inc", "dec">>[Digit(s) + 1] = op
        /\ Code(s) \in {\hFE, \hFF}
    BY <1>2 DEF group, group_digit, Sized
  <2>2. CASE Code(s) = \hFE
    BY <2>1, <2>2 DEF Read, ReadSize
  <2>3. CASE Code(s) = \hFF
    BY <2>1, <2>3 DEF Read, ReadSize
  <2> QED
    BY <2>1, <2>2, <2>3
<1>3. CASE op = "not"
  <2>1. Digit(s) = 2 /\ Code(s) \in {\hF6, \hF7}
    BY <1>3 DEF group, group_digit, Sized
  <2>2. CASE Code(s) = \hF6
    BY <1>3, <2>1, <2>2 DEF Read, ReadSize
  <2>3. CASE Code(s) = \hF7
    BY <1>3, <2>1, <2>3 DEF Read, ReadSize
  <2> QED
    BY <2>1, <2>2, <2>3
<1>4. CASE op \in {"shl", "shr", "rcl", "rcr"}
  <2>1. /\ Digit(s) \in 2 .. 5 /\ <<"rcl", "rcr", "shl", "shr">>[Digit(s) - 1] = op
        /\ Code(s) \in {\hD0, \hD1}
    BY <1>4 DEF group, group_digit, Sized
  <2>2. CASE Code(s) = \hD0
    BY <2>1, <2>2 DEF Read, ReadSize
  <2>3. CASE Code(s) = \hD1
    BY <2>1, <2>3 DEF Read, ReadSize
  <2> QED
    BY <2>1, <2>2, <2>3
<1> QED
  BY <1>1, <1>2, <1>3, <1>4

LEMMA ReadImmediate ==
    ASSUME NEW s
    PROVE  /\ Sized(s, \hF6) /\ Digit(s) = 0 =>
                  Read(s) = Instruction("test", RmOperand(s, ReadSize(s)),
                                        Following(s, Wide32(ReadSize(s))))
           /\ \A op \in {"shl", "shr"} : Sized(s, \hC0) /\ Digit(s) = group_digit[op] =>
                  Read(s) = Instruction(op, RmOperand(s, ReadSize(s)), Following(s, 1))
           /\ Code(s) = 256 + \hBA /\ Digit(s) = 4 =>
                  Read(s) = Instruction("bt", RmOperand(s, OperandSize(s)), Following(s, 1))
<1>1. ASSUME Sized(s, \hF6), Digit(s) = 0
      PROVE  Read(s) = Instruction("test", RmOperand(s, ReadSize(s)),
                                   Following(s, Wide32(ReadSize(s))))
  <2>1. CASE Code(s) = \hF6
    BY <1>1, <2>1 DEF Read, ReadSize, Following, Wide32
  <2>2. CASE Code(s) = \hF7
    BY <1>1, <2>2 DEF Read, ReadSize, Following, Wide32
  <2> QED
    BY <1>1, <2>1, <2>2 DEF Sized
<1>2. ASSUME NEW op \in {"shl", "shr"}, Sized(s, \hC0), Digit(s) = group_digit[op]
      PROVE  Read(s) = Instruction(op, RmOperand(s, ReadSize(s)), Following(s, 1))
  <2>1. Digit(s) \in 2 .. 5 /\ <<"rcl", "rcr", "shl", "shr">>[Digit(s) - 1] = op
    BY <1>2 DEF group_digit
  <2>2. CASE Code(s) = \hC0
    BY <2>1, <2>2 DEF Read, ReadSize, Following
  <2>3. CASE Code(s) = \hC1
    BY <2>1, <2>3 DEF Read, ReadSize, Following
  <2> QED
    BY <1>2, <2>2, <2>3 DEF Sized
<1>3. ASSUME Code(s) = 256 + \hBA, Digit(s) = 4
      PROVE  Read(s) = Instruction("bt", RmOperand(s, OperandSize(s)), Following(s, 1))
  BY <1>3 DEF Read, Following
<1> QED
  BY <1>1, <1>2, <1>3

(* What opcodes of two bytes, of none but a register and of nothing are.    *)
Small(s, to) == Reg(General((Code(s) % 8) + 8 * Bit(Rex(s), 0), to, Rex(s)))
FollowingCode(s, length) == Imm(SubSeq(s, CodeAt(s) + 1, CodeAt(s) + 1 + length - 1))

LEMMA ReadOther ==
    ASSUME NEW s
    PROVE  /\ Code(s) = 256 + \hB6 =>
                  Read(s) = Instruction("movzx", RegOperand(s, OperandSize(s)), RmOperand(s, 1))
           /\ Code(s) = 256 + \hB7 =>
                  Read(s) = Instruction("movzx", RegOperand(s, OperandSize(s)), RmOperand(s, 2))
           /\ Code(s) = \h90 => Read(s) = Instruction("nop", Nothing, Nothing)
           /\ Code(s) = \hF8 => Read(s) = Instruction("clc", Nothing, Nothing)
           /\ Code(s) = \hF9 => Read(s) = Instruction("stc", Nothing, Nothing)
<1>1. CASE Code(s) = 256 + \hB6
  BY <1>1 DEF Read
<1>2. CASE Code(s) = 256 + \hB7
  BY <1>2 DEF Read
<1>3. CASE Code(s) = \h90
  BY <1>3 DEF Read
<1>4. CASE Code(s) = \hF8
  BY <1>4 DEF Read
<1>5. CASE Code(s) = \hF9
  BY <1>5 DEF Read
<1> QED
  BY <1>1, <1>2, <1>3, <1>4, <1>5

LEMMA ReadSet ==
    ASSUME NEW s, NEW n, n \in 0 .. 15, Code(s) = 256 + \h90 + n
    PROVE  Read(s) = Instruction("set", RmOperand(s, 1), Condition(n))
<1>1. Code(s) \in 256 + \h90 .. 256 + \h9F /\ Code(s) % 16 = n /\ Code(s) > 255
  OBVIOUS
<1>2. ~(Code(s) < \h40)
  OBVIOUS
<1> QED
  BY <1>1, <1>2 DEF Read

LEMMA ReadMovImmediate ==
    ASSUME NEW s
    PROVE  /\ Code(s) \in \hB0 .. \hB7 =>
                  Read(s) = Instruction("mov", Small(s, 1), FollowingCode(s, 1))
           /\ Code(s) \in \hB8 .. \hBF =>
                  Read(s) = Instruction("mov", Small(s, OperandSize(s)),
                                        FollowingCode(s, OperandSize(s)))
<1>1. ASSUME Code(s) \in \hB0 .. \hB7
      PROVE  Read(s) = Instruction("mov", Small(s, 1), FollowingCode(s, 1))
  <2>1. ~(Code(s) < \h40) /\ ~(Code(s) > \hB7) /\ Code(s) > \h8D
    BY <1>1
  <2> QED
    BY <1>1, <2>1 DEF Read, Small, FollowingCode
<1>2. ASSUME Code(s) \in \hB8 .. \hBF
      PROVE  Read(s) = Instruction("mov", Small(s, OperandSize(s)),
                                   FollowingCode(s, OperandSize(s)))
  <2>1. ~(Code(s) < \h40) /\ ~(Code(s) > \hBF) /\ Code(s) > \hB7
    BY <1>2
  <2> QED
    BY <1>2, <2>1 DEF Read, Small, FollowingCode
<1> QED
  BY <1>1, <1>2

-----------------------------------------------------------------------------
(* The answer of a call, read and compared.                                 *)

Stream(d) == WithoutEnd(emit_encode(d)) \o Pad
LengthBefore(s) == (IF HasModRM(s) THEN ImmediateAt(s) ELSE ModRMAt(s)) - 1
ImmediateLength(src) == IF src.kind = "imm" THEN Len(src.bytes) ELSE 0

(* Decode, when Read is known: only the lengths remain to be compared.      *)
LEMMA DecodedIs ==
    ASSUME NEW w, NEW op, NEW dst, NEW src, Read(w \o Pad) = Instruction(op, dst, src)
    PROVE  Decode(w) = IF LengthBefore(w \o Pad) + ImmediateLength(src) = Len(w)
                         THEN Instruction(op, dst, src) ELSE Undefined
<1> DEFINE s == w \o Pad
<1>1. Decode(w) = IF ReadLength(s) = Len(w) THEN Read(s) ELSE Undefined
  BY DEF Decode, Pad
<1> HIDE DEF s
<1>2. ReadLength(s) = LengthBefore(s) + ImmediateLength(src)
  BY DEF ReadLength, LengthBefore, ImmediateLength, Instruction, s
<1> QED
  BY <1>1, <1>2 DEF s

LEMMA InstructionIs ==
    ASSUME NEW op, NEW dst, NEW src
    PROVE  /\ Instruction(op, dst, src).op = op
           /\ Instruction(op, dst, src).dst = dst
           /\ Instruction(op, dst, src).src = src
           /\ \A op2, dst2, src2 : Instruction(op, dst, src) = Instruction(op2, dst2, src2)
                  <=> op = op2 /\ dst = dst2 /\ src = src2
           /\ op # "movzx" => Effect(Instruction(op, dst, src)) = Instruction(op, dst, src)
           /\ Effect(Undefined) = Undefined
           /\ op # "undefined" => Instruction(op, dst, src) # Undefined
BY DEF Instruction, Effect, Undefined

Judged(i, r, wrong) ==
    r.error = "OK" => (Effect(Decode(WithoutEnd(r))) = Effect(i) <=> ~wrong)

(* The property after a call is a judgement on its answer.                  *)
LEMMA Verdict ==
    ASSUME NEW f, NEW i, NEW r, Called(f, i, r), Judged(i, r, Misencoded')
    PROVE  DecodesAsAsked'
BY DEF Called, Judged, DecodesAsAsked, Written, WithoutEnd

(* A refusal is not judged.                                                 *)
LEMMA Unjudged ==
    ASSUME NEW i, NEW error \in Errors \cup {"none"}, NEW wrong
    PROVE  Judged(i, Refused(error), wrong)
BY DEF Judged, Refused, Errors

-----------------------------------------------------------------------------
(* What is wrong with a call.                                               *)

LEMMA KindsDiffer ==
    /\ \A r : Reg(r).kind = "reg" /\ SizeOf(Reg(r)) = r.size /\ NamedIn(Reg(r)) = {r}
    /\ \A v : Imm(v).kind = "imm" /\ SizeOf(Imm(v)) = 0 /\ NamedIn(Imm(v)) = {}
    /\ \A n : Condition(n).kind = "condition" /\ SizeOf(Condition(n)) = 0 /\ NamedIn(Condition(n)) = {}
    /\ Nothing.kind = "nothing" /\ SizeOf(Nothing) = 0 /\ NamedIn(Nothing) = {}
    /\ \A r1, r2 : Reg(r1) = Reg(r2) <=> r1 = r2
    /\ \A v1, v2 : Imm(v1) = Imm(v2) <=> v1 = v2
    /\ \A n1, n2 : Condition(n1) = Condition(n2) <=> n1 = n2
BY DEF Reg, Imm, Condition, Nothing, SizeOf, NamedIn

HighIn(i) == \E r \in Named(i) : r.high

(* What can be wrong with a call without memory operand.                    *)
LEMMA NoMemoryMisencoded ==
    ASSUME NEW f, NEW op, NEW a, NEW b, NEW r, Called(f, Instruction(op, a, b), r),
           a.kind # "mem", b.kind # "mem"
    PROVE  Misencoded' <=>
               \/ HighIn(Instruction(op, a, b)) /\ NeedsRex(Instruction(op, a, b))
               \/ f = "mov_reg_imm32" /\ SizeOf(a) = 8
               \/ op = "movzx" /\ SizeOf(a) = 1
               \/ f \in {"sete", "setne"}
<1> DEFINE i == Instruction(op, a, b)
<1>1. call' = f /\ asked' = i /\ i.op = op /\ i.dst = a /\ i.src = b
  BY InstructionIs DEF Called
<1> HIDE DEF i
<1>2. MemoryOperands' = {}
  BY <1>1 DEF MemoryOperands
<1>3. ~BaseNeedsMore' /\ ~WidenedByBase' /\ ~BaseTooWide' /\ ~IndexIsNone' /\ ~DisplacementLost'
  BY <1>2 DEF BaseNeedsMore, WidenedByBase, BaseTooWide, IndexIsNone, DisplacementLost
<1>4. HighLost' <=> HighIn(i) /\ NeedsRex(i)
  BY <1>1, <1>2 DEF HighLost, HighIn
<1>5. /\ ImmediateTooShort' <=> f = "mov_reg_imm32" /\ SizeOf(a) = 8
      /\ ZeroExtendsToByte' <=> op = "movzx" /\ SizeOf(a) = 1
      /\ WrongCondition' <=> f \in {"sete", "setne"}
  BY <1>1 DEF ImmediateTooShort, ZeroExtendsToByte, WrongCondition
<1> QED
  BY <1>3, <1>4, <1>5 DEF Misencoded, i

-----------------------------------------------------------------------------
(* Descriptors and their opcodes.                                           *)

LEMMA OneByte ==
    ASSUME NEW code \in Byte, code \notin {\h0F, \h66} \cup \h40 .. \h4F
    PROVE  Opcodes(<<code>>) /\ CodeOf(<<code>>) = code
<1> DEFINE s == <<code>>
<1>1. s \in Seq(Byte) /\ Len(s) = 1 /\ s[1] = code
  BY Literal
<1> HIDE DEF s
<1>2. Opcodes(s) /\ CodeOf(s) = code
  BY <1>1 DEF Opcodes, CodeOf
<1> QED
  BY <1>2 DEF s

(* A second opcode byte may be any byte.                                    *)
LEMMA TwoBytes ==
    ASSUME NEW code \in Byte
    PROVE  Opcodes(<<\h0F, code>>) /\ CodeOf(<<\h0F, code>>) = 256 + code
<1> DEFINE s == <<\h0F, code>>
<1>1. s \in Seq(Byte) /\ Len(s) = 2 /\ s[1] = \h0F /\ s[2] = code
  <2>1. \h0F \in Byte
    BY DEF Byte
  <2> QED
    BY <2>1, Literal
<1> HIDE DEF s
<1>2. Opcodes(s) /\ CodeOf(s) = 256 + code
  BY <1>1 DEF Opcodes, CodeOf
<1> QED
  BY <1>2 DEF s

(* The first of two opcodes, for bytes and for other sizes.                 *)
Bases == {\h02, \h0A, \h12, \h22, \h2A, \h32, \h3A, \h80, \h84, \h88, \h8A, \hC0, \hD0, \hF6, \hFE}

(* The opcodes of an operation, for bytes and for other sizes.              *)
LEMMA SizedOpcodes ==
    ASSUME NEW base \in Bases, NEW size
    PROVE  LET o == <<SizeOpcode(base, size)>>
           IN  Opcodes(o) /\ CodeOf(o) = IF size = 1 THEN base ELSE base + 1
<1> DEFINE code == SizeOpcode(base, size)
<1>1. /\ code \in Byte /\ code \notin {\h0F, \h66} \cup \h40 .. \h4F
      /\ code = IF size = 1 THEN base ELSE base + 1
  BY DEF SizeOpcode, Flag, Byte, Bases
<1> HIDE DEF code
<1> QED
  BY <1>1, OneByte DEF code

(* A processor that has read one of them.                                   *)
LEMMA SizedRead ==
    ASSUME NEW base \in Bases, NEW size, NEW s,
           Code(s) = IF size = 1 THEN base ELSE base + 1
    PROVE  /\ Sized(s, base) /\ HasModRM(s)
           /\ ReadSize(s) = IF size = 1 THEN 1 ELSE OperandSize(s)
<1>1. base % 2 = 0 /\ (base + 1) % 2 = 1
  BY DEF Bases
<1>2. Sized(s, base)
  BY DEF Sized
<1>3. HasModRM(s)
  BY DEF HasModRM, Bases
<1> QED
  BY <1>1, <1>2, <1>3 DEF ReadSize

(* Opcodes are bytes, at most two.                                          *)
LEMMA OpcodesUpto ==
    ASSUME NEW s, Opcodes(s)
    PROVE  Upto(s, 2)
<1> DEFINE l == Len(s)
<1>1. s \in Seq(Byte) /\ l \in {1, 2}
  BY DEF Opcodes
<1> HIDE DEF l
<1>2. l <= 2
  BY <1>1
<1> QED
  BY <1>1, <1>2 DEF Upto, l

(* What a function has put into a descriptor: two registers, or one and a   *)
(* digit.                                                                   *)
Filled(d, rm, mode, opcodes) ==
    /\ Encodable(d) /\ Opcodes(d.opcodes)
    /\ d.rm = rm /\ d.base = NoInfo /\ d.index = NoInfo
    /\ d.mode = mode /\ d.opcodes = opcodes
    /\ d.has_modRM /\ ~d.has_sib
WithReg(d, reg, rm, mode, opcodes) ==
    /\ Filled(d, rm, mode, opcodes)
    /\ d.reg = reg /\ d.imm_bytes = <<>> /\ d.digit = 0
    /\ d.emit_66h <=> reg.size = 2
WithDigit(d, digit, rm, mode, opcodes, is_word, immediate) ==
    /\ Filled(d, rm, mode, opcodes)
    /\ d.reg = NoInfo /\ d.imm_bytes = immediate /\ d.digit = digit
    /\ d.emit_66h = is_word

(* RegRm and DigitRm fill in what their parameters say.                     *)
LEMMA RegRmIs ==
    ASSUME NEW reg \in Info, NEW rm \in Info, NEW mode \in DOMAIN Modes,
           NEW opcodes, Opcodes(opcodes)
    PROVE  WithReg(RegRm(reg, rm, mode, opcodes), reg, rm, mode, opcodes)
<1>1. Encodable(RegRm(reg, rm, mode, opcodes))
  BY OpcodesUpto, RegRmEncodable
<1> QED
  BY <1>1 DEF RegRm, Descriptor, WithReg, Filled

LEMMA DigitRmIs ==
    ASSUME NEW digit \in 0 .. 7, NEW rm \in Info, NEW mode \in DOMAIN Modes,
           NEW opcodes, Opcodes(opcodes), NEW is_word, NEW immediate, Upto(immediate, 4)
    PROVE  /\ WithDigit(DigitRm(digit, rm, mode, opcodes, is_word),
                        digit, rm, mode, opcodes, is_word, <<>>)
           /\ WithDigit([DigitRm(digit, rm, mode, opcodes, is_word) EXCEPT
                            !.imm_bytes = immediate],
                        digit, rm, mode, opcodes, is_word, immediate)
<1>1. /\ Encodable(DigitRm(digit, rm, mode, opcodes, is_word))
      /\ Encodable([DigitRm(digit, rm, mode, opcodes, is_word) EXCEPT !.imm_bytes = immediate])
  BY OpcodesUpto, DigitRmEncodable
<1> QED
  BY <1>1 DEF DigitRm, Descriptor, WithDigit, Filled

(* When there is a REX prefix.                                              *)
LEMMA RexThere ==
    ASSUME NEW d, Encodable(d), d.base = NoInfo, d.index = NoInfo
    PROVE  RexOf(d) # 0 <=>
               \/ 8 \in {d.reg.size, d.rm.size}
               \/ d.reg.num >= 8 \/ d.reg.needs_rex
               \/ d.rm.num >= 8 \/ d.rm.needs_rex
<1> DEFINE rex == RexOf(d)
<1>1. d.reg \in Info /\ d.rm \in Info /\ d.index \in Info /\ d.base \in Info
  BY DEF Encodable
<1>2. rex = rex_value(d.reg, d.rm, d.index, d.base)
  BY DEF RexOf
<1>3. ~(NoInfo.num >= 8) /\ ~NoInfo.needs_rex
  BY DEF NoInfo
<1> HIDE DEF rex
<1>4. rex = 0 <=>
          /\ 8 \notin {d.reg.size, d.rm.size}
          /\ ~(d.reg.num >= 8) /\ ~(d.index.num >= 8) /\ ~(d.base.num >= 8) /\ ~(d.rm.num >= 8)
          /\ ~d.reg.needs_rex /\ ~d.rm.needs_rex /\ ~d.index.needs_rex /\ ~d.base.needs_rex
  BY <1>1, <1>2, RexBits
<1> QED
  BY <1>3, <1>4 DEF rex

-----------------------------------------------------------------------------
(* Registers, digits and immediates.                                        *)

LEMMA StreamIs ==
    ASSUME NEW d, Encodable(d), Opcodes(d.opcodes)
    PROVE  Opened(WithoutEnd(emit_encode(d)), Stream(d), d)
BY OpenedIs DEF Stream

(* Without memory operand the lengths always agree.                         *)
LEMMA DirectDecoded ==
    ASSUME NEW d, Direct(d), NEW op, NEW dst, NEW src,
           Read(Stream(d)) = Instruction(op, dst, src), HasModRM(Stream(d)),
           ImmediateLength(src) = Len(d.imm_bytes)
    PROVE  Decode(WithoutEnd(emit_encode(d))) = Instruction(op, dst, src)
<1> DEFINE w == WithoutEnd(emit_encode(d))
           s == Stream(d)
           l == Len(d.imm_bytes)
<1>1. Opened(w, s, d)
  BY StreamIs DEF Direct
<1>2. DirectRead(w, s, d)
  BY <1>1, DirectIs
<1>3. Len(w) = ImmediateAt(s) - 1 + l
  BY <1>2 DEF DirectRead, Ends
<1>4. LengthBefore(s) = ImmediateAt(s) - 1
  BY DEF LengthBefore
<1>5. s = w \o Pad
  BY DEF Stream
<1> HIDE DEF w, s, l
<1>6. Read(w \o Pad) = Instruction(op, dst, src)
  BY <1>5 DEF s
<1>7. Decode(w) = IF LengthBefore(s) + ImmediateLength(src) = Len(w)
                    THEN Instruction(op, dst, src) ELSE Undefined
  BY <1>5, <1>6, DecodedIs
<1>8. LengthBefore(s) + ImmediateLength(src) = Len(w)
  BY <1>3, <1>4 DEF l
<1> QED
  BY <1>7, <1>8 DEF w

(* What a register operand is read as, when it is and when it is not the    *)
(* register asked for.                                                      *)
LEMMA NeedsRexIs ==
    ASSUME NEW op, NEW a, NEW b
    PROVE  NeedsRex(Instruction(op, a, b)) <=>
               \/ \E r \in NamedIn(a) \cup NamedIn(b) : Asks(r)
               \/ 8 \in {SizeOf(a), SizeOf(b)}
BY InstructionIs DEF NeedsRex, Named, Asks

(* Which operand names ah, ch, dh or bh.                                    *)
LEMMA HighInIs ==
    ASSUME NEW op, NEW a, NEW b
    PROVE  HighIn(Instruction(op, a, b)) <=> \E r \in NamedIn(a) \cup NamedIn(b) : r.high
BY InstructionIs DEF HighIn, Named

Read2(s, op) == Read(s) = Instruction(op, RegOperand(s, ReadSize(s)), RmOperand(s, ReadSize(s)))

(* Two registers of the same size: wrong exactly when one of them is high   *)
(* and there is a REX prefix.                                               *)
LEMMA RegRegJudged ==
    ASSUME NEW f, f \notin {"mov_reg_imm32", "sete", "setne"},
           NEW op, op # "movzx", NEW base \in Bases,
           \A s : Sized(s, base) => Read2(s, op),
           NEW destination \in Register, NEW source \in Register,
           destination.size = source.size,
           NEW d, WithReg(d, reg_info(destination), reg_info(source), "DIRECT",
                          <<SizeOpcode(base, destination.size)>>),
           Called(f, Instruction(op, Reg(destination), Reg(source)), emit_encode(d))
    PROVE  DecodesAsAsked'
<1> DEFINE i == Instruction(op, Reg(destination), Reg(source))
           dst == reg_info(destination)
           src == reg_info(source)
           s == Stream(d)
           w == WithoutEnd(emit_encode(d))
           rex == RexOf(d)
           size == destination.size
           gd == General(dst.num, size, rex)
           gs == General(src.num, size, rex)
<1>1. /\ Encodable(d) /\ Opcodes(d.opcodes) /\ Direct(d)
      /\ d.reg = dst /\ d.rm = src /\ d.digit = 0 /\ d.imm_bytes = <<>>
      /\ d.opcodes = <<SizeOpcode(base, size)>>
      /\ d.emit_66h <=> dst.size = 2
  BY DEF WithReg, Filled, Direct
<1>2. /\ dst.size = size /\ src.size = size /\ size \in Sizes
      /\ dst.num >= 8 \/ dst.needs_rex <=> Asks(destination)
      /\ src.num >= 8 \/ src.needs_rex <=> Asks(source)
  BY RegisterInfo
<1>3. rex # 0 <=> size = 8 \/ Asks(destination) \/ Asks(source)
  <2>1. rex # 0 <=> \/ 8 \in {d.reg.size, d.rm.size}
                    \/ d.reg.num >= 8 \/ d.reg.needs_rex
                    \/ d.rm.num >= 8 \/ d.rm.needs_rex
    BY <1>1, RexThere DEF WithReg, Filled
  <2> HIDE DEF rex
  <2> QED
    BY <1>1, <1>2, <2>1
<1>4. DirectRead(w, s, d)
  BY <1>1, StreamIs, DirectIs
<1>5. Code(s) = IF size = 1 THEN base ELSE base + 1
  BY <1>1, <1>4, SizedOpcodes DEF DirectRead
<1>6. Sized(s, base) /\ HasModRM(s) /\ ReadSize(s) = IF size = 1 THEN 1 ELSE OperandSize(s)
  BY <1>5, SizedRead
<1>7. /\ OperandSize(s) = IF 8 \in {d.reg.size, d.rm.size} THEN 8 ELSE IF d.emit_66h THEN 2 ELSE 4
      /\ \A z : RegOperand(s, z) = Reg(General(d.reg.num, z, rex))
      /\ \A z : RmOperand(s, z) = Reg(General(d.rm.num, z, rex))
  BY <1>1, <1>4 DEF DirectRead, RexTells
<1>8. ReadSize(s) = size
  BY <1>1, <1>2, <1>6, <1>7 DEF Sizes
<1>9. Read(s) = Instruction(op, Reg(gd), Reg(gs))
  BY <1>1, <1>6, <1>7, <1>8 DEF Read2
<1> HIDE DEF rex, s, w, gd, gs
<1>10. Decode(w) = Instruction(op, Reg(gd), Reg(gs))
  <2>1. ImmediateLength(Reg(gs)) = Len(d.imm_bytes)
    BY <1>1, KindsDiffer, Literal DEF ImmediateLength
  <2> QED
    BY <1>1, <1>6, <1>9, <2>1, DirectDecoded DEF s, w
<1>11. /\ gd = destination <=> ~(destination.high /\ rex # 0)
       /\ gs = source <=> ~(source.high /\ rex # 0)
  <2>1. gd = General(dst.num, destination.size, rex) /\ gs = General(src.num, source.size, rex)
    BY DEF gd, gs
  <2> QED
    BY <1>3, <2>1, GeneralIs
<1>12. Effect(Decode(w)) = Effect(i) <=> gd = destination /\ gs = source
  BY <1>10, InstructionIs, KindsDiffer
<1>13. Misencoded' <=> HighIn(i) /\ NeedsRex(i)
  BY NoMemoryMisencoded, KindsDiffer
<1>14. /\ HighIn(i) <=> destination.high \/ source.high
       /\ NeedsRex(i) <=> rex # 0
  BY <1>3, NeedsRexIs, HighInIs, KindsDiffer
<1>15. Judged(i, emit_encode(d), Misencoded')
  BY <1>11, <1>12, <1>13, <1>14 DEF Judged, w
<1> QED
  BY <1>15, Verdict

(* A register and a digit, and what follows them.                           *)
LEMMA DigitRead ==
    ASSUME NEW d, NEW digit, NEW rm, NEW opcodes, NEW word, NEW immediate,
           WithDigit(d, digit, rm, "DIRECT", opcodes, word, immediate)
    PROVE  LET s == Stream(d)
           IN  /\ Code(s) = CodeOf(opcodes) /\ Digit(s) = digit
               /\ OperandSize(s) = IF rm.size = 8 THEN 8 ELSE IF word THEN 2 ELSE 4
               /\ Following(s, Len(immediate)) = Imm(immediate)
               /\ \A size : RmOperand(s, size) = Reg(General(rm.num, size, RexOf(d)))
<1> DEFINE s == Stream(d)
           w == WithoutEnd(emit_encode(d))
<1>1. /\ Encodable(d) /\ Opcodes(d.opcodes) /\ Direct(d)
      /\ d.reg = NoInfo /\ d.rm = rm /\ d.digit = digit /\ d.imm_bytes = immediate
      /\ d.opcodes = opcodes /\ d.emit_66h = word
  BY DEF WithDigit, Filled, Direct
<1>2. DirectRead(w, s, d)
  BY <1>1, StreamIs, DirectIs
<1> HIDE DEF s, w
<1>3. /\ Code(s) = CodeOf(opcodes) /\ Digit(s) = digit
      /\ OperandSize(s) = IF 8 \in {NoInfo.size, rm.size} THEN 8 ELSE IF word THEN 2 ELSE 4
      /\ \A size : RmOperand(s, size) = Reg(General(rm.num, size, RexOf(d)))
      /\ SubSeq(s, ImmediateAt(s), ImmediateAt(s) + Len(immediate) - 1) = immediate
  BY <1>1, <1>2 DEF DirectRead, RexTells, Ends
<1>4. NoInfo.size = 0
  BY DEF NoInfo
<1>5. Following(s, Len(immediate)) = Imm(immediate)
  BY <1>3 DEF Following
<1> QED
  BY <1>3, <1>4, <1>5 DEF s

(* One register and something that is neither register nor memory: wrong    *)
(* exactly when what is read is not what was asked for (read and src), as   *)
(* with sete and setne. A high register alone brings no prefix.             *)
LEMMA OneRegJudged ==
    ASSUME NEW f, f # "mov_reg_imm32", NEW op, op # "movzx",
           NEW destination \in Register, NEW src, NEW read,
           src.kind # "mem", NamedIn(src) = {}, SizeOf(src) = 0,
           f \in {"sete", "setne"} <=> read # src,
           NEW d, NEW digit, NEW opcodes, NEW word, NEW immediate,
           WithDigit(d, digit, reg_info(destination), "DIRECT", opcodes, word, immediate),
           Read(Stream(d)) = Instruction(op, RmOperand(Stream(d), destination.size), read),
           HasModRM(Stream(d)), ImmediateLength(read) = Len(immediate),
           Called(f, Instruction(op, Reg(destination), src), emit_encode(d))
    PROVE  DecodesAsAsked'
<1> DEFINE i == Instruction(op, Reg(destination), src)
           dst == reg_info(destination)
           s == Stream(d)
           w == WithoutEnd(emit_encode(d))
           rex == RexOf(d)
           gd == General(dst.num, destination.size, rex)
<1>1. /\ Encodable(d) /\ Opcodes(d.opcodes) /\ Direct(d)
      /\ d.reg = NoInfo /\ d.rm = dst /\ d.imm_bytes = immediate
  BY DEF WithDigit, Filled, Direct
<1>2. /\ dst.size = destination.size
      /\ dst.num >= 8 \/ dst.needs_rex <=> Asks(destination)
  BY RegisterInfo
<1>3. rex # 0 <=> destination.size = 8 \/ Asks(destination)
  <2>1. rex # 0 <=> \/ 8 \in {d.reg.size, d.rm.size}
                    \/ d.reg.num >= 8 \/ d.reg.needs_rex
                    \/ d.rm.num >= 8 \/ d.rm.needs_rex
    BY <1>1, RexThere DEF WithDigit, Filled
  <2>2. NoInfo.size = 0 /\ ~(NoInfo.num >= 8) /\ ~NoInfo.needs_rex
    BY DEF NoInfo
  <2> HIDE DEF rex
  <2> QED
    BY <1>1, <1>2, <2>1, <2>2
<1>4. Read(s) = Instruction(op, Reg(gd), read)
  BY DigitRead
<1> HIDE DEF rex, s, w, gd
<1>5. Decode(w) = Instruction(op, Reg(gd), read)
  BY <1>1, <1>4, DirectDecoded DEF s, w
<1>6. gd = destination <=> ~(destination.high /\ rex # 0)
  BY <1>3, GeneralIs DEF gd
<1>7. Effect(Decode(w)) = Effect(i) <=> gd = destination /\ read = src
  BY <1>5, InstructionIs, KindsDiffer
<1>8. Misencoded' <=> \/ HighIn(i) /\ NeedsRex(i)
                      \/ f \in {"sete", "setne"}
  BY NoMemoryMisencoded, KindsDiffer
<1>9. /\ HighIn(i) <=> destination.high
      /\ NeedsRex(i) <=> rex # 0
  BY <1>3, NeedsRexIs, HighInIs, KindsDiffer
<1>10. Judged(i, emit_encode(d), Misencoded')
  BY <1>6, <1>7, <1>8, <1>9 DEF Judged, w
<1> QED
  BY <1>10, Verdict

-----------------------------------------------------------------------------
(* A register and memory.                                                   *)

LEMMA MemoryIs ==
    ASSUME NEW width, NEW base, NEW index, NEW scale, NEW displacement
    PROVE  LET m == Mem(width, base, index, scale, displacement)
           IN  /\ m.kind = "mem" /\ SizeOf(m) = width
               /\ m.base = base /\ m.index = index /\ m.displacement = displacement
               /\ NamedIn(m) = {base, index} \ {NoRegister}
               /\ \A width2, base2, index2, scale2, displacement2 :
                      m = Mem(width2, base2, index2, scale2, displacement2) <=>
                          /\ width = width2 /\ base = base2 /\ index = index2
                          /\ scale = scale2 /\ displacement = displacement2
               /\ [m EXCEPT !.width = 0] = Mem(0, base, index, scale, displacement)
BY DEF Mem, SizeOf, NamedIn

LeaSibNames == {"lea_sib", "lea_sib_disp8", "lea_sib_disp32"}
Disp32Names == {"lea_sib_disp32", "lea_reg_disp32"}

(* What can be wrong with a call that has a memory operand.                 *)
LEMMA MemoryMisencoded ==
    ASSUME NEW f, NEW op, NEW a, NEW b, NEW r, Called(f, Instruction(op, a, b), r),
           NEW m, m.kind = "mem",
           \/ a = m /\ b.kind # "mem"
           \/ b = m /\ a.kind # "mem",
           f \notin {"mov_reg_imm32", "sete", "setne"}
    PROVE  Misencoded' <=>
               \/ f \notin LeaSibNames /\ m.base.family % 8 = 4
               \/ f \notin LeaSibNames /\ m.base.family % 8 = 5 /\ op # "lea"
               \/ /\ f \notin LeaSibNames /\ m.base.size = 8
                  /\ \E size \in {SizeOf(a), SizeOf(b)} : size \in {2, 4}
                  /\ op = "movzx" => SizeOf(a) = 2
               \/ m.base.size = 4
               \/ m.index.family = 4
               \/ f \in Disp32Names /\ \E i \in 2 .. 4 : m.displacement[i] # 0
               \/ HighIn(Instruction(op, a, b))
                  /\ (NeedsRex(Instruction(op, a, b)) \/ m.base.size = 8)
               \/ op = "movzx" /\ SizeOf(a) = 1
<1> DEFINE i == Instruction(op, a, b)
<1>1. call' = f /\ asked' = i /\ i.op = op /\ i.dst = a /\ i.src = b
  BY InstructionIs DEF Called
<1> HIDE DEF i
<1>2. MemoryOperands' = {m}
  BY <1>1 DEF MemoryOperands
<1>3. LeaSib' <=> f \in LeaSibNames
  BY <1>1 DEF LeaSib, LeaSibNames
<1>4. BaseNeedsMore' <=>
          \/ f \notin LeaSibNames /\ m.base.family % 8 = 4
          \/ f \notin LeaSibNames /\ m.base.family % 8 = 5 /\ op # "lea"
  BY <1>1, <1>2, <1>3 DEF BaseNeedsMore
<1>5. WidenedByBase' <=>
          /\ f \notin LeaSibNames /\ m.base.size = 8
          /\ \E size \in {SizeOf(a), SizeOf(b)} : size \in {2, 4}
          /\ op = "movzx" => SizeOf(a) = 2
  BY <1>1, <1>2, <1>3 DEF WidenedByBase
<1>6. /\ BaseTooWide' <=> m.base.size = 4
      /\ IndexIsNone' <=> m.index.family = 4
      /\ DisplacementLost' <=> f \in Disp32Names /\ \E k \in 2 .. 4 : m.displacement[k] # 0
  BY <1>1, <1>2 DEF BaseTooWide, IndexIsNone, DisplacementLost, Disp32Names
<1>7. HighLost' <=> HighIn(i) /\ (NeedsRex(i) \/ m.base.size = 8)
  BY <1>1, <1>2 DEF HighLost, HighIn
<1>8. /\ ~ImmediateTooShort' /\ ~WrongCondition'
      /\ ZeroExtendsToByte' <=> op = "movzx" /\ SizeOf(a) = 1
  BY <1>1 DEF ImmediateTooShort, ZeroExtendsToByte, WrongCondition
<1> QED
  BY <1>4, <1>5, <1>6, <1>7, <1>8 DEF Misencoded, i

(* With a memory operand the lengths agree unless the base needs more.      *)
LEMMA IndirectDecoded ==
    ASSUME NEW d, Indirect(d), NEW op, NEW dst, NEW src, src.kind # "imm",
           Read(Stream(d)) = Instruction(op, dst, src), HasModRM(Stream(d))
    PROVE  Decode(WithoutEnd(emit_encode(d))) =
               IF NeedsMore(d) THEN Undefined ELSE Instruction(op, dst, src)
<1> DEFINE w == WithoutEnd(emit_encode(d))
           s == Stream(d)
           n == Len(w)
           before == ImmediateAt(s) - 1
<1>1. Opened(w, s, d)
  BY StreamIs DEF Indirect
<1>2. IndirectRead(w, s, d) /\ w \in Seq(Byte)
  BY <1>1, IndirectIs DEF Opened
<1>3. /\ NeedsMore(d) => n < before
      /\ ~NeedsMore(d) => n = before
      /\ ImmediateAt(s) \in Nat /\ n \in Nat
  BY <1>2, LenProperties DEF IndirectRead
<1>4. LengthBefore(s) = before
  BY DEF LengthBefore
<1>5. s = w \o Pad
  BY DEF Stream
<1> HIDE DEF w, s, n
<1>6. Decode(w) = IF LengthBefore(s) + ImmediateLength(src) = n
                    THEN Instruction(op, dst, src) ELSE Undefined
  <2>1. Read(w \o Pad) = Instruction(op, dst, src)
    BY <1>5 DEF s
  <2> QED
    BY <1>5, <2>1, DecodedIs DEF n
<1>7. LengthBefore(s) + ImmediateLength(src) = n <=> ~NeedsMore(d)
  BY <1>3, <1>4 DEF ImmediateLength
<1> QED
  BY <1>6, <1>7 DEF w

(* A base of 64 bits makes all that is not a byte one of 64 bits.           *)
WideOr1(size) == IF size = 1 THEN 1 ELSE 8

(* A register of 64 bits is read back from its number.                      *)
LEMMA WideIs ==
    ASSUME NEW r \in Register, r.size = 8
    PROVE  Wide(reg_info(r).num) = r /\ reg_info(r).num = r.family /\ r.family \in 0 .. 15
<1>1. ~r.high /\ r = [family |-> r.family, size |-> r.size, high |-> r.high] /\ r.high \in BOOLEAN
  BY RegisterInfo
<1>2. reg_info(r).num = r.family /\ r.family \in 0 .. 15
  BY <1>1, RegisterInfo DEF Register
<1> QED
  BY <1>1, <1>2 DEF Wide

(* With a REX prefix a register is read back if it is not high and the size *)
(* is its own, not the address's.                                           *)
LEMMA GeneralWide ==
    ASSUME NEW r \in Register, NEW rex, rex # 0, NEW size, size \in {r.size, 8}
    PROVE  General(reg_info(r).num, size, rex) = r <=> size = r.size /\ ~r.high
<1>1. CASE size = r.size
  BY <1>1, GeneralIs
<1>2. CASE size # r.size
  <2>1. General(reg_info(r).num, size, rex).size = size
    BY <1>2 DEF General
  <2> QED
    BY <1>2, <2>1
<1> QED
  BY <1>1, <1>2

(* What is read, the base being a register of 64 bits.                      *)
AddressRead(d, m) ==
    LET s == Stream(d)
    IN  /\ Code(s) = CodeOf(d.opcodes)
        /\ Indirect(d)
        /\ OperandSize(s) = 8
        /\ \A size : RmOperand(s, size).kind = "mem"
        /\ NeedsMore(d) <=> m.family % 8 = 4 \/ m.family % 8 = 5
        /\ ~NeedsMore(d) => \A size : RmOperand(s, size) = At(size, m)

(* An address is read back unless it needs more bytes.                      *)
LEMMA AddressReadIs ==
    ASSUME NEW m \in Register, m.size = 8, NEW opcodes,
           NEW d, Filled(d, reg_info(m), "INDIRECT", opcodes), d.imm_bytes = <<>>
    PROVE  AddressRead(d, m)
<1> DEFINE s == Stream(d)
           w == WithoutEnd(emit_encode(d))
           n == reg_info(m).num
<1>1. /\ Encodable(d) /\ Opcodes(d.opcodes) /\ d.mode = "INDIRECT" /\ d.base = NoInfo
      /\ d.has_modRM /\ ~d.has_sib
      /\ d.rm = reg_info(m) /\ d.imm_bytes = <<>>
  BY DEF Filled
<1>2. Indirect(d)
  BY <1>1 DEF Indirect
<1>3. IndirectRead(w, s, d)
  BY <1>1, <1>2, StreamIs, IndirectIs
<1>4. reg_info(m).size = 8 /\ Wide(n) = m /\ n = m.family
  BY RegisterInfo, WideIs
<1>5. Disp(d) = <<0, 0, 0, 0>>
  BY <1>1 DEF Disp
<1> HIDE DEF w, s, n
<1>6. NeedsMore(d) <=> m.family % 8 = 4 \/ m.family % 8 = 5
  BY <1>1, <1>4 DEF NeedsMore, n
<1>7. ~NeedsMore(d) => \A size : RmOperand(s, size) = At(size, m)
  BY <1>1, <1>3, <1>4, <1>5 DEF IndirectRead, At, n
<1>8. /\ OperandSize(s) = 8
      /\ \A size : RmOperand(s, size).kind = "mem"
      /\ Code(s) = CodeOf(d.opcodes)
  BY <1>1, <1>3, <1>4 DEF IndirectRead, RexTells
<1> QED
  BY <1>2, <1>6, <1>7, <1>8 DEF AddressRead, s

(* The reg field being a register's.                                        *)
MemoryRead(d, reg, m) ==
    LET s == Stream(d)
    IN  /\ AddressRead(d, m)
        /\ \A size : /\ RegOperand(s, size).kind = "reg"
                     /\ size \in {reg.size, 8} =>
                            (RegOperand(s, size) = Reg(reg) <=> size = reg.size /\ ~reg.high)
        /\ ~reg.high => RegOperand(s, 8) = Reg(Wide(reg.family))

(* A register and an address are read back; the operand size is widened by  *)
(* the 64 bits of the address.                                              *)
LEMMA MemoryReadIs ==
    ASSUME NEW reg \in Register, NEW m \in Register, m.size = 8, NEW opcodes,
           NEW d, WithReg(d, reg_info(reg), reg_info(m), "INDIRECT", opcodes)
    PROVE  MemoryRead(d, reg, m)
<1> DEFINE s == Stream(d)
           w == WithoutEnd(emit_encode(d))
           rex == RexOf(d)
<1>1. /\ Encodable(d) /\ Opcodes(d.opcodes)
      /\ d.reg = reg_info(reg) /\ d.rm = reg_info(m) /\ d.digit = 0 /\ d.imm_bytes = <<>>
  BY DEF WithReg, Filled
<1>2. AddressRead(d, m)
  BY AddressReadIs DEF WithReg
<1>3. IndirectRead(w, s, d)
  BY <1>1, <1>2, StreamIs, IndirectIs DEF AddressRead
<1>4. reg_info(m).size = 8
  BY RegisterInfo
<1>5. rex # 0
  <2>1. 8 \in {d.reg.size, d.rm.size}
    BY <1>1, <1>4
  <2> QED
    BY <1>1, <2>1, RexThere DEF WithReg, Filled
<1> HIDE DEF w, s, rex
<1>6. \A size : RegOperand(s, size) = Reg(General(reg_info(reg).num, size, rex))
  BY <1>1, <1>3 DEF IndirectRead, RexTells, rex
<1>7. ASSUME NEW size
      PROVE  /\ RegOperand(s, size).kind = "reg"
             /\ size \in {reg.size, 8} =>
                    (RegOperand(s, size) = Reg(reg) <=> size = reg.size /\ ~reg.high)
  <2> DEFINE g == General(reg_info(reg).num, size, rex)
  <2>1. size \in {reg.size, 8} => (g = reg <=> size = reg.size /\ ~reg.high)
    BY <1>5, GeneralWide
  <2>2. RegOperand(s, size) = Reg(g)
    BY <1>6
  <2> HIDE DEF g
  <2> QED
    BY <2>1, <2>2, KindsDiffer
<1>8. ~reg.high => RegOperand(s, 8) = Reg(Wide(reg.family))
  <2>1. RegOperand(s, 8) = Reg(General(reg_info(reg).num, 8, rex))
    BY <1>6
  <2>2. ~reg.high => reg_info(reg).num = reg.family
    BY RegisterInfo
  <2>3. \A n : General(n, 8, rex) = Wide(n)
    BY DEF General, Wide
  <2> QED
    BY <2>1, <2>2, <2>3
<1> QED
  BY <1>2, <1>7, <1>8 DEF MemoryRead, s

(* A register and memory, in both directions: wrong for the bases that need *)
(* more, for registers of 16 and 32 bits, and for high ones, as the address *)
(* brings a prefix.                                                         *)
LEMMA RegMemJudged ==
    ASSUME NEW f, f \notin {"mov_reg_imm32", "sete", "setne"} \cup LeaSibNames \cup Disp32Names,
           NEW op, op \notin {"movzx", "lea", "undefined"}, NEW base \in Bases,
           NEW reg \in Register, NEW m \in Register, m.size = 8, NEW back \in BOOLEAN,
           \A s : Sized(s, base) => Read(s) =
               LET size == ReadSize(s)
               IN  IF back THEN Instruction(op, RmOperand(s, size), RegOperand(s, size))
                   ELSE Instruction(op, RegOperand(s, size), RmOperand(s, size)),
           NEW d, WithReg(d, reg_info(reg), reg_info(m), "INDIRECT",
                          <<SizeOpcode(base, reg.size)>>),
           Called(f, IF back THEN Instruction(op, At(reg.size, m), Reg(reg))
                     ELSE Instruction(op, Reg(reg), At(reg.size, m)), emit_encode(d))
    PROVE  DecodesAsAsked'
<1> DEFINE at == At(reg.size, m)
           i == IF back THEN Instruction(op, at, Reg(reg)) ELSE Instruction(op, Reg(reg), at)
           s == Stream(d)
           w == WithoutEnd(emit_encode(d))
           size == WideOr1(reg.size)
           x == RegOperand(s, size)
           y == RmOperand(s, size)
           more == m.family % 8 = 4 \/ m.family % 8 = 5
<1>1. MemoryRead(d, reg, m) /\ d.opcodes = <<SizeOpcode(base, reg.size)>>
  BY MemoryReadIs DEF WithReg, Filled
<1>2. /\ Code(s) = IF reg.size = 1 THEN base ELSE base + 1
      /\ Indirect(d) /\ OperandSize(s) = 8 /\ y.kind = "mem"
      /\ NeedsMore(d) <=> more
      /\ ~more => y = At(size, m)
      /\ x.kind = "reg" /\ (x = Reg(reg) <=> size = reg.size /\ ~reg.high)
  BY <1>1, SizedOpcodes DEF MemoryRead, AddressRead, WideOr1
<1>3. Sized(s, base) /\ HasModRM(s) /\ ReadSize(s) = size
  BY <1>2, SizedRead DEF WideOr1
<1>4. Read(s) = IF back THEN Instruction(op, y, x) ELSE Instruction(op, x, y)
  BY <1>3
<1>5. ~more => (y = at <=> size = reg.size)
  BY <1>2, MemoryIs DEF At
<1>6. /\ at.kind = "mem" /\ SizeOf(at) = reg.size /\ at.base = m /\ at.index = NoRegister
      /\ NamedIn(at) = {m}
  BY MemoryIs, InvalidIsNotNone DEF At
<1>7. ~m.high /\ ~(m.size = 4) /\ reg.size \in Sizes
  BY RegisterInfo
<1> HIDE DEF at, s, w, x, y
<1>8. Decode(w) = IF more THEN Undefined
                  ELSE IF back THEN Instruction(op, y, x) ELSE Instruction(op, x, y)
  BY <1>2, <1>3, <1>4, IndirectDecoded DEF s, w
<1>9. Effect(Decode(w)) = Effect(i) <=> ~more /\ size = reg.size /\ ~reg.high
  <2>1. CASE back
    BY <1>2, <1>5, <1>8, <2>1, InstructionIs
  <2>2. CASE ~back
    BY <1>2, <1>5, <1>8, <2>2, InstructionIs
  <2> QED
    BY <2>1, <2>2
<1>10. HighIn(i) <=> reg.high
  BY <1>6, <1>7, HighInIs, KindsDiffer
<1>11. Misencoded' <=> more \/ reg.size \in {2, 4} \/ reg.high
  <2>1. NoRegister.family # 4
    BY DEF NoRegister
  <2>2. /\ Reg(reg).kind # "mem" /\ SizeOf(Reg(reg)) = reg.size
        /\ f \notin {"mov_reg_imm32", "sete", "setne"} /\ op # "movzx" /\ op # "lea"
        /\ f \notin LeaSibNames /\ f \notin Disp32Names /\ m.size = 8
    BY KindsDiffer
  <2>3. CASE back
    <3>1. Called(f, Instruction(op, at, Reg(reg)), emit_encode(d)) /\ i = Instruction(op, at, Reg(reg))
      BY <2>3 DEF at
    <3> HIDE DEF i
    <3>2. Misencoded' <=>
              \/ m.family % 8 = 4
              \/ m.family % 8 = 5
              \/ \E z \in {SizeOf(at), SizeOf(Reg(reg))} : z \in {2, 4}
              \/ HighIn(i)
      BY <1>6, <1>7, <2>1, <2>2, <3>1, MemoryMisencoded
    <3> QED
      BY <1>6, <1>10, <2>2, <3>2
  <2>4. CASE ~back
    <3>1. Called(f, Instruction(op, Reg(reg), at), emit_encode(d)) /\ i = Instruction(op, Reg(reg), at)
      BY <2>4 DEF at
    <3> HIDE DEF i
    <3>2. Misencoded' <=>
              \/ m.family % 8 = 4
              \/ m.family % 8 = 5
              \/ \E z \in {SizeOf(Reg(reg)), SizeOf(at)} : z \in {2, 4}
              \/ HighIn(i)
      BY <1>6, <1>7, <2>1, <2>2, <3>1, MemoryMisencoded
    <3> QED
      BY <1>6, <1>10, <2>2, <3>2
  <2> QED
    BY <2>3, <2>4
<1>12. size = reg.size <=> reg.size \notin {2, 4}
  BY <1>7 DEF WideOr1, Sizes
<1>13. Judged(i, emit_encode(d), Misencoded')
  BY <1>9, <1>11, <1>12 DEF Judged, w
<1>14. Called(f, i, emit_encode(d))
  BY DEF at
<1> HIDE DEF i
<1> QED
  BY <1>13, <1>14, Verdict

(* A digit and memory.                                                      *)
LEMMA AddressDigit ==
    ASSUME NEW d, d.reg = NoInfo, Indirect(d)
    PROVE  Digit(Stream(d)) = d.digit
<1>1. IndirectRead(WithoutEnd(emit_encode(d)), Stream(d), d)
  BY StreamIs, IndirectIs DEF Indirect
<1> QED
  BY <1>1 DEF IndirectRead, RexTells

(* An operation on memory: wrong for the bases that need more and for 16    *)
(* and 32 bits.                                                             *)
LEMMA GroupMemJudged ==
    ASSUME NEW op \in GroupOperations, NEW m \in Register, m.size = 8, NEW ptr_size \in Sizes,
           NEW d, WithDigit(d, group_digit[op], reg_info(m), "INDIRECT",
                            <<SizeOpcode(group[op], ptr_size)>>, ptr_size = 2, <<>>),
           Called("group_mem", Instruction(op, At(ptr_size, m), Nothing), emit_encode(d))
    PROVE  DecodesAsAsked'
<1> DEFINE at == At(ptr_size, m)
           i == Instruction(op, at, Nothing)
           s == Stream(d)
           w == WithoutEnd(emit_encode(d))
           size == WideOr1(ptr_size)
           y == RmOperand(s, size)
           more == m.family % 8 = 4 \/ m.family % 8 = 5
<1>0. group[op] \in Bases /\ op \notin {"movzx", "lea", "undefined"}
  BY DEF GroupOperations, group, Bases
<1>1. AddressRead(d, m) /\ d.opcodes = <<SizeOpcode(group[op], ptr_size)>> /\ d.reg = NoInfo
      /\ d.digit = group_digit[op]
  BY AddressReadIs DEF WithDigit, Filled
<1>2. /\ Code(s) = IF ptr_size = 1 THEN group[op] ELSE group[op] + 1
      /\ Indirect(d) /\ OperandSize(s) = 8 /\ y.kind = "mem"
      /\ NeedsMore(d) <=> more
      /\ ~more => y = At(size, m)
  BY <1>0, <1>1, SizedOpcodes DEF AddressRead, WideOr1
<1>3. Sized(s, group[op]) /\ HasModRM(s) /\ ReadSize(s) = size
  BY <1>0, <1>2, SizedRead DEF WideOr1
<1>4. Digit(s) = group_digit[op]
  BY <1>1, <1>2, AddressDigit
<1>5. Read(s) = Instruction(op, y, Nothing)
  BY <1>3, <1>4, ReadGroup
<1>6. ~more => (y = at <=> size = ptr_size)
  BY <1>2, MemoryIs DEF At
<1>7. /\ at.kind = "mem" /\ SizeOf(at) = ptr_size /\ at.base = m /\ at.index = NoRegister
      /\ NamedIn(at) = {m}
  BY MemoryIs, InvalidIsNotNone DEF At
<1>8. ~m.high /\ ~(m.size = 4)
  BY RegisterInfo
<1> HIDE DEF at, s, w, y
<1>9. Decode(w) = IF more THEN Undefined ELSE Instruction(op, y, Nothing)
  BY <1>2, <1>3, <1>5, IndirectDecoded, KindsDiffer DEF s, w
<1>10. Effect(Decode(w)) = Effect(i) <=> ~more /\ size = ptr_size
  BY <1>0, <1>6, <1>9, InstructionIs
<1>11. ~HighIn(i)
  BY <1>7, <1>8, HighInIs, KindsDiffer
<1>12. Misencoded' <=> more \/ ptr_size \in {2, 4}
  <2>1. NoRegister.family # 4
    BY DEF NoRegister
  <2>2. Nothing.kind # "mem" /\ SizeOf(Nothing) = 0
    BY KindsDiffer
  <2>3. Called("group_mem", i, emit_encode(d))
    BY DEF at
  <2>4. /\ "group_mem" \notin {"mov_reg_imm32", "sete", "setne"}
        /\ "group_mem" \notin LeaSibNames /\ "group_mem" \notin Disp32Names
    BY DEF LeaSibNames, Disp32Names
  <2>5. Misencoded' <=>
            \/ m.family % 8 = 4
            \/ m.family % 8 = 5
            \/ \E z \in {SizeOf(at), SizeOf(Nothing)} : z \in {2, 4}
            \/ HighIn(i)
    BY <1>0, <1>7, <1>8, <2>1, <2>2, <2>3, <2>4, MemoryMisencoded
  <2> QED
    BY <1>7, <1>11, <2>2, <2>5
<1>13. size = ptr_size <=> ptr_size \notin {2, 4}
  BY DEF WideOr1, Sizes
<1>14. Judged(i, emit_encode(d), Misencoded')
  BY <1>10, <1>12, <1>13 DEF Judged, w
<1>15. Called("group_mem", i, emit_encode(d))
  BY DEF at
<1> HIDE DEF i
<1> QED
  BY <1>14, <1>15, Verdict

-----------------------------------------------------------------------------
(* The extending moves.                                                     *)

(* What a write to it is a write to.                                        *)
Extended(r) == IF r.size = 4 THEN [r EXCEPT !.size = 8] ELSE r

(* A movzx to 32 bits has the effect of one to 64.                          *)
LEMMA EffectIs ==
    ASSUME NEW r, NEW x
    PROVE  Effect(Instruction("movzx", Reg(r), x)) = Instruction("movzx", Reg(Extended(r)), x)
BY DEF Effect, Instruction, Reg, SizeOf, Extended

LEMMA ExtendedFour ==
    ASSUME NEW family, NEW high
    PROVE  Extended([family |-> family, size |-> 4, high |-> high]) =
               [family |-> family, size |-> 8, high |-> high]
BY DEF Extended

LEMMA ExtendedOther ==
    ASSUME NEW r, r.size # 4
    PROVE  Extended(r) = r
BY DEF Extended

ExtendedCode(s, size) == Code(s) = IF size = 1 THEN 256 + \hB6 ELSE 256 + \hB7

LEMMA ExtendedIs ==
    ASSUME NEW size \in {1, 2}
    PROVE  /\ Opcodes(ZeroExtend(size))
           /\ \A s : Code(s) = CodeOf(ZeroExtend(size)) => ExtendedCode(s, size)
<1>1. CASE size = 1
  BY <1>1, TwoBytes DEF ZeroExtend, ExtendedCode, Byte
<1>2. CASE size = 2
  BY <1>2, TwoBytes DEF ZeroExtend, ExtendedCode, Byte
<1> QED
  BY <1>1, <1>2

(* What Read makes of the two opcodes of movzx.                             *)
LEMMA ReadExtended ==
    ASSUME NEW s, NEW size \in {1, 2}, ExtendedCode(s, size)
    PROVE  /\ Read(s) = Instruction("movzx", RegOperand(s, OperandSize(s)), RmOperand(s, size))
           /\ HasModRM(s)
<1>1. CASE size = 1
  BY <1>1, ReadOther DEF ExtendedCode, HasModRM
<1>2. CASE size = 2
  BY <1>2, ReadOther DEF ExtendedCode, HasModRM
<1> QED
  BY <1>1, <1>2

(* movzx of registers: wrong exactly when the destination is a byte or a    *)
(* high register meets a REX prefix.                                        *)
LEMMA MovzxRegJudged ==
    ASSUME NEW destination \in Register, NEW source \in Register,
           source.size \in {1, 2}, source.size <= destination.size,
           NEW d, WithReg(d, reg_info(destination), reg_info(source), "DIRECT",
                          ZeroExtend(source.size)),
           Called("movzx_reg_reg", Instruction("movzx", Reg(destination), Reg(source)),
                  emit_encode(d))
    PROVE  DecodesAsAsked'
<1> DEFINE i == Instruction("movzx", Reg(destination), Reg(source))
           dst == reg_info(destination)
           src == reg_info(source)
           s == Stream(d)
           w == WithoutEnd(emit_encode(d))
           rex == RexOf(d)
           size == OperandSize(s)
           gd == General(dst.num, size, rex)
           gs == General(src.num, source.size, rex)
<1>1. /\ Encodable(d) /\ Opcodes(d.opcodes) /\ Direct(d)
      /\ d.reg = dst /\ d.rm = src /\ d.digit = 0 /\ d.imm_bytes = <<>>
      /\ d.opcodes = ZeroExtend(source.size)
      /\ d.emit_66h <=> dst.size = 2
  BY DEF WithReg, Filled, Direct
<1>2. /\ dst.size = destination.size /\ src.size = source.size /\ destination.size \in Sizes
      /\ dst.num >= 8 \/ dst.needs_rex <=> Asks(destination)
      /\ src.num >= 8 \/ src.needs_rex <=> Asks(source)
  BY RegisterInfo
<1>3. rex # 0 <=> destination.size = 8 \/ Asks(destination) \/ Asks(source)
  <2>1. rex # 0 <=> \/ 8 \in {d.reg.size, d.rm.size}
                    \/ d.reg.num >= 8 \/ d.reg.needs_rex
                    \/ d.rm.num >= 8 \/ d.rm.needs_rex
    BY <1>1, RexThere DEF WithReg, Filled
  <2> HIDE DEF rex
  <2> QED
    BY <1>1, <1>2, <2>1
<1>4. DirectRead(w, s, d)
  BY <1>1, StreamIs, DirectIs
<1>5. ExtendedCode(s, source.size)
  BY <1>1, <1>4, ExtendedIs DEF DirectRead
<1>6. /\ size = IF 8 \in {d.reg.size, d.rm.size} THEN 8 ELSE IF d.emit_66h THEN 2 ELSE 4
      /\ \A z : RegOperand(s, z) = Reg(General(d.reg.num, z, rex))
      /\ \A z : RmOperand(s, z) = Reg(General(d.rm.num, z, rex))
  BY <1>1, <1>4 DEF DirectRead, RexTells
<1>7. size = IF destination.size = 1 THEN 4 ELSE destination.size
  BY <1>1, <1>2, <1>6 DEF Sizes
<1>8. Read(s) = Instruction("movzx", Reg(gd), Reg(gs)) /\ HasModRM(s)
  BY <1>1, <1>5, <1>6, ReadExtended
<1> HIDE DEF rex, s, w, gd, gs
<1>9. Decode(w) = Instruction("movzx", Reg(gd), Reg(gs))
  <2>1. ImmediateLength(Reg(gs)) = Len(d.imm_bytes)
    BY <1>1, KindsDiffer, Literal DEF ImmediateLength
  <2> QED
    BY <1>1, <1>8, <2>1, DirectDecoded DEF s, w
<1>10. gs = source <=> ~(source.high /\ rex # 0)
  BY <1>3, GeneralIs DEF gs
<1>11. Misencoded' <=> (HighIn(i) /\ NeedsRex(i)) \/ destination.size = 1
  BY NoMemoryMisencoded, KindsDiffer
<1>12. /\ HighIn(i) <=> destination.high \/ source.high
       /\ NeedsRex(i) <=> rex # 0
  <2>1. 8 \in {SizeOf(Reg(destination)), SizeOf(Reg(source))} <=> destination.size = 8
    BY KindsDiffer
  <2> QED
    BY <1>3, <2>1, NeedsRexIs, HighInIs, KindsDiffer
<1>13. CASE destination.size = 1
  <2>1. size = 4
    BY <1>7, <1>13
  <2>2. PICK family, high : gd = [family |-> family, size |-> 4, high |-> high]
    BY <2>1 DEF gd, General
  <2>3. Extended(gd).size = 8
    <3>1. Extended([family |-> family, size |-> 4, high |-> high]) =
              [family |-> family, size |-> 8, high |-> high]
      BY ExtendedFour
    <3>2. Extended(gd) = [family |-> family, size |-> 8, high |-> high]
      BY <2>2, <3>1
    <3> QED
      BY <3>2
  <2>4. Extended(destination) = destination
    <3>1. destination.size # 4
      BY <1>13
    <3> QED
      BY <3>1, ExtendedOther
  <2>5. Effect(Decode(w)) # Effect(i)
    BY <1>9, <1>13, <2>3, <2>4, EffectIs, InstructionIs, KindsDiffer
  <2>6. Judged(i, emit_encode(d), Misencoded')
    BY <1>11, <1>13, <2>5 DEF Judged, w
  <2> QED
    BY <2>6, Verdict
<1>14. CASE destination.size # 1
  <2>1. ~destination.high
    BY <1>14, RegisterInfo
  <2>2. gd = destination
    <3>1. gd = General(dst.num, destination.size, rex)
      BY <1>7, <1>14 DEF gd
    <3> QED
      BY <1>3, <2>1, <3>1, GeneralIs
  <2>3. Effect(Decode(w)) = Effect(i) <=> gs = source
    BY <1>9, <2>2, EffectIs, InstructionIs, KindsDiffer
  <2>4. Judged(i, emit_encode(d), Misencoded')
    BY <1>10, <1>11, <1>12, <1>14, <2>1, <2>3 DEF Judged, w
  <2> QED
    BY <2>4, Verdict
<1> QED
  BY <1>13, <1>14

(* movzx from memory: widened to 64 bits a destination of 32 bits is still  *)
(* as asked, one of 16 is not.                                              *)
LEMMA MovzxMemJudged ==
    ASSUME NEW destination \in Register, NEW m \in Register, m.size = 8,
           NEW pointer \in {1, 2}, destination.size > pointer,
           NEW d, WithReg(d, reg_info(destination), reg_info(m), "INDIRECT", ZeroExtend(pointer)),
           Called("movzx_reg_mem", Instruction("movzx", Reg(destination), At(pointer, m)),
                  emit_encode(d))
    PROVE  DecodesAsAsked'
<1> DEFINE at == At(pointer, m)
           i == Instruction("movzx", Reg(destination), at)
           s == Stream(d)
           w == WithoutEnd(emit_encode(d))
           to == Wide(destination.family)
           more == m.family % 8 = 4 \/ m.family % 8 = 5
           r == IF destination.size = 4 THEN to ELSE destination
<1>1. MemoryRead(d, destination, m) /\ d.opcodes = ZeroExtend(pointer)
  BY MemoryReadIs DEF WithReg, Filled
<1>2. /\ destination.size \in {2, 4, 8} /\ ~destination.high /\ ~m.high
      /\ destination = [family |-> destination.family, size |-> destination.size, high |-> FALSE]
  <2>1. /\ destination.size \in Sizes /\ destination.size # 1
        /\ destination.high => destination.size = 1
        /\ m.high => m.size = 1
        /\ destination.high \in BOOLEAN
        /\ destination = [family |-> destination.family, size |-> destination.size,
                          high |-> destination.high]
    BY RegisterInfo DEF Sizes
  <2>2. destination.high = FALSE
    BY <2>1
  <2> QED
    BY <2>1, <2>2 DEF Sizes
<1>3. /\ ExtendedCode(s, pointer) /\ Indirect(d) /\ OperandSize(s) = 8
      /\ NeedsMore(d) <=> more
      /\ ~more => RmOperand(s, pointer) = at
      /\ RmOperand(s, pointer).kind = "mem"
      /\ RegOperand(s, 8) = Reg(to)
  BY <1>1, <1>2, ExtendedIs DEF MemoryRead, AddressRead
<1>4. Read(s) = Instruction("movzx", Reg(to), RmOperand(s, pointer)) /\ HasModRM(s)
  BY <1>3, ReadExtended
<1>5. /\ at.kind = "mem" /\ SizeOf(at) = pointer /\ at.base = m /\ at.index = NoRegister
      /\ NamedIn(at) = {m}
  BY MemoryIs, InvalidIsNotNone DEF At
<1> HIDE DEF s, w, at
<1>6. Decode(w) = IF more THEN Undefined ELSE Instruction("movzx", Reg(to), at)
  BY <1>3, <1>4, IndirectDecoded DEF s, w
<1>7. Effect(i) = Instruction("movzx", Reg(r), at)
  <2>1. Extended(destination) = r
    <3>1. CASE destination.size = 4
      <4>1. Extended([family |-> destination.family, size |-> 4, high |-> FALSE]) = to
        BY ExtendedFour DEF Wide
      <4> QED
        BY <1>2, <3>1, <4>1
    <3>2. CASE destination.size # 4
      BY <3>2, ExtendedOther
    <3> QED
      BY <3>1, <3>2
  <2> QED
    BY <2>1, EffectIs
<1>8. to.size = 8
  BY DEF Wide
<1>9. r = to <=> destination.size # 2
  <2>1. CASE destination.size = 2
    BY <1>8, <2>1
  <2>2. CASE destination.size = 4
    BY <2>2
  <2>3. CASE destination.size = 8
    BY <1>2, <2>3 DEF Wide
  <2> QED
    BY <1>2, <2>1, <2>2, <2>3
<1>14. Effect(Instruction("movzx", Reg(to), at)) = Instruction("movzx", Reg(to), at)
  <2>1. to.size # 4
    BY <1>8
  <2>2. Extended(to) = to
    BY <2>1, ExtendedOther
  <2> QED
    BY <2>2, EffectIs
<1> HIDE DEF to, r
<1>10. Effect(Decode(w)) = Effect(i) <=> ~more /\ destination.size # 2
  <2>1. Effect(Undefined) # Effect(i)
    BY <1>7, InstructionIs
  <2> QED
    BY <1>6, <1>7, <1>9, <1>14, <2>1, InstructionIs, KindsDiffer
<1>11. Misencoded' <=> more \/ destination.size = 2
  <2>1. NoRegister.family # 4
    BY DEF NoRegister
  <2>2. Reg(destination).kind # "mem" /\ SizeOf(Reg(destination)) = destination.size
    BY KindsDiffer
  <2>3. Called("movzx_reg_mem", i, emit_encode(d))
    BY DEF at
  <2>4. ~HighIn(i)
    BY <1>2, <1>5, HighInIs, KindsDiffer
  <2>5. /\ "movzx_reg_mem" \notin {"mov_reg_imm32", "sete", "setne"}
        /\ "movzx_reg_mem" \notin LeaSibNames /\ "movzx_reg_mem" \notin Disp32Names
    BY DEF LeaSibNames, Disp32Names
  <2>6. Misencoded' <=>
            \/ m.family % 8 = 4
            \/ m.family % 8 = 5
            \/ /\ \E z \in {SizeOf(Reg(destination)), SizeOf(at)} : z \in {2, 4}
               /\ SizeOf(Reg(destination)) = 2
            \/ SizeOf(Reg(destination)) = 1
    BY <1>5, <2>1, <2>2, <2>3, <2>4, <2>5, MemoryMisencoded
  <2> QED
    BY <1>2, <2>2, <2>6
<1>12. Judged(i, emit_encode(d), Misencoded')
  BY <1>10, <1>11 DEF Judged, w
<1>13. Called("movzx_reg_mem", i, emit_encode(d))
  BY DEF at
<1> HIDE DEF i
<1> QED
  BY <1>12, <1>13, Verdict

-----------------------------------------------------------------------------
(* Addresses.                                                               *)

LEMMA GeneralNotByte ==
    ASSUME NEW r \in Register, r.size # 1, NEW rex
    PROVE  /\ General(reg_info(r).num, r.size, rex) = r
           /\ General(reg_info(r).num, 8, rex) = Wide(r.family)
           /\ Wide(r.family) = r <=> r.size = 8
           /\ ~r.high /\ r.size \in {2, 4, 8}
<1>1. /\ ~r.high /\ reg_info(r).num = r.family
      /\ r = [family |-> r.family, size |-> r.size, high |-> r.high]
      /\ r.high \in BOOLEAN /\ r.size \in {2, 4, 8}
  BY RegisterInfo DEF Sizes
<1>2. \A n, size : size # 1 => General(n, size, rex) = [family |-> n, size |-> size, high |-> FALSE]
  BY DEF General
<1>3. r = [family |-> r.family, size |-> r.size, high |-> FALSE]
  BY <1>1
<1>4. General(reg_info(r).num, r.size, rex) = r
  <2>1. General(r.family, r.size, rex) = [family |-> r.family, size |-> r.size, high |-> FALSE]
    BY <1>2
  <2> QED
    BY <1>1, <1>3, <2>1
<1>5. General(reg_info(r).num, 8, rex) = Wide(r.family)
  <2>1. \A n : General(n, 8, rex) = Wide(n)
    BY DEF General, Wide
  <2> QED
    BY <1>1, <2>1
<1>6. Wide(r.family) = r <=> r.size = 8
  <2>1. Wide(r.family).size = 8
    BY DEF Wide
  <2>2. r.size = 8 => Wide(r.family) = r
    BY <1>3 DEF Wide
  <2> QED
    BY <2>1, <2>2
<1> QED
  BY <1>1, <1>4, <1>5, <1>6

(* The upper bytes of a displacement do not arrive.                         *)
Lost(f, displacement) == f \in Disp32Names /\ \E k \in 2 .. 4 : displacement[k] # 0

(* What Read makes of lea.                                                  *)
LEMMA LeaRead ==
    ASSUME NEW s, Code(s) = \h8D
    PROVE  /\ Read(s) = Instruction("lea", RegOperand(s, OperandSize(s)),
                                    [RmOperand(s, OperandSize(s)) EXCEPT !.width = 0])
           /\ HasModRM(s)
<1>1. ReadSize(s) = OperandSize(s)
  BY DEF ReadSize
<1> QED
  BY <1>1, ReadMov DEF HasModRM

(* lea from a register: wrong for the bases rsp and r12, for one of 32      *)
(* bits, which is taken for one of 64, and when a byte of disp32 is lost.   *)
LEMMA LeaRegJudged ==
    ASSUME NEW f \in {"lea_reg_disp8", "lea_reg_disp32"},
           NEW destination \in Register, NEW source \in Register,
           destination.size # 1, source.size \in {4, 8}, NEW displacement,
           NEW mode \in {"INDIRECT_DISP8", "INDIRECT_DISP32"},
           NEW d, WithReg(d, reg_info(destination), reg_info(source), mode, <<\h8D>>),
           Disp(d) = displacement <=> ~Lost(f, displacement),
           Called(f, Instruction("lea", Reg(destination),
                                 Mem(0, source, NoRegister, 1, displacement)), emit_encode(d))
    PROVE  DecodesAsAsked'
<1> DEFINE mem == Mem(0, source, NoRegister, 1, displacement)
           i == Instruction("lea", Reg(destination), mem)
           s == Stream(d)
           w == WithoutEnd(emit_encode(d))
           size == OperandSize(s)
           g == General(reg_info(destination).num, size, RexOf(d))
           read == Mem(0, Wide(source.family), NoRegister, 1, Disp(d))
           more == source.family % 8 = 4
           lost == Lost(f, displacement)
<1>1. /\ Encodable(d) /\ Opcodes(d.opcodes) /\ d.mode = mode /\ d.base = NoInfo
      /\ d.has_modRM /\ ~d.has_sib /\ d.opcodes = <<\h8D>>
      /\ d.reg = reg_info(destination) /\ d.rm = reg_info(source)
      /\ d.digit = 0 /\ d.imm_bytes = <<>>
  BY DEF WithReg, Filled
<1>2. Indirect(d)
  BY <1>1 DEF Indirect
<1>3. IndirectRead(w, s, d)
  BY <1>1, <1>2, StreamIs, IndirectIs
<1>4. /\ reg_info(destination).size = destination.size /\ reg_info(source).size = source.size
      /\ ~source.high /\ reg_info(source).num = source.family
  BY RegisterInfo
<1>5. CodeOf(d.opcodes) = \h8D
  <2>1. \h8D \in Byte
    BY DEF Byte
  <2> QED
    BY <1>1, <2>1, OneByte
<1>6. /\ Code(s) = \h8D
      /\ source.size = 8 => size = 8
      /\ RegOperand(s, size) = Reg(g)
      /\ NeedsMore(d) <=> more
      /\ RmOperand(s, size).kind = "mem"
      /\ ~more => RmOperand(s, size) = Mem(size, Wide(source.family), NoRegister, 1, Disp(d))
  <2>1. NeedsMore(d) <=> more
    BY <1>1, <1>4 DEF NeedsMore
  <2> QED
    BY <1>1, <1>3, <1>4, <1>5, <2>1 DEF IndirectRead, RexTells
<1>7. Read(s) = Instruction("lea", Reg(g), [RmOperand(s, size) EXCEPT !.width = 0]) /\ HasModRM(s)
  BY <1>6, LeaRead
<1>8. ~more => [RmOperand(s, size) EXCEPT !.width = 0] = read
  BY <1>6, MemoryIs
<1> DEFINE x == [RmOperand(s, size) EXCEPT !.width = 0]
<1>9. x.kind # "imm" /\ Read(s) = Instruction("lea", Reg(g), x)
  BY <1>6, <1>7
<1>10. source.size = 8 => (g = destination <=> destination.size = 8)
  BY <1>6, GeneralNotByte
<1>11. Wide(source.family) = source <=> source.size = 8
  <2>1. source.size # 1
    OBVIOUS
  <2> QED
    BY <2>1, GeneralNotByte
<1>12. /\ mem.kind = "mem" /\ SizeOf(mem) = 0 /\ mem.base = source /\ mem.index = NoRegister
       /\ mem.displacement = displacement /\ NamedIn(mem) = {source}
       /\ read = mem <=> Wide(source.family) = source /\ Disp(d) = displacement
  BY MemoryIs, InvalidIsNotNone
<1> HIDE DEF mem, s, w, g, size, read, x
<1>13. Decode(w) = IF more THEN Undefined ELSE Instruction("lea", Reg(g), read)
  <2>1. Decode(w) = IF NeedsMore(d) THEN Undefined ELSE Instruction("lea", Reg(g), x)
    BY <1>2, <1>7, <1>9, IndirectDecoded DEF s, w
  <2>2. ~more => x = read
    BY <1>8 DEF x
  <2> QED
    BY <1>6, <2>1, <2>2
<1>14. Effect(Decode(w)) = Effect(i) <=> ~more /\ g = destination /\ read = mem
  BY <1>13, InstructionIs, KindsDiffer
<1>15. Effect(Decode(w)) = Effect(i) <=> ~more /\ source.size = 8 /\ destination.size = 8 /\ ~lost
  BY <1>10, <1>11, <1>12, <1>14
<1>16. ~HighIn(i)
  <2>1. ~destination.high
    BY GeneralNotByte
  <2> QED
    BY <1>4, <1>12, <2>1, HighInIs, KindsDiffer
<1>17. Misencoded' <=> \/ more \/ source.size = 4 \/ lost
                       \/ source.size = 8 /\ destination.size \in {2, 4}
  <2>1. NoRegister.family # 4
    BY DEF NoRegister
  <2>2. Reg(destination).kind # "mem" /\ SizeOf(Reg(destination)) = destination.size
    BY KindsDiffer
  <2>3. Called(f, i, emit_encode(d))
    BY DEF mem
  <2>4. /\ f \notin {"mov_reg_imm32", "sete", "setne"}
        /\ f \notin LeaSibNames
    BY DEF LeaSibNames
  <2>5. Misencoded' <=>
            \/ source.family % 8 = 4
            \/ /\ source.size = 8
               /\ \E z \in {SizeOf(Reg(destination)), SizeOf(mem)} : z \in {2, 4}
            \/ source.size = 4
            \/ f \in Disp32Names /\ \E k \in 2 .. 4 : displacement[k] # 0
    BY <1>12, <1>16, <2>1, <2>2, <2>3, <2>4, MemoryMisencoded
  <2> QED
    BY <1>12, <2>2, <2>5 DEF Lost
<1>18. destination.size \in {2, 4, 8}
  BY GeneralNotByte
<1> HIDE DEF lost
<1>19. Judged(i, emit_encode(d), Misencoded')
  BY <1>15, <1>17, <1>18 DEF Judged, w
<1>20. Called(f, i, emit_encode(d))
  BY DEF mem
<1> HIDE DEF i
<1> QED
  BY <1>19, <1>20, Verdict

(* A SIB byte that is asked for.                                            *)
WithSib(d, reg, mode, scale, index, base) ==
    /\ Sibbed(d)
    /\ d.reg = reg /\ d.rm = NoInfo /\ d.digit = 0 /\ d.imm_bytes = <<>>
    /\ d.emit_66h <=> reg.size = 2
    /\ d.mode = mode /\ d.scale = scale /\ d.index = index /\ d.base = base
    /\ d.opcodes = <<\h8D>>

(* With a SIB byte the lengths always agree.                                *)
LEMMA SibDecoded ==
    ASSUME NEW d, Sibbed(d), NEW op, NEW dst, NEW src, src.kind # "imm",
           Read(Stream(d)) = Instruction(op, dst, src), HasModRM(Stream(d))
    PROVE  Decode(WithoutEnd(emit_encode(d))) = Instruction(op, dst, src)
<1> DEFINE w == WithoutEnd(emit_encode(d))
           s == Stream(d)
           n == Len(w)
           before == ImmediateAt(s) - 1
<1>1. Opened(w, s, d)
  BY StreamIs DEF Sibbed
<1>2. SibRead(w, s, d) /\ w \in Seq(Byte)
  BY <1>1, SibIs DEF Opened
<1>3. n = before /\ ImmediateAt(s) \in Nat /\ n \in Nat
  BY <1>2, LenProperties DEF SibRead
<1>4. LengthBefore(s) = before
  BY DEF LengthBefore
<1>5. s = w \o Pad
  BY DEF Stream
<1> HIDE DEF w, s, n
<1>6. Decode(w) = IF LengthBefore(s) + ImmediateLength(src) = n
                    THEN Instruction(op, dst, src) ELSE Undefined
  <2>1. Read(w \o Pad) = Instruction(op, dst, src)
    BY <1>5 DEF s
  <2> QED
    BY <1>5, <2>1, DecodedIs DEF n
<1>7. LengthBefore(s) + ImmediateLength(src) = n
  BY <1>3, <1>4 DEF ImmediateLength
<1> QED
  BY <1>6, <1>7 DEF w

(* lea with a SIB byte: wrong exactly when rsp is the index or a byte of    *)
(* disp32 is lost.                                                          *)
LEMMA LeaSibJudged ==
    ASSUME NEW f \in LeaSibNames,
           NEW destination \in Register, NEW index \in Register, NEW base \in Register,
           destination.size # 1, index.size = 8, base.size = 8, NEW scale, NEW displacement,
           NEW mode, NEW d,
           WithSib(d, reg_info(destination), mode, scale, reg_info(index), reg_info(base)),
           Disp(d) = displacement <=> ~Lost(f, displacement),
           Called(f, Instruction("lea", Reg(destination),
                                 Mem(0, base, index, scale, displacement)), emit_encode(d))
    PROVE  DecodesAsAsked'
<1> DEFINE mem == Mem(0, base, index, scale, displacement)
           i == Instruction("lea", Reg(destination), mem)
           s == Stream(d)
           w == WithoutEnd(emit_encode(d))
           size == OperandSize(s)
           index2 == IF Indexed(d) THEN index ELSE NoRegister
           scale2 == IF Indexed(d) THEN scale ELSE 1
           read == Mem(0, base, index2, scale2, Disp(d))
           lost == Lost(f, displacement)
<1>1. /\ Sibbed(d) /\ Encodable(d) /\ Opcodes(d.opcodes) /\ d.opcodes = <<\h8D>>
      /\ d.reg = reg_info(destination) /\ d.rm = NoInfo /\ d.index = reg_info(index)
      /\ d.base = reg_info(base) /\ d.scale = scale
      /\ d.digit = 0 /\ d.imm_bytes = <<>> /\ (d.emit_66h <=> reg_info(destination).size = 2)
  BY DEF WithSib, Sibbed
<1>2. SibRead(w, s, d)
  BY <1>1, StreamIs, SibIs
<1>3. /\ reg_info(destination).size = destination.size
      /\ Wide(reg_info(base).num) = base /\ Wide(reg_info(index).num) = index
      /\ reg_info(index).num = index.family /\ ~base.high /\ ~index.high
  BY RegisterInfo, WideIs
<1>4. CodeOf(d.opcodes) = \h8D
  <2>1. \h8D \in Byte
    BY DEF Byte
  <2> QED
    BY <1>1, <2>1, OneByte
<1>5. destination.size \in {2, 4, 8} /\ ~destination.high
  BY GeneralNotByte
<1>6. /\ Code(s) = \h8D
      /\ size = IF 8 \in {destination.size, NoInfo.size} THEN 8
                ELSE IF destination.size = 2 THEN 2 ELSE 4
      /\ RegOperand(s, size) = Reg(General(reg_info(destination).num, size, RexOf(d)))
      /\ Indexed(d) <=> index.family # 4
      /\ RmOperand(s, size) = Mem(size, base, index2, scale2, Disp(d))
  <2>1. Indexed(d) <=> index.family # 4
    BY <1>1, <1>3 DEF Indexed
  <2>2. RmOperand(s, size) =
            Mem(size, Wide(d.base.num), IF Indexed(d) THEN Wide(d.index.num) ELSE NoRegister,
                IF Indexed(d) THEN d.scale ELSE 1, Disp(d))
    BY <1>2 DEF SibRead
  <2>3. RmOperand(s, size) = Mem(size, base, index2, scale2, Disp(d))
    BY <1>1, <1>3, <2>2
  <2> QED
    BY <1>1, <1>2, <1>3, <1>4, <2>1, <2>3 DEF SibRead, RexTells
<1>7. size = destination.size
  <2>1. NoInfo.size = 0
    BY DEF NoInfo
  <2> QED
    BY <1>5, <1>6, <2>1
<1>8. RegOperand(s, size) = Reg(destination)
  <2>1. General(reg_info(destination).num, destination.size, RexOf(d)) = destination
    BY GeneralNotByte
  <2> QED
    BY <1>6, <1>7, <2>1
<1>9. [RmOperand(s, size) EXCEPT !.width = 0] = read /\ read.kind # "imm"
  BY <1>6, MemoryIs
<1>10. Read(s) = Instruction("lea", Reg(destination), read) /\ HasModRM(s)
  BY <1>6, <1>8, <1>9, LeaRead
<1>11. read = mem <=> index2 = index /\ scale2 = scale /\ Disp(d) = displacement
  BY MemoryIs
<1>12. /\ mem.kind = "mem" /\ SizeOf(mem) = 0 /\ mem.base = base /\ mem.index = index
       /\ mem.displacement = displacement /\ NamedIn(mem) = {base, index}
  BY MemoryIs, InvalidIsNotNone
<1>13. index # NoRegister
  BY InvalidIsNotNone
<1>14. read = mem <=> index.family # 4 /\ ~lost
  BY <1>6, <1>11, <1>13
<1> HIDE DEF mem, s, w, size, read, index2, scale2
<1>15. Decode(w) = Instruction("lea", Reg(destination), read)
  BY <1>1, <1>9, <1>10, SibDecoded DEF s, w
<1>16. Effect(Decode(w)) = Effect(i) <=> index.family # 4 /\ ~lost
  BY <1>14, <1>15, InstructionIs
<1>17. ~HighIn(i)
  BY <1>3, <1>5, <1>12, HighInIs, KindsDiffer
<1>18. Misencoded' <=> index.family = 4 \/ lost
  <2>1. Reg(destination).kind # "mem"
    BY KindsDiffer
  <2>2. Called(f, i, emit_encode(d))
    BY DEF mem
  <2>3. f \notin {"mov_reg_imm32", "sete", "setne"}
    BY DEF LeaSibNames
  <2> QED
    BY <1>12, <1>17, <2>1, <2>2, <2>3, MemoryMisencoded DEF Lost
<1> HIDE DEF lost
<1>19. Judged(i, emit_encode(d), Misencoded')
  BY <1>16, <1>18 DEF Judged, w
<1>20. Called(f, i, emit_encode(d))
  BY DEF mem
<1> HIDE DEF i
<1> QED
  BY <1>19, <1>20, Verdict

-----------------------------------------------------------------------------
(* A register in the opcode.                                                *)

WithOpcode(d, base, rm, immediate) ==
    /\ Bare(d)
    /\ d.opcodes = <<base + (rm.num % 8)>> /\ d.imm_bytes = immediate /\ ~d.emit_66h
    /\ d.reg = NoInfo /\ d.rm = rm /\ d.index = NoInfo /\ d.base = NoInfo

(* OpcodeReg fills in what its parameters say.                              *)
LEMMA OpcodeRegIs ==
    ASSUME NEW base \in {\hB0, \hB8}, NEW rm \in Info, NEW immediate, Upto(immediate, 4)
    PROVE  WithOpcode(OpcodeReg(base, rm, immediate), base, rm, immediate)
<1> DEFINE opcode == base + (rm.num % 8)
           d == OpcodeReg(base, rm, immediate)
<1>1. opcode \in Byte /\ opcode \notin {\h0F, \h66} \cup \h40 .. \h4F
  BY DEF Info, Byte
<1> HIDE DEF opcode
<1>2. Opcodes(<<opcode>>)
  BY <1>1, OneByte
<1>3. Encodable(d)
  BY OpcodeRegEncodable
<1>4. d = [Descriptor EXCEPT !.opcodes = <<opcode>>, !.rm = rm,
                             !.imm_bytes = immediate, !.has_modRM = FALSE]
  BY DEF OpcodeReg, opcode
<1>5. /\ d.opcodes = <<opcode>> /\ d.imm_bytes = immediate /\ ~d.emit_66h
      /\ ~d.has_modRM /\ ~d.has_sib
      /\ d.reg = NoInfo /\ d.rm = rm /\ d.index = NoInfo /\ d.base = NoInfo
  BY <1>4 DEF Descriptor
<1> HIDE DEF d
<1> QED
  BY <1>2, <1>3, <1>5 DEF WithOpcode, Bare, opcode, d

(* What is read, the register being taken for one of a size.                *)
OpcodeRead(d, base, rm, immediate) ==
    LET s == Stream(d)
    IN  /\ Code(s) = base + (rm.num % 8) /\ ~HasModRM(s)
        /\ \A to : Small(s, to) = Reg(General(rm.num, to, RexOf(d)))
        /\ OperandSize(s) = IF rm.size = 8 THEN 8 ELSE 4
        /\ FollowingCode(s, Len(immediate)) = Imm(immediate)
        /\ LengthBefore(s) \in Nat
        /\ Len(WithoutEnd(emit_encode(d))) = LengthBefore(s) + Len(immediate)
        /\ CodeAt(s) \in Nat /\ s \in Seq(Byte)
        /\ CodeAt(s) + Len(immediate) + 16 = Len(s)

(* A register in the opcode is read back.                                   *)
LEMMA OpcodeReadIs ==
    ASSUME NEW base \in {\hB0, \hB8}, NEW rm \in Info, NEW immediate, Upto(immediate, 4),
           NEW d, WithOpcode(d, base, rm, immediate)
    PROVE  OpcodeRead(d, base, rm, immediate)
<1> DEFINE s == Stream(d)
           w == WithoutEnd(emit_encode(d))
           opcode == base + (rm.num % 8)
           n == Len(immediate)
<1>1. /\ Bare(d) /\ Encodable(d) /\ Opcodes(d.opcodes) /\ d.opcodes = <<opcode>>
      /\ d.imm_bytes = immediate /\ ~d.emit_66h
      /\ d.reg = NoInfo /\ d.rm = rm /\ d.index = NoInfo /\ d.base = NoInfo
  BY DEF WithOpcode, Bare
<1>2. Opened(w, s, d)
  BY <1>1, StreamIs
<1>3. BareRead(w, s, d)
  BY <1>1, <1>2, BareIs
<1>4. /\ opcode \in Byte /\ opcode \notin {\h0F, \h66} \cup \h40 .. \h4F
      /\ opcode \in \hB0 .. \hBF /\ rm.num \in 0 .. 15 /\ opcode % 8 = rm.num % 8
  BY DEF Info, Byte
<1> HIDE DEF opcode
<1>5. CodeOf(d.opcodes) = opcode /\ Len(d.opcodes) = 1
  BY <1>1, <1>4, OneByte, Literal
<1> HIDE DEF s, w
<1>6. /\ n \in Nat /\ Code(s) = opcode /\ ModRMAt(s) \in Nat /\ ModRMAt(s) = CodeAt(s) + 1
      /\ CodeAt(s) \in Nat
  BY <1>1, <1>2, <1>3, <1>5, LenProperties DEF BareRead, Upto, Opened
<1>7. ~HasModRM(s) /\ LengthBefore(s) = ModRMAt(s) - 1
  BY <1>4, <1>6 DEF HasModRM, LengthBefore
<1>8. NoInfo.num = 0 /\ NoInfo.size = 0
  BY DEF NoInfo
<1>9. ASSUME NEW to
      PROVE  Small(s, to) = Reg(General(rm.num, to, RexOf(d)))
  <2>1. Bit(Rex(s), 0) = Flag(rm.num >= 8)
    BY <1>1, <1>3, <1>8 DEF BareRead
  <2>2. (Code(s) % 8) + 8 * Bit(Rex(s), 0) = rm.num
    BY <1>4, <1>6, <2>1, Number
  <2>3. Rex(s) = RexOf(d)
    BY <1>3 DEF BareRead
  <2> QED
    BY <2>2, <2>3 DEF Small
<1>10. OperandSize(s) = IF rm.size = 8 THEN 8 ELSE 4
  BY <1>1, <1>3, <1>8 DEF BareRead
<1>11. FollowingCode(s, n) = Imm(immediate)
  <2>1. SubSeq(s, ModRMAt(s), ModRMAt(s) + n - 1) = immediate
    BY <1>1, <1>3 DEF BareRead
  <2> QED
    BY <1>6, <2>1 DEF FollowingCode
<1>12. Len(w) = ModRMAt(s) - 1 + n /\ s \in Seq(Byte) /\ Len(s) = Len(w) + 16
  BY <1>1, <1>3 DEF BareRead
<1>13. /\ LengthBefore(s) \in Nat /\ Len(w) = LengthBefore(s) + n
       /\ CodeAt(s) + n + 16 = Len(s)
  BY <1>6, <1>7, <1>12
<1> QED
  BY <1>6, <1>7, <1>9, <1>10, <1>11, <1>12, <1>13 DEF OpcodeRead, opcode, s, w

(* A processor that wants eight bytes takes eight.                          *)
LEMMA FollowingLength ==
    ASSUME NEW s \in Seq(Byte), CodeAt(s) \in Nat, CodeAt(s) + 8 <= Len(s)
    PROVE  ImmediateLength(FollowingCode(s, 8)) = 8
<1> DEFINE at == CodeAt(s) + 1
           v == SubSeq(s, at, at + 8 - 1)
<1>1. Len(s) \in Nat
  BY LenProperties
<1>2. at \in Nat /\ at <= at + 8 - 1 /\ at + 8 - 1 \in Nat /\ (at + 8 - 1) - at + 1 = 8
  OBVIOUS
<1>3. \A i \in at .. at + 8 - 1 : s[i] \in Byte
  <2> SUFFICES ASSUME NEW i, i \in at .. at + 8 - 1 PROVE s[i] \in Byte
    OBVIOUS
  <2>1. i \in 1 .. Len(s)
    BY <1>1
  <2> QED
    BY <2>1, ElementOfSeq
<1> HIDE DEF at
<1>4. Len(v) = 8
  BY <1>2, <1>3, SubSeqProperties
<1>5. FollowingCode(s, 8) = Imm(v)
  BY DEF FollowingCode, at
<1> HIDE DEF v
<1> QED
  BY <1>4, <1>5 DEF ImmediateLength, Imm

(* mov of a byte is always right: a high register alone brings no prefix.   *)
LEMMA MovImm8Judged ==
    ASSUME NEW destination \in Register, destination.size = 1, NEW v, Upto(v, 4), Len(v) = 1,
           NEW d, WithOpcode(d, \hB0, reg_info(destination), v),
           Called("mov_reg_imm8", Instruction("mov", Reg(destination), Imm(v)), emit_encode(d))
    PROVE  DecodesAsAsked'
<1> DEFINE i == Instruction("mov", Reg(destination), Imm(v))
           dst == reg_info(destination)
           s == Stream(d)
           w == WithoutEnd(emit_encode(d))
           rex == RexOf(d)
           g == General(dst.num, 1, rex)
<1>1. OpcodeRead(d, \hB0, dst, v) /\ Encodable(d) /\ d.reg = NoInfo /\ d.rm = dst
      /\ d.base = NoInfo /\ d.index = NoInfo
  BY InfoType, OpcodeReadIs DEF WithOpcode, Bare
<1>2. /\ dst.size = 1 /\ dst.num \in 0 .. 15
      /\ dst.num >= 8 \/ dst.needs_rex <=> Asks(destination)
  BY RegisterInfo
<1>3. rex # 0 <=> Asks(destination)
  <2>1. rex # 0 <=> \/ 8 \in {d.reg.size, d.rm.size}
                    \/ d.reg.num >= 8 \/ d.reg.needs_rex
                    \/ d.rm.num >= 8 \/ d.rm.needs_rex
    BY <1>1, RexThere
  <2>2. NoInfo.size = 0 /\ ~(NoInfo.num >= 8) /\ ~NoInfo.needs_rex
    BY DEF NoInfo
  <2> HIDE DEF rex
  <2> QED
    BY <1>1, <1>2, <2>1, <2>2
<1>4. Code(s) \in \hB0 .. \hB7
  <2>1. dst.num % 8 \in 0 .. 7
    BY <1>2
  <2>2. Code(s) = \hB0 + (dst.num % 8)
    BY <1>1 DEF OpcodeRead
  <2> HIDE DEF s, dst
  <2> QED
    BY <2>1, <2>2
<1>5. Read(s) = Instruction("mov", Reg(g), Imm(v))
  <2>1. Small(s, 1) = Reg(g) /\ FollowingCode(s, 1) = Imm(v)
    BY <1>1 DEF OpcodeRead
  <2> QED
    BY <1>4, <2>1, ReadMovImmediate
<1>6. ImmediateLength(Imm(v)) = 1
  BY DEF ImmediateLength, Imm
<1>7. LengthBefore(s) + 1 = Len(w)
  BY <1>1 DEF OpcodeRead
<1>8. s = w \o Pad
  BY DEF Stream
<1> HIDE DEF rex, s, w, g, dst
<1>9. Decode(w) = Instruction("mov", Reg(g), Imm(v))
  BY <1>5, <1>6, <1>7, <1>8, DecodedIs
<1>10. g = destination <=> ~(destination.high /\ rex # 0)
  BY <1>3, GeneralIs DEF g, dst
<1>11. Effect(Decode(w)) = Effect(i) <=> g = destination
  BY <1>9, InstructionIs, KindsDiffer
<1>12. Misencoded' <=> HighIn(i) /\ NeedsRex(i)
  BY NoMemoryMisencoded, KindsDiffer
<1>13. /\ HighIn(i) <=> destination.high
       /\ NeedsRex(i) <=> rex # 0
  BY <1>3, NeedsRexIs, HighInIs, KindsDiffer
<1>14. Judged(i, emit_encode(d), Misencoded')
  BY <1>10, <1>11, <1>12, <1>13 DEF Judged, w
<1> QED
  BY <1>14, Verdict

(* With a register of 64 bits a processor takes eight bytes for the         *)
(* immediate, and there are four.                                           *)
LEMMA MovImm32Judged ==
    ASSUME NEW destination \in Register, destination.size \in {4, 8},
           NEW v, Upto(v, 4), Len(v) = 4,
           NEW d, WithOpcode(d, \hB8, reg_info(destination), v),
           Called("mov_reg_imm32", Instruction("mov", Reg(destination), Imm(v)), emit_encode(d))
    PROVE  DecodesAsAsked'
<1> DEFINE i == Instruction("mov", Reg(destination), Imm(v))
           dst == reg_info(destination)
           s == Stream(d)
           w == WithoutEnd(emit_encode(d))
           size == destination.size
           read == FollowingCode(s, size)
<1>1. OpcodeRead(d, \hB8, dst, v)
  BY InfoType, OpcodeReadIs
<1>2. /\ dst.size = size /\ dst.num \in 0 .. 15 /\ ~destination.high
      /\ General(dst.num, size, RexOf(d)) = destination
  <2>1. size # 1
    OBVIOUS
  <2> QED
    BY <2>1, RegisterInfo, GeneralNotByte
<1>3. Code(s) \in \hB8 .. \hBF /\ OperandSize(s) = size
  <2>1. dst.num % 8 \in 0 .. 7
    BY <1>2
  <2>2. Code(s) = \hB8 + (dst.num % 8) /\ OperandSize(s) = IF dst.size = 8 THEN 8 ELSE 4
    BY <1>1 DEF OpcodeRead
  <2> HIDE DEF s, dst
  <2>3. Code(s) \in \hB8 .. \hBF
    BY <2>1, <2>2
  <2> QED
    BY <1>2, <2>2, <2>3
<1>4. Read(s) = Instruction("mov", Reg(destination), read)
  <2>1. Small(s, size) = Reg(destination)
    BY <1>1, <1>2 DEF OpcodeRead
  <2> QED
    BY <1>3, <2>1, ReadMovImmediate
<1>5. /\ LengthBefore(s) \in Nat /\ Len(w) = LengthBefore(s) + 4
      /\ CodeAt(s) \in Nat /\ s \in Seq(Byte) /\ CodeAt(s) + 4 + 16 = Len(s)
      /\ FollowingCode(s, 4) = Imm(v)
  BY <1>1 DEF OpcodeRead
<1>6. size = 4 => read = Imm(v) /\ ImmediateLength(read) = 4
  BY <1>5 DEF ImmediateLength, Imm
<1>7. size = 8 => ImmediateLength(read) = 8
  <2>1. CodeAt(s) + 8 <= Len(s)
    BY <1>5
  <2> HIDE DEF s
  <2> QED
    BY <1>5, <2>1, FollowingLength
<1>8. s = w \o Pad
  BY DEF Stream
<1> HIDE DEF s, w, read
<1>9. Decode(w) = IF LengthBefore(s) + ImmediateLength(read) = Len(w)
                    THEN Instruction("mov", Reg(destination), read) ELSE Undefined
  BY <1>4, <1>8, DecodedIs
<1>10. Misencoded' <=> size = 8
  BY <1>2, NoMemoryMisencoded, HighInIs, KindsDiffer
<1>11. Effect(Decode(w)) = Effect(i) <=> size = 4
  <2>1. CASE size = 4
    <3>1. LengthBefore(s) + ImmediateLength(read) = Len(w)
      BY <1>5, <1>6, <2>1
    <3>2. Decode(w) = i
      BY <1>6, <1>9, <2>1, <3>1
    <3> QED
      BY <2>1, <3>2
  <2>2. CASE size = 8
    <3>1. LengthBefore(s) + ImmediateLength(read) # Len(w)
      BY <1>5, <1>7, <2>2
    <3>2. Decode(w) = Undefined
      BY <1>9, <3>1
    <3> QED
      BY <2>2, <3>2, InstructionIs
  <2> QED
    BY <2>1, <2>2
<1>12. Judged(i, emit_encode(d), Misencoded')
  BY <1>10, <1>11 DEF Judged, w
<1> QED
  BY <1>12, Verdict

-----------------------------------------------------------------------------
(* The calls, form by form: what is refused, what is filled in, and the     *)
(* judgement on the rest.  First the calls without operands.                *)
LEMMA PlainDecodes ==
    ASSUME NEW op \in DOMAIN plain_opcode, emit_plain(op)
    PROVE  DecodesAsAsked'
<1> DEFINE code == plain_opcode[op]
           d == [Descriptor EXCEPT !.opcodes = <<code>>, !.has_modRM = FALSE]
           i == Instruction(op, Nothing, Nothing)
           s == Stream(d)
           w == WithoutEnd(emit_encode(d))
<1>1. /\ op \in {"clc", "stc", "nop"}
      /\ op = "clc" => code = \hF8
      /\ op = "stc" => code = \hF9
      /\ op = "nop" => code = \h90
  BY DEF plain_opcode
<1>2. Called(op, i, emit_encode(d))
  BY DEF emit_plain
<1> HIDE DEF code
<1>3. code \in Byte /\ code \notin {\h0F, \h66} \cup \h40 .. \h4F
  BY <1>1 DEF Byte
<1>4. Opcodes(<<code>>) /\ CodeOf(<<code>>) = code
  BY <1>3, OneByte
<1>5. /\ d.opcodes = <<code>> /\ d.imm_bytes = <<>> /\ ~d.has_modRM /\ ~d.has_sib
      /\ Encodable(d)
  BY <1>4, InfoType, UptoLiteral, SomeBytes, OpcodesUpto DEF Encodable, Descriptor, Modes
<1> HIDE DEF d
<1>6. BareRead(w, s, d)
  BY <1>4, <1>5, StreamIs, BareIs DEF Bare
<1>7. Code(s) = code /\ Len(w) = ModRMAt(s) - 1 /\ ModRMAt(s) \in Nat
  BY <1>4, <1>5, <1>6, Literal DEF BareRead
<1>8. Read(s) = i
  BY <1>1, <1>7, ReadOther
<1>9. LengthBefore(s) = Len(w)
  BY <1>1, <1>7 DEF LengthBefore, HasModRM
<1>10. s = w \o Pad
  BY DEF Stream
<1>11. ImmediateLength(Nothing) = 0 /\ Len(w) \in Nat
  BY <1>7, KindsDiffer DEF ImmediateLength
<1> HIDE DEF s, w
<1>12. Decode(w) = i
  <2>1. LengthBefore(s) + ImmediateLength(Nothing) = Len(w)
    BY <1>9, <1>11
  <2> QED
    BY <1>8, <1>10, <2>1, DecodedIs
<1>13. ~Misencoded'
  BY <1>1, <1>2, NoMemoryMisencoded, HighInIs, KindsDiffer
<1>14. Judged(i, emit_encode(d), Misencoded')
  BY <1>12, <1>13 DEF Judged, w
<1> QED
  BY <1>2, <1>14, Verdict

-----------------------------------------------------------------------------
(* The functions, one kind after another.                                   *)

LEMMA Refusal ==
    ASSUME NEW f, NEW i, NEW error \in Errors \cup {"none"}, Called(f, i, Refused(error))
    PROVE  DecodesAsAsked'
BY Unjudged, Verdict

(* Calls with two registers.                                                *)
LEMMA RegRegDecodes ==
    ASSUME NEW f, f \notin {"mov_reg_imm32", "sete", "setne"},
           NEW op, op # "movzx", NEW base \in Bases,
           \A s : Sized(s, base) => Read2(s, op),
           NEW destination, NEW source,
           Called(f, Instruction(op, Reg(destination), Reg(source)),
                  RegRegAnswer(destination, source,
                               <<SizeOpcode(base, reg_info(destination).size)>>))
    PROVE  DecodesAsAsked'
<1> DEFINE dst == reg_info(destination)
           src == reg_info(source)
           i == Instruction(op, Reg(destination), Reg(source))
           opcodes == <<SizeOpcode(base, dst.size)>>
           d == RegRm(dst, src, "DIRECT", opcodes)
           invalid == ~Valid({destination, source})
           mismatch == dst.size # src.size
<1>1. Called(f, i, IF invalid THEN Refused("INVALID_REGISTER")
                   ELSE IF mismatch THEN Refused("SIZE_MISMATCH") ELSE emit_encode(d))
  BY DEF RegRegAnswer
<1> HIDE DEF i, d, invalid, mismatch
<1>2. CASE invalid
  BY <1>1, <1>2, ErrorNames, Refusal
<1>3. CASE ~invalid /\ mismatch
  BY <1>1, <1>3, ErrorNames, Refusal
<1>4. CASE ~invalid /\ ~mismatch
  <2>1. destination \in Register /\ source \in Register
    BY <1>4, ValidIs DEF invalid
  <2>2. dst.size = destination.size /\ destination.size = source.size
    BY <1>4, <2>1, InfoIs DEF mismatch
  <2>3. opcodes = <<SizeOpcode(base, destination.size)>> /\ Opcodes(opcodes)
    BY <2>2, SizedOpcodes
  <2>4. WithReg(d, dst, src, "DIRECT", opcodes)
    <3>1. dst \in Info /\ src \in Info
      BY InfoType
    <3> HIDE DEF opcodes, dst, src
    <3> QED
      BY <2>3, <3>1, ModeNames, RegRmIs DEF d
  <2>5. Called(f, i, emit_encode(d))
    BY <1>1, <1>4
  <2> HIDE DEF opcodes
  <2> QED
    BY <2>1, <2>2, <2>3, <2>4, <2>5, RegRegJudged DEF i
<1> QED
  BY <1>2, <1>3, <1>4

LEMMA RegRegCallsDecode ==
    ASSUME NEW destination, NEW source,
           \/ emit_mov_reg_reg(destination, source) \/ emit_test_reg_reg(destination, source)
           \/ \E op \in AluOperations : emit_alu_reg_reg(op, destination, source)
    PROVE  DecodesAsAsked'
<1>1. CASE emit_mov_reg_reg(destination, source)
  <2>1. ASSUME NEW s, Sized(s, \h8A) PROVE Read2(s, "mov")
    <3>1. Code(s) \in {\h8A, \h8B}
      BY <2>1 DEF Sized
    <3> QED
      BY <3>1, ReadMov DEF Read2
  <2>3. \h8A \in Bases
    BY DEF Bases
  <2>2. Called("mov_reg_reg", Instruction("mov", Reg(destination), Reg(source)),
               RegRegAnswer(destination, source, <<SizeOpcode(\h8A, reg_info(destination).size)>>))
    BY <1>1 DEF emit_mov_reg_reg, RegRegAnswer
  <2> QED
    BY <2>1, <2>2, <2>3, RegRegDecodes
<1>2. CASE emit_test_reg_reg(destination, source)
  <2>1. ASSUME NEW s, Sized(s, \h84) PROVE Read2(s, "test")
    <3>1. Code(s) \in {\h84, \h85}
      BY <2>1 DEF Sized
    <3> QED
      BY <3>1, ReadMov DEF Read2
  <2>3. \h84 \in Bases
    BY DEF Bases
  <2>2. Called("test_reg_reg", Instruction("test", Reg(destination), Reg(source)),
               RegRegAnswer(destination, source, <<SizeOpcode(\h84, reg_info(destination).size)>>))
    BY <1>2 DEF emit_test_reg_reg, RegRegAnswer
  <2> QED
    BY <2>1, <2>2, <2>3, RegRegDecodes
<1>3. ASSUME NEW op \in AluOperations, emit_alu_reg_reg(op, destination, source)
      PROVE  DecodesAsAsked'
  <2> DEFINE base == alu_opcode[op] + 2
  <2>1. base \in Bases /\ op # "movzx"
    BY DEF AluOperations, alu_opcode, Bases
  <2>2. \A s : Sized(s, base) => Read2(s, op)
    BY ReadAlu DEF Read2
  <2>3. Called("alu_reg_reg", Instruction(op, Reg(destination), Reg(source)),
               RegRegAnswer(destination, source, <<SizeOpcode(base, reg_info(destination).size)>>))
    BY <1>3 DEF emit_alu_reg_reg, RegRegAnswer
  <2> HIDE DEF base
  <2> QED
    BY <2>1, <2>2, <2>3, RegRegDecodes
<1> QED
  BY <1>1, <1>2, <1>3

(* Calls with a register and memory.                                        *)
LEMMA RegMemDecodes ==
    ASSUME NEW f, f \notin {"mov_reg_imm32", "sete", "setne"} \cup LeaSibNames \cup Disp32Names,
           NEW op, op \notin {"movzx", "lea", "undefined"}, NEW base \in Bases,
           \A s : Sized(s, base) => Read2(s, op),
           NEW destination, NEW source,
           Called(f, Instruction(op, Reg(destination), At(reg_info(destination).size, source)),
                  RegMemAnswer(destination, source,
                               <<SizeOpcode(base, reg_info(destination).size)>>))
    PROVE  DecodesAsAsked'
<1> DEFINE dst == reg_info(destination)
           src == reg_info(source)
           i == Instruction(op, Reg(destination), At(dst.size, source))
           opcodes == <<SizeOpcode(base, dst.size)>>
           d == RegRm(dst, src, "INDIRECT", opcodes)
           invalid == ~Valid({destination, source})
           narrow == src.size # 8
<1>1. Called(f, i, IF invalid THEN Refused("INVALID_REGISTER")
                   ELSE IF narrow THEN Refused("INVALID_ADDRESSING") ELSE emit_encode(d))
  BY DEF RegMemAnswer
<1> HIDE DEF i, d, invalid, narrow
<1>2. CASE invalid
  BY <1>1, <1>2, ErrorNames, Refusal
<1>3. CASE ~invalid /\ narrow
  BY <1>1, <1>3, ErrorNames, Refusal
<1>4. CASE ~invalid /\ ~narrow
  <2>1. destination \in Register /\ source \in Register
    BY <1>4, ValidIs DEF invalid
  <2>2. dst.size = destination.size /\ source.size = 8
    BY <1>4, <2>1, InfoIs DEF narrow
  <2>3. opcodes = <<SizeOpcode(base, destination.size)>> /\ Opcodes(opcodes)
    BY <2>2, SizedOpcodes
  <2>4. WithReg(d, dst, src, "INDIRECT", opcodes)
    <3>1. dst \in Info /\ src \in Info
      BY InfoType
    <3> HIDE DEF opcodes, dst, src
    <3> QED
      BY <2>3, <3>1, ModeNames, RegRmIs DEF d
  <2>5. Called(f, Instruction(op, Reg(destination), At(destination.size, source)), emit_encode(d))
    BY <1>1, <1>4, <2>2 DEF i
  <2>6. \A s : Sized(s, base) => Read(s) =
            Instruction(op, RegOperand(s, ReadSize(s)), RmOperand(s, ReadSize(s)))
    BY DEF Read2
  <2> DEFINE back == FALSE
  <2>7. back \in BOOLEAN /\ ~back
    OBVIOUS
  <2> HIDE DEF opcodes, back
  <2>8. Called(f, IF back THEN Instruction(op, At(destination.size, source), Reg(destination))
                  ELSE Instruction(op, Reg(destination), At(destination.size, source)),
               emit_encode(d))
    BY <2>5, <2>7
  <2>9. \A s : Sized(s, base) => Read(s) =
            LET size == ReadSize(s)
            IN  IF back THEN Instruction(op, RmOperand(s, size), RegOperand(s, size))
                ELSE Instruction(op, RegOperand(s, size), RmOperand(s, size))
    BY <2>6, <2>7
  <2> QED
    BY <2>1, <2>2, <2>3, <2>4, <2>7, <2>8, <2>9, RegMemJudged
<1> QED
  BY <1>2, <1>3, <1>4

LEMMA MemRegDecodes ==
    ASSUME NEW destination, NEW source, emit_mov_mem_reg(destination, source)
    PROVE  DecodesAsAsked'
<1> DEFINE dst == reg_info(destination)
           src == reg_info(source)
           i == Instruction("mov", At(src.size, destination), Reg(source))
           opcodes == <<SizeOpcode(\h88, src.size)>>
           d == RegRm(src, dst, "INDIRECT", opcodes)
           invalid == ~Valid({destination, source})
           narrow == dst.size # 8
<1>1. Called("mov_mem_reg", i,
             IF invalid THEN Refused("INVALID_REGISTER")
             ELSE IF narrow THEN Refused("INVALID_ADDRESSING") ELSE emit_encode(d))
  BY DEF emit_mov_mem_reg
<1> HIDE DEF i, d, invalid, narrow
<1>2. CASE invalid
  BY <1>1, <1>2, ErrorNames, Refusal
<1>3. CASE ~invalid /\ narrow
  BY <1>1, <1>3, ErrorNames, Refusal
<1>4. CASE ~invalid /\ ~narrow
  <2>1. destination \in Register /\ source \in Register
    BY <1>4, ValidIs DEF invalid
  <2>2. src.size = source.size /\ destination.size = 8
    BY <1>4, <2>1, InfoIs DEF narrow
  <2>3. \h88 \in Bases
    BY DEF Bases
  <2>4. opcodes = <<SizeOpcode(\h88, source.size)>> /\ Opcodes(opcodes)
    BY <2>2, <2>3, SizedOpcodes
  <2>5. WithReg(d, src, dst, "INDIRECT", opcodes)
    <3>1. dst \in Info /\ src \in Info
      BY InfoType
    <3> HIDE DEF opcodes, dst, src
    <3> QED
      BY <2>4, <3>1, ModeNames, RegRmIs DEF d
  <2> DEFINE back == TRUE
  <2>6. back \in BOOLEAN /\ back
    OBVIOUS
  <2> HIDE DEF opcodes, back
  <2>7. Called("mov_mem_reg",
               IF back THEN Instruction("mov", At(source.size, destination), Reg(source))
               ELSE Instruction("mov", Reg(source), At(source.size, destination)),
               emit_encode(d))
    BY <1>1, <1>4, <2>2, <2>6 DEF i
  <2>8. ASSUME NEW s, Sized(s, \h88)
        PROVE  Read(s) =
                   LET size == ReadSize(s)
                   IN  IF back THEN Instruction("mov", RmOperand(s, size), RegOperand(s, size))
                       ELSE Instruction("mov", RegOperand(s, size), RmOperand(s, size))
    <3>1. Code(s) \in {\h88, \h89}
      BY <2>8 DEF Sized
    <3> QED
      BY <2>6, <3>1, ReadMov
  <2>9. /\ "mov_mem_reg" \notin {"mov_reg_imm32", "sete", "setne"} \cup LeaSibNames \cup Disp32Names
        /\ "mov" \notin {"movzx", "lea", "undefined"}
    BY DEF LeaSibNames, Disp32Names
  <2> QED
    BY <2>1, <2>2, <2>3, <2>4, <2>5, <2>6, <2>7, <2>8, <2>9, RegMemJudged
<1> QED
  BY <1>2, <1>3, <1>4

LEMMA RegMemCallsDecode ==
    ASSUME NEW destination, NEW source,
           \/ emit_mov_reg_mem(destination, source) \/ emit_mov_mem_reg(destination, source)
           \/ \E op \in AluOperations : emit_alu_reg_mem(op, destination, source)
    PROVE  DecodesAsAsked'
<1>1. CASE emit_mov_reg_mem(destination, source)
  <2>1. ASSUME NEW s, Sized(s, \h8A) PROVE Read2(s, "mov")
    <3>1. Code(s) \in {\h8A, \h8B}
      BY <2>1 DEF Sized
    <3> QED
      BY <3>1, ReadMov DEF Read2
  <2>2. \h8A \in Bases
    BY DEF Bases
  <2>3. Called("mov_reg_mem",
               Instruction("mov", Reg(destination), At(reg_info(destination).size, source)),
               RegMemAnswer(destination, source, <<SizeOpcode(\h8A, reg_info(destination).size)>>))
    BY <1>1 DEF emit_mov_reg_mem, RegMemAnswer
  <2>4. /\ "mov_reg_mem" \notin {"mov_reg_imm32", "sete", "setne"} \cup LeaSibNames \cup Disp32Names
        /\ "mov" \notin {"movzx", "lea", "undefined"}
    BY DEF LeaSibNames, Disp32Names
  <2> QED
    BY <2>1, <2>2, <2>3, <2>4, RegMemDecodes
<1>2. CASE emit_mov_mem_reg(destination, source)
  BY <1>2, MemRegDecodes
<1>3. ASSUME NEW op \in AluOperations, emit_alu_reg_mem(op, destination, source)
      PROVE  DecodesAsAsked'
  <2> DEFINE base == alu_opcode[op] + 2
  <2>1. base \in Bases /\ op \notin {"movzx", "lea", "undefined"}
    BY DEF AluOperations, alu_opcode, Bases
  <2>2. \A s : Sized(s, base) => Read2(s, op)
    BY ReadAlu DEF Read2
  <2>3. Called("alu_reg_mem",
               Instruction(op, Reg(destination), At(reg_info(destination).size, source)),
               RegMemAnswer(destination, source, <<SizeOpcode(base, reg_info(destination).size)>>))
    BY <1>3 DEF emit_alu_reg_mem, RegMemAnswer
  <2>4. "alu_reg_mem" \notin {"mov_reg_imm32", "sete", "setne"} \cup LeaSibNames \cup Disp32Names
    BY DEF LeaSibNames, Disp32Names
  <2> HIDE DEF base
  <2> QED
    BY <2>1, <2>2, <2>3, <2>4, RegMemDecodes
<1> QED
  BY <1>1, <1>2, <1>3

(* Calls that extend.                                                       *)
LEMMA MovzxCallsDecode ==
    ASSUME NEW destination, NEW source,
           \/ emit_movzx_reg_reg(destination, source)
           \/ \E pointer \in Sizes : emit_movzx_reg_mem(destination, source, pointer)
    PROVE  DecodesAsAsked'
<1> DEFINE dst == reg_info(destination)
           src == reg_info(source)
           invalid == ~Valid({destination, source})
<1>1. dst \in Info /\ src \in Info
  BY InfoType
<1>2. ~invalid => /\ destination \in Register /\ source \in Register
                  /\ dst.size = destination.size /\ src.size = source.size
  BY ValidIs, InfoIs
<1>3. CASE emit_movzx_reg_reg(destination, source)
  <2> DEFINE i == Instruction("movzx", Reg(destination), Reg(source))
             odd == src.size > dst.size \/ src.size \notin {1, 2}
             d == RegRm(dst, src, "DIRECT", ZeroExtend(src.size))
  <2>1. Called("movzx_reg_reg", i,
               IF invalid THEN Refused("INVALID_REGISTER")
               ELSE IF odd THEN Refused("SIZE_INVALID") ELSE emit_encode(d))
    BY <1>3 DEF emit_movzx_reg_reg
  <2> HIDE DEF i, d, invalid, odd
  <2>2. CASE invalid
    BY <2>1, <2>2, ErrorNames, Refusal
  <2>3. CASE ~invalid /\ odd
    BY <2>1, <2>3, ErrorNames, Refusal
  <2>4. CASE ~invalid /\ ~odd
    <3>1. source.size \in {1, 2} /\ source.size <= destination.size /\ src.size = source.size
      <4>1. src.size \in {1, 2} /\ ~(src.size > dst.size)
        BY <2>4 DEF odd
      <4>2. dst.size \in Int
        BY <1>1 DEF Info, Sizes
      <4> HIDE DEF src, dst
      <4> QED
        BY <1>2, <2>4, <4>1, <4>2
    <3>2. WithReg(d, dst, src, "DIRECT", ZeroExtend(source.size))
      <4>1. Opcodes(ZeroExtend(source.size))
        BY <3>1, ExtendedIs
      <4> HIDE DEF dst, src
      <4>2. d = RegRm(dst, src, "DIRECT", ZeroExtend(source.size))
        BY <3>1 DEF d
      <4> QED
        BY <1>1, <4>1, <4>2, ModeNames, RegRmIs
    <3>3. Called("movzx_reg_reg", Instruction("movzx", Reg(destination), Reg(source)), emit_encode(d))
      BY <2>1, <2>4 DEF i
    <3> QED
      BY <1>2, <2>4, <3>1, <3>2, <3>3, MovzxRegJudged
  <2> QED
    BY <2>2, <2>3, <2>4
<1>4. ASSUME NEW pointer \in Sizes, emit_movzx_reg_mem(destination, source, pointer)
      PROVE  DecodesAsAsked'
  <2> DEFINE i == Instruction("movzx", Reg(destination), At(pointer, source))
             odd == pointer \notin {1, 2} \/ src.size # 8
             narrow == dst.size <= pointer
             d == RegRm(dst, src, "INDIRECT", ZeroExtend(pointer))
  <2>1. Called("movzx_reg_mem", i,
               IF invalid THEN Refused("INVALID_REGISTER")
               ELSE IF odd THEN Refused("INVALID_ADDRESSING")
               ELSE IF narrow THEN Refused("SIZE_INVALID") ELSE emit_encode(d))
    BY <1>4 DEF emit_movzx_reg_mem
  <2> HIDE DEF i, d, invalid, odd, narrow
  <2>2. CASE invalid
    BY <2>1, <2>2, ErrorNames, Refusal
  <2>3. CASE ~invalid /\ odd
    BY <2>1, <2>3, ErrorNames, Refusal
  <2>4. CASE ~invalid /\ ~odd /\ narrow
    BY <2>1, <2>4, ErrorNames, Refusal
  <2>5. CASE ~invalid /\ ~odd /\ ~narrow
    <3>1. pointer \in {1, 2} /\ source.size = 8 /\ destination.size > pointer
      <4>1. pointer \in {1, 2} /\ src.size = 8 /\ ~(dst.size <= pointer)
        BY <2>5 DEF odd, narrow
      <4>2. dst.size \in Int
        BY <1>1 DEF Info, Sizes
      <4> HIDE DEF src, dst
      <4> QED
        BY <1>2, <2>5, <4>1, <4>2
    <3>2. WithReg(d, dst, src, "INDIRECT", ZeroExtend(pointer))
      <4>1. Opcodes(ZeroExtend(pointer))
        BY <3>1, ExtendedIs
      <4> HIDE DEF dst, src
      <4> QED
        BY <1>1, <4>1, ModeNames, RegRmIs DEF d
    <3>3. Called("movzx_reg_mem", Instruction("movzx", Reg(destination), At(pointer, source)),
                 emit_encode(d))
      BY <2>1, <2>5 DEF i
    <3> QED
      BY <1>2, <2>5, <3>1, <3>2, <3>3, MovzxMemJudged
  <2> QED
    BY <2>2, <2>3, <2>4, <2>5
<1> QED
  BY <1>3, <1>4

(* What a displacement becomes.                                             *)
LEMMA DispAsked ==
    ASSUME NEW f, NEW mode, NEW disp8, NEW disp32, NEW d,
           d.mode = mode, d.disp8 = disp8, d.disp32 = disp32[1],
           \/ mode = "INDIRECT_DISP8" /\ f \notin Disp32Names
           \/ mode = "INDIRECT" /\ f \notin Disp32Names /\ disp8 = 0
           \/ mode = "INDIRECT_DISP32" /\ f \in Disp32Names /\ disp32 \in [1 .. 4 -> Byte]
    PROVE  Disp(d) = Added(mode, disp8, disp32) <=> ~Lost(f, Added(mode, disp8, disp32))
<1>1. CASE mode = "INDIRECT_DISP8" /\ f \notin Disp32Names
  BY <1>1 DEF Disp, Added, Lost
<1>2. CASE mode = "INDIRECT" /\ f \notin Disp32Names /\ disp8 = 0
  <2>1. SignExtended(0) = <<0, 0, 0, 0>>
    BY DEF SignExtended
  <2>2. Disp(d) = <<0, 0, 0, 0>> /\ Added(mode, disp8, disp32) = SignExtended(0)
    BY <1>2 DEF Disp, Added
  <2> QED
    BY <1>2, <2>1, <2>2 DEF Lost
<1>3. CASE mode = "INDIRECT_DISP32" /\ f \in Disp32Names /\ disp32 \in [1 .. 4 -> Byte]
  <2> DEFINE low == disp32[1]
             short == <<low, 0, 0, 0>>
  <2>1. Disp(d) = short /\ Added(mode, disp8, disp32) = disp32
    BY <1>3 DEF Disp, Added
  <2>2. low \in Byte
    BY <1>3
  <2> HIDE DEF low
  <2>3. short \in [1 .. 4 -> Byte]
    BY <2>2, SomeBytes
  <2>4. short = disp32 <=> \A k \in 1 .. 4 : short[k] = disp32[k]
    <3> HIDE DEF short
    <3> QED
      BY <1>3, <2>3
  <2>5. short[1] = disp32[1] /\ short[2] = 0 /\ short[3] = 0 /\ short[4] = 0
    BY DEF low
  <2> HIDE DEF short
  <2>6. (\A k \in 1 .. 4 : short[k] = disp32[k]) <=> ~\E k \in 2 .. 4 : disp32[k] # 0
    <3>1. \A k \in 1 .. 4 : k = 1 \/ k = 2 \/ k = 3 \/ k = 4
      OBVIOUS
    <3>2. 2 \in 2 .. 4 /\ 3 \in 2 .. 4 /\ 4 \in 2 .. 4 /\ 2 .. 4 \subseteq 1 .. 4
      OBVIOUS
    <3>3. \A k \in 2 .. 4 : k = 2 \/ k = 3 \/ k = 4
      OBVIOUS
    <3> QED
      BY <2>5, <3>1, <3>2, <3>3
  <2> QED
    BY <1>3, <2>1, <2>4, <2>6 DEF Lost
<1> QED
  BY <1>1, <1>2, <1>3

Displacing(reg, rm, mode, disp8, disp32) ==
    [RegRm(reg, rm, mode, <<\h8D>>) EXCEPT !.disp8 = disp8, !.disp32 = disp32]

LEMMA LeaRegIs ==
    ASSUME NEW reg \in Info, NEW rm \in Info, NEW mode \in DOMAIN Modes,
           NEW disp8 \in Byte, NEW disp32 \in Byte
    PROVE  LET d == Displacing(reg, rm, mode, disp8, disp32)
           IN  WithReg(d, reg, rm, mode, <<\h8D>>) /\ d.disp8 = disp8 /\ d.disp32 = disp32
<1> DEFINE opcodes == <<\h8D>>
           d == Displacing(reg, rm, mode, disp8, disp32)
<1>1. Opcodes(opcodes)
  <2>1. \h8D \in Byte
    BY DEF Byte
  <2> QED
    BY <2>1, OneByte
<1>2. Encodable(d)
  BY LeaRegEncodable DEF Displacing
<1>3. d = [RegRm(reg, rm, mode, opcodes) EXCEPT !.disp8 = disp8, !.disp32 = disp32]
  BY DEF Displacing
<1> HIDE DEF opcodes, d
<1> DEFINE word == reg.size = 2
<1>4. d = [[Descriptor EXCEPT !.emit_66h = word, !.opcodes = opcodes,
                              !.reg = reg, !.rm = rm, !.mode = mode]
              EXCEPT !.disp8 = disp8, !.disp32 = disp32]
  BY <1>3 DEF RegRm
<1> HIDE DEF word
<1>5. /\ d.reg = reg /\ d.rm = rm /\ d.index = NoInfo /\ d.base = NoInfo
      /\ d.digit = 0 /\ d.imm_bytes = <<>> /\ d.emit_66h = word
      /\ d.mode = mode /\ d.opcodes = opcodes /\ d.has_modRM /\ ~d.has_sib
      /\ d.disp8 = disp8 /\ d.disp32 = disp32
  BY <1>4 DEF Descriptor
<1> QED
  BY <1>1, <1>2, <1>5 DEF WithReg, Filled, opcodes, word, d

(* Mode 00 is not a base without displacement for all bases.                *)
Reaches(mode, base) == ~(mode = "INDIRECT" /\ base.num % 8 = 5)

SibFilled(d, reg, mode, scale, index, base, disp8, disp32) ==
    /\ WithSib(d, reg, mode, scale, index, base)
    /\ d.disp8 = disp8 /\ d.disp32 = disp32

LEMMA LeaSibIs ==
    ASSUME NEW reg \in Info, NEW mode \in DOMAIN Modes, mode # "DIRECT",
           NEW scale \in {1, 2, 4, 8}, NEW index \in Info, NEW base \in Info,
           Reaches(mode, base),
           NEW disp8 \in Byte, NEW disp32 \in Byte
    PROVE  SibFilled(LeaDescriptor(reg, mode, scale, index, base, disp8, disp32),
                     reg, mode, scale, index, base, disp8, disp32)
<1> DEFINE opcodes == <<\h8D>>
           d == LeaDescriptor(reg, mode, scale, index, base, disp8, disp32)
<1>1. Opcodes(opcodes)
  <2>1. \h8D \in Byte
    BY DEF Byte
  <2> QED
    BY <2>1, OneByte
<1>2. Encodable(d)
  BY LeaSibEncodable
<1>3. d = [RegRm(reg, NoInfo, mode, opcodes) EXCEPT
              !.scale = scale, !.index = index, !.base = base,
              !.disp8 = disp8, !.disp32 = disp32, !.has_sib = TRUE]
  BY DEF LeaDescriptor
<1> HIDE DEF opcodes, d
<1> DEFINE word == reg.size = 2
<1>4. d = [[Descriptor EXCEPT !.emit_66h = word, !.opcodes = opcodes,
                              !.reg = reg, !.rm = NoInfo, !.mode = mode]
              EXCEPT !.scale = scale, !.index = index, !.base = base,
                     !.disp8 = disp8, !.disp32 = disp32, !.has_sib = TRUE]
  BY <1>3 DEF RegRm
<1> HIDE DEF word
<1>5. /\ d.reg = reg /\ d.rm = NoInfo /\ d.digit = 0 /\ d.imm_bytes = <<>>
      /\ d.emit_66h = word
      /\ d.mode = mode /\ d.scale = scale /\ d.index = index /\ d.base = base
      /\ d.opcodes = opcodes /\ d.has_modRM /\ d.has_sib
      /\ d.disp8 = disp8 /\ d.disp32 = disp32
  BY <1>4 DEF Descriptor
<1> QED
  BY <1>1, <1>2, <1>5 DEF SibFilled, WithSib, Sibbed, Reaches, opcodes, word, d

(* Calls of lea.                                                            *)
LEMMA LeaRegDecodes ==
    ASSUME NEW f \in {"lea_reg_disp8", "lea_reg_disp32"},
           NEW destination, NEW source, NEW mode, NEW disp8 \in Byte, NEW disp32, disp32[1] \in Byte,
           \/ mode = "INDIRECT_DISP8" /\ f \notin Disp32Names
           \/ mode = "INDIRECT_DISP32" /\ f \in Disp32Names /\ disp32 \in [1 .. 4 -> Byte],
           emit_lea_reg_disp(f, destination, source, mode, disp8, disp32)
    PROVE  DecodesAsAsked'
<1> DEFINE dst == reg_info(destination)
           src == reg_info(source)
           displacement == Added(mode, disp8, disp32)
           i == Instruction("lea", Reg(destination), Mem(0, source, NoRegister, 1, displacement))
           low == Narrowed(disp32)
           d == [RegRm(dst, src, mode, <<\h8D>>) EXCEPT !.disp8 = disp8, !.disp32 = low]
           invalid == ~Valid({destination, source})
           narrow == dst.size = 1
           unaddressed == src.size \in {1, 2}
<1>1. Called(f, i, IF invalid THEN Refused("INVALID_REGISTER")
                   ELSE IF narrow THEN Refused("SIZE_INVALID")
                   ELSE IF unaddressed THEN Refused("INVALID_ADDRESSING") ELSE emit_encode(d))
  BY DEF emit_lea_reg_disp
<1>2. /\ mode \in {"INDIRECT_DISP8", "INDIRECT_DISP32"} /\ mode \in DOMAIN Modes
      /\ low \in Byte /\ low = disp32[1] /\ dst \in Info /\ src \in Info
  BY InfoType, ModeNames DEF Narrowed
<1> HIDE DEF low, dst, src
<1>3. WithReg(d, dst, src, mode, <<\h8D>>) /\ d.disp8 = disp8 /\ d.disp32 = low
  <2>1. d = Displacing(dst, src, mode, disp8, low)
    BY DEF Displacing
  <2> HIDE DEF d
  <2> QED
    BY <1>2, <2>1, LeaRegIs
<1> HIDE DEF d
<1>4. Disp(d) = displacement <=> ~Lost(f, displacement)
  <2>1. d.mode = mode
    BY <1>3 DEF WithReg, Filled
  <2> QED
    BY <1>2, <1>3, <2>1, DispAsked
<1> HIDE DEF i, invalid, narrow, unaddressed, displacement
<1>5. CASE invalid
  BY <1>1, <1>5, ErrorNames, Refusal
<1>6. CASE ~invalid /\ narrow
  BY <1>1, <1>6, ErrorNames, Refusal
<1>7. CASE ~invalid /\ ~narrow /\ unaddressed
  BY <1>1, <1>7, ErrorNames, Refusal
<1>8. CASE ~invalid /\ ~narrow /\ ~unaddressed
  <2>1. destination \in Register /\ source \in Register
    BY <1>8, ValidIs DEF invalid
  <2>2. destination.size # 1 /\ source.size \in {4, 8}
    <3>1. dst.size = destination.size /\ src.size = source.size /\ source.size \in Sizes
      BY <2>1, InfoIs DEF dst, src
    <3> QED
      BY <1>8, <3>1 DEF narrow, unaddressed, Sizes
  <2>3. Called(f, Instruction("lea", Reg(destination), Mem(0, source, NoRegister, 1, displacement)),
               emit_encode(d))
    BY <1>1, <1>8 DEF i
  <2> QED
    BY <1>2, <1>3, <1>4, <2>1, <2>2, <2>3, LeaRegJudged DEF dst, src
<1> QED
  BY <1>5, <1>6, <1>7, <1>8

LEMMA LeaSibDecodes ==
    ASSUME NEW f \in LeaSibNames,
           NEW destination, NEW scale, NEW index, NEW base, NEW mode,
           NEW disp8 \in Byte, NEW disp32, disp32[1] \in Byte,
           \/ mode = "INDIRECT_DISP8" /\ f \notin Disp32Names
           \/ /\ mode = "INDIRECT" /\ f \notin Disp32Names /\ disp8 = 0
              /\ reg_info(base).num % 8 # 5
           \/ mode = "INDIRECT_DISP32" /\ f \in Disp32Names /\ disp32 \in [1 .. 4 -> Byte],
           emit_lea_sib_disp(f, destination, scale, index, base, mode, disp8, disp32)
    PROVE  DecodesAsAsked'
<1> DEFINE dst == reg_info(destination)
           x == reg_info(index)
           b == reg_info(base)
           displacement == Added(mode, disp8, disp32)
           i == Instruction("lea", Reg(destination), Mem(0, base, index, scale, displacement))
           low == Narrowed(disp32)
           d == [RegRm(dst, NoInfo, mode, <<\h8D>>) EXCEPT
                    !.scale = scale, !.index = x, !.base = b,
                    !.disp8 = disp8, !.disp32 = low, !.has_sib = TRUE]
           invalid == ~Valid({destination, index, base})
           unaddressed == x.size # 8 \/ b.size # 8
           unscaled == scale \notin {1, 2, 4, 8}
           narrow == dst.size = 1
<1>1. Called(f, i, IF invalid THEN Refused("INVALID_REGISTER")
                   ELSE IF unaddressed THEN Refused("INVALID_ADDRESSING")
                   ELSE IF unscaled THEN Refused("INVALID_SCALE")
                   ELSE IF narrow THEN Refused("SIZE_INVALID") ELSE emit_encode(d))
  BY DEF emit_lea_sib_disp
<1>2. /\ mode \in DOMAIN Modes /\ mode # "DIRECT" /\ Reaches(mode, b)
      /\ low \in Byte /\ low = disp32[1] /\ dst \in Info /\ x \in Info /\ b \in Info
  BY InfoType, ModeNames DEF Narrowed, Reaches
<1> HIDE DEF low, dst, x, b
<1>3. d = LeaDescriptor(dst, mode, scale, x, b, disp8, low)
  BY DEF LeaDescriptor
<1> HIDE DEF i, d, invalid, unaddressed, unscaled, narrow, displacement
<1>4. CASE invalid
  BY <1>1, <1>4, ErrorNames, Refusal
<1>5. CASE ~invalid /\ unaddressed
  BY <1>1, <1>5, ErrorNames, Refusal
<1>6. CASE ~invalid /\ ~unaddressed /\ unscaled
  BY <1>1, <1>6, ErrorNames, Refusal
<1>7. CASE ~invalid /\ ~unaddressed /\ ~unscaled /\ narrow
  BY <1>1, <1>7, ErrorNames, Refusal
<1>8. CASE ~invalid /\ ~unaddressed /\ ~unscaled /\ ~narrow
  <2>1. destination \in Register /\ index \in Register /\ base \in Register
    BY <1>8, ValidIs DEF invalid
  <2>2. destination.size # 1 /\ index.size = 8 /\ base.size = 8 /\ scale \in {1, 2, 4, 8}
    <3>1. dst.size = destination.size /\ x.size = index.size /\ b.size = base.size
      BY <2>1, InfoIs DEF dst, x, b
    <3> QED
      BY <1>8, <3>1 DEF narrow, unaddressed, unscaled
  <2>3. WithSib(d, dst, mode, scale, x, b) /\ d.disp8 = disp8 /\ d.disp32 = low
    <3>1. scale \in {1, 2, 4, 8}
      BY <2>2
    <3>2. SibFilled(LeaDescriptor(dst, mode, scale, x, b, disp8, low),
                    dst, mode, scale, x, b, disp8, low)
      BY <1>2, <3>1, LeaSibIs
    <3> QED
      BY <1>3, <3>2 DEF SibFilled
  <2>4. Disp(d) = displacement <=> ~Lost(f, displacement)
    <3>1. d.mode = mode
      BY <2>3 DEF WithSib
    <3> QED
      BY <1>2, <2>3, <3>1, DispAsked DEF displacement
  <2>5. Called(f, Instruction("lea", Reg(destination), Mem(0, base, index, scale, displacement)),
               emit_encode(d))
    BY <1>1, <1>8 DEF i
  <2> QED
    BY <2>1, <2>2, <2>3, <2>4, <2>5, LeaSibJudged DEF dst, x, b
<1> QED
  BY <1>4, <1>5, <1>6, <1>7, <1>8

LEMMA LeaCallsDecode ==
    ASSUME NEW destination, NEW source,
           \/ \E v \in Bytes1 : emit_lea_reg_disp8(destination, source, v)
           \/ \E v \in Bytes4 : emit_lea_reg_disp32(destination, source, v)
           \/ \E i \in IndexRegisters, scale \in Scales :
               \/ emit_lea_sib(destination, scale, i, source)
               \/ \E v \in Bytes1 : emit_lea_sib_disp8(destination, scale, i, source, v)
               \/ \E v \in Bytes4 : emit_lea_sib_disp32(destination, scale, i, source, v)
    PROVE  DecodesAsAsked'
<1>1. /\ \A v \in Bytes1 : v[1] \in Byte
      /\ \A v \in Bytes4 : v[1] \in Byte /\ v \in [1 .. 4 -> Byte]
      /\ Zeros[1] \in Byte /\ 0 \in Byte
  BY EmitterAssumption, ImmediateBytes, SomeBytes DEF Zeros
<1>2. /\ "lea_reg_disp8" \notin Disp32Names /\ "lea_reg_disp32" \in Disp32Names
      /\ {"lea_sib", "lea_sib_disp8", "lea_sib_disp32"} \subseteq LeaSibNames
      /\ "lea_sib" \notin Disp32Names /\ "lea_sib_disp8" \notin Disp32Names
      /\ "lea_sib_disp32" \in Disp32Names
  BY DEF LeaSibNames, Disp32Names
<1>3. ASSUME NEW v \in Bytes1, emit_lea_reg_disp8(destination, source, v)
      PROVE  DecodesAsAsked'
  BY <1>1, <1>2, <1>3, LeaRegDecodes DEF emit_lea_reg_disp8
<1>4. ASSUME NEW v \in Bytes4, emit_lea_reg_disp32(destination, source, v)
      PROVE  DecodesAsAsked'
  BY <1>1, <1>2, <1>4, LeaRegDecodes DEF emit_lea_reg_disp32
<1>5. ASSUME NEW index, NEW scale, emit_lea_sib(destination, scale, index, source)
      PROVE  DecodesAsAsked'
  <2> DEFINE five == reg_info(source).num % 8 = 5
             mode == IF five THEN "INDIRECT_DISP8" ELSE "INDIRECT"
  <2>1. emit_lea_sib_disp("lea_sib", destination, scale, index, source, mode, 0, Zeros)
    BY <1>5 DEF emit_lea_sib
  <2>2. CASE five
    <3>1. mode = "INDIRECT_DISP8"
      BY <2>2
    <3> HIDE DEF mode, five
    <3> QED
      BY <1>1, <1>2, <2>1, <3>1, LeaSibDecodes
  <2>3. CASE ~five
    <3>1. mode = "INDIRECT" /\ reg_info(source).num % 8 # 5
      BY <2>3
    <3> HIDE DEF mode, five
    <3> QED
      BY <1>1, <1>2, <2>1, <3>1, LeaSibDecodes
  <2> QED
    BY <2>2, <2>3
<1>6. ASSUME NEW index, NEW scale, NEW v \in Bytes1,
             emit_lea_sib_disp8(destination, scale, index, source, v)
      PROVE  DecodesAsAsked'
  BY <1>1, <1>2, <1>6, LeaSibDecodes DEF emit_lea_sib_disp8
<1>7. ASSUME NEW index, NEW scale, NEW v \in Bytes4,
             emit_lea_sib_disp32(destination, scale, index, source, v)
      PROVE  DecodesAsAsked'
  BY <1>1, <1>2, <1>7, LeaSibDecodes DEF emit_lea_sib_disp32
<1> QED
  BY <1>3, <1>4, <1>5, <1>6, <1>7

(* A processor takes an opcode and a digit, with the operand size of the    *)
(* prefixes, for an operation on a register of a size and an immediate.     *)
TakenFor(op, opcodes, digit, size, length) ==
    \A s : /\ Code(s) = CodeOf(opcodes) /\ Digit(s) = digit
           /\ OperandSize(s) = IF size = 1 THEN 4 ELSE size
           => /\ HasModRM(s)
              /\ Read(s) = Instruction(op, RmOperand(s, size), Following(s, length))

(* A call with an immediate, when a processor takes an immediate of that    *)
(* length for that opcode.                                                  *)
LEMMA ImmediateDecodes ==
    ASSUME NEW f, f \notin {"mov_reg_imm32", "sete", "setne"}, NEW op, op # "movzx",
           NEW digit \in 0 .. 7, NEW opcodes, Opcodes(opcodes),
           NEW destination, NEW v, Upto(v, 4), NEW sizes, NEW error \in Errors \cup {"none"},
           destination \in Register /\ destination.size \in sizes =>
               TakenFor(op, opcodes, digit, destination.size, Len(v)),
           Immediate(f, op, digit, opcodes, destination, v, sizes, error)
    PROVE  DecodesAsAsked'
<1> DEFINE dst == reg_info(destination)
           i == Instruction(op, Reg(destination), Imm(v))
           word == dst.size = 2
           d == [DigitRm(digit, dst, "DIRECT", opcodes, word) EXCEPT !.imm_bytes = v]
           invalid == ~dst.valid
           wrong == dst.size \notin sizes
           s == Stream(d)
<1>1. Called(f, i, IF invalid THEN Refused("INVALID_REGISTER")
                   ELSE IF wrong THEN Refused(error) ELSE emit_encode(d))
  BY DEF Immediate
<1>2. WithDigit(d, digit, dst, "DIRECT", opcodes, word, v)
  <2>1. dst \in Info
    BY InfoType
  <2> HIDE DEF dst, word
  <2> QED
    BY <2>1, ModeNames, DigitRmIs
<1> HIDE DEF i, d, invalid, wrong
<1>3. CASE invalid
  BY <1>1, <1>3, ErrorNames, Refusal
<1>4. CASE ~invalid /\ wrong
  BY <1>1, <1>4, ErrorNames, Refusal
<1>5. CASE ~invalid /\ ~wrong
  <2>1. destination \in Register /\ dst.size = destination.size
    BY <1>5, InfoIs DEF invalid
  <2>2. destination.size \in sizes /\ destination.size \in Sizes
    BY <1>5, <2>1, InfoIs DEF wrong
  <2>3. TakenFor(op, opcodes, digit, destination.size, Len(v))
    BY <2>1, <2>2
  <2> HIDE DEF dst
  <2>4. /\ Code(s) = CodeOf(opcodes) /\ Digit(s) = digit
        /\ OperandSize(s) = IF dst.size = 8 THEN 8 ELSE IF word THEN 2 ELSE 4
        /\ Following(s, Len(v)) = Imm(v)
    BY <1>2, DigitRead
  <2> HIDE DEF s
  <2>5. OperandSize(s) = IF destination.size = 1 THEN 4 ELSE destination.size
    BY <2>1, <2>2, <2>4 DEF Sizes
  <2>6. HasModRM(s) /\ Read(s) = Instruction(op, RmOperand(s, destination.size), Imm(v))
    BY <2>3, <2>4, <2>5 DEF TakenFor
  <2>7. ImmediateLength(Imm(v)) = Len(v)
    BY DEF ImmediateLength, Imm
  <2>8. Called(f, Instruction(op, Reg(destination), Imm(v)), emit_encode(d))
    BY <1>1, <1>5 DEF i
  <2>9. Imm(v).kind # "mem" /\ NamedIn(Imm(v)) = {} /\ SizeOf(Imm(v)) = 0
    BY KindsDiffer
  <2>10. WithDigit(d, digit, reg_info(destination), "DIRECT", opcodes, word, v)
    BY <1>2 DEF dst
  <2> HIDE DEF word
  <2> QED
    BY <2>1, <2>6, <2>7, <2>8, <2>9, <2>10, OneRegJudged DEF s
<1> QED
  BY <1>3, <1>4, <1>5

(* The opcodes with an immediate, for the sizes they are written with.      *)
LEMMA OpcodesTaken ==
    /\ Opcodes(<<\h80>>) /\ CodeOf(<<\h80>>) = \h80
    /\ Opcodes(<<\h81>>) /\ CodeOf(<<\h81>>) = \h81
    /\ Opcodes(<<\h83>>) /\ CodeOf(<<\h83>>) = \h83
    /\ Opcodes(<<\hF6>>) /\ CodeOf(<<\hF6>>) = \hF6
    /\ Opcodes(<<\hF7>>) /\ CodeOf(<<\hF7>>) = \hF7
    /\ Opcodes(<<\h0F, \hBA>>) /\ CodeOf(<<\h0F, \hBA>>) = 256 + \hBA
<1>1. ASSUME NEW code \in {\h80, \h81, \h83, \hF6, \hF7}
      PROVE  Opcodes(<<code>>) /\ CodeOf(<<code>>) = code
  <2>1. code \in Byte /\ code \notin {\h0F, \h66} \cup \h40 .. \h4F
    BY DEF Byte
  <2> QED
    BY <2>1, OneByte
<1>2. \hBA \in Byte
  BY DEF Byte
<1> QED
  BY <1>1, <1>2, TwoBytes

LEMMA AluTaken ==
    ASSUME NEW op \in AluOperations
    PROVE  /\ TakenFor(op, <<\h80>>, alu_digit[op], 1, 1)
           /\ \A size \in {2, 4, 8} : TakenFor(op, <<\h83>>, alu_digit[op], size, 1)
           /\ TakenFor(op, <<\h81>>, alu_digit[op], 2, 2)
           /\ \A size \in {4, 8} : TakenFor(op, <<\h81>>, alu_digit[op], size, 4)
<1>1. TakenFor(op, <<\h80>>, alu_digit[op], 1, 1)
  <2> SUFFICES ASSUME NEW s, Code(s) = \h80, Digit(s) = alu_digit[op]
               PROVE  /\ HasModRM(s)
                      /\ Read(s) = Instruction(op, RmOperand(s, 1), Following(s, 1))
    BY OpcodesTaken DEF TakenFor
  <2>1. ReadSize(s) = 1 /\ Wide32(1) = 1 /\ Sized(s, \h80) /\ HasModRM(s)
    BY DEF ReadSize, Wide32, Sized, HasModRM
  <2> QED
    BY <2>1, ReadAluImmediate
<1>2. ASSUME NEW size \in {2, 4, 8}
      PROVE  TakenFor(op, <<\h83>>, alu_digit[op], size, 1)
  <2> SUFFICES ASSUME NEW s, Code(s) = \h83, Digit(s) = alu_digit[op], OperandSize(s) = size
               PROVE  /\ HasModRM(s)
                      /\ Read(s) = Instruction(op, RmOperand(s, size), Following(s, 1))
    BY OpcodesTaken DEF TakenFor
  <2>1. ReadSize(s) = size /\ HasModRM(s)
    BY DEF ReadSize, HasModRM
  <2> QED
    BY <2>1, ReadAluImmediate
<1>3. ASSUME NEW size \in {2, 4, 8}
      PROVE  TakenFor(op, <<\h81>>, alu_digit[op], size, Wide32(size))
  <2> SUFFICES ASSUME NEW s, Code(s) = \h81, Digit(s) = alu_digit[op], OperandSize(s) = size
               PROVE  /\ HasModRM(s)
                      /\ Read(s) = Instruction(op, RmOperand(s, size), Following(s, Wide32(size)))
    BY OpcodesTaken DEF TakenFor
  <2>1. ReadSize(s) = size /\ HasModRM(s) /\ Sized(s, \h80)
    BY DEF ReadSize, HasModRM, Sized
  <2> QED
    BY <2>1, ReadAluImmediate
<1>4. Wide32(2) = 2 /\ \A size \in {4, 8} : Wide32(size) = 4
  BY DEF Wide32
<1>5. TakenFor(op, <<\h81>>, alu_digit[op], 2, 2)
  BY <1>3, <1>4
<1>6. ASSUME NEW size \in {4, 8}
      PROVE  TakenFor(op, <<\h81>>, alu_digit[op], size, 4)
  <2>1. TakenFor(op, <<\h81>>, alu_digit[op], size, Wide32(size))
    BY <1>3
  <2> QED
    BY <1>4, <2>1
<1> QED
  BY <1>1, <1>2, <1>5, <1>6

LEMMA TestTaken ==
    /\ TakenFor("test", <<\hF6>>, 0, 1, 1)
    /\ TakenFor("test", <<\hF7>>, 0, 2, 2)
    /\ \A size \in {4, 8} : TakenFor("test", <<\hF7>>, 0, size, 4)
<1>1. TakenFor("test", <<\hF6>>, 0, 1, 1)
  <2> SUFFICES ASSUME NEW s, Code(s) = \hF6, Digit(s) = 0
               PROVE  /\ HasModRM(s)
                      /\ Read(s) = Instruction("test", RmOperand(s, 1), Following(s, 1))
    BY OpcodesTaken DEF TakenFor
  <2>1. ReadSize(s) = 1 /\ Wide32(1) = 1 /\ Sized(s, \hF6) /\ HasModRM(s)
    BY DEF ReadSize, Wide32, Sized, HasModRM
  <2> QED
    BY <2>1, ReadImmediate
<1>2. ASSUME NEW size \in {2, 4, 8}
      PROVE  TakenFor("test", <<\hF7>>, 0, size, Wide32(size))
  <2> SUFFICES ASSUME NEW s, Code(s) = \hF7, Digit(s) = 0, OperandSize(s) = size
               PROVE  /\ HasModRM(s)
                      /\ Read(s) = Instruction("test", RmOperand(s, size), Following(s, Wide32(size)))
    BY OpcodesTaken DEF TakenFor
  <2>1. ReadSize(s) = size /\ HasModRM(s) /\ Sized(s, \hF6)
    BY DEF ReadSize, HasModRM, Sized
  <2> QED
    BY <2>1, ReadImmediate
<1>3. Wide32(2) = 2 /\ \A size \in {4, 8} : Wide32(size) = 4
  BY DEF Wide32
<1>4. TakenFor("test", <<\hF7>>, 0, 2, 2)
  BY <1>2, <1>3
<1>5. ASSUME NEW size \in {4, 8}
      PROVE  TakenFor("test", <<\hF7>>, 0, size, 4)
  <2>1. TakenFor("test", <<\hF7>>, 0, size, Wide32(size))
    BY <1>2
  <2> QED
    BY <1>3, <2>1
<1> QED
  BY <1>1, <1>4, <1>5

LEMMA BtTaken ==
    ASSUME NEW size \in {2, 4, 8}
    PROVE  TakenFor("bt", <<\h0F, \hBA>>, 4, size, 1)
<1> SUFFICES ASSUME NEW s, Code(s) = 256 + \hBA, Digit(s) = 4, OperandSize(s) = size
             PROVE  /\ HasModRM(s)
                    /\ Read(s) = Instruction("bt", RmOperand(s, size), Following(s, 1))
  BY OpcodesTaken DEF TakenFor
<1> QED
  BY ReadImmediate DEF HasModRM

LEMMA ShiftTaken ==
    ASSUME NEW op \in {"shl", "shr"}, NEW size \in Sizes
    PROVE  TakenFor(op, <<SizeOpcode(\hC0, size)>>, group_digit[op], size, 1)
<1>1. \hC0 \in Bases
  BY DEF Bases
<1>2. CodeOf(<<SizeOpcode(\hC0, size)>>) = IF size = 1 THEN \hC0 ELSE \hC0 + 1
  BY <1>1, SizedOpcodes
<1> SUFFICES ASSUME NEW s, Code(s) = (IF size = 1 THEN \hC0 ELSE \hC0 + 1),
                    Digit(s) = group_digit[op], OperandSize(s) = IF size = 1 THEN 4 ELSE size
             PROVE  /\ HasModRM(s)
                    /\ Read(s) = Instruction(op, RmOperand(s, size), Following(s, 1))
  BY <1>2 DEF TakenFor
<1>3. Sized(s, \hC0) /\ HasModRM(s) /\ ReadSize(s) = IF size = 1 THEN 1 ELSE OperandSize(s)
  BY <1>1, SizedRead
<1>4. ReadSize(s) = size
  BY <1>3
<1> QED
  BY <1>3, <1>4, ReadImmediate

(* Calls with an immediate.                                                 *)
LEMMA Imm8CallsDecode ==
    ASSUME NEW destination, NEW v \in Bytes1,
           \/ emit_test_reg_imm8(destination, v) \/ emit_bt_reg_imm8(destination, v)
           \/ \E op \in AluOperations : emit_alu_reg_imm8(op, destination, v)
           \/ \E op \in {"shl", "shr"} : emit_group_imm(op, destination, v)
    PROVE  DecodesAsAsked'
<1>1. Upto(v, 4) /\ Len(v) = 1
  BY EmitterAssumption, ImmediateBytes
<1>2. CASE emit_test_reg_imm8(destination, v)
  <2> DEFINE opcodes == <<\hF6>>
             sizes == {1}
             error == "SIZE_MISMATCH"
  <2>1. Immediate("test_reg_imm8", "test", 0, opcodes, destination, v, sizes, error)
    BY <1>2 DEF emit_test_reg_imm8
  <2>2. destination.size \in sizes => TakenFor("test", opcodes, 0, destination.size, Len(v))
    BY <1>1, TestTaken
  <2>3. Opcodes(opcodes) /\ error \in Errors \cup {"none"} /\ 0 \in 0 .. 7
    BY OpcodesTaken, ErrorNames
  <2> HIDE DEF opcodes, sizes, error
  <2> QED
    BY <1>1, <2>1, <2>2, <2>3, ImmediateDecodes
<1>3. CASE emit_bt_reg_imm8(destination, v)
  <2> DEFINE opcodes == <<\h0F, \hBA>>
             sizes == {2, 4, 8}
             error == "SIZE_MISMATCH"
  <2>1. Immediate("bt_reg_imm8", "bt", 4, opcodes, destination, v, sizes, error)
    BY <1>3 DEF emit_bt_reg_imm8
  <2>2. destination.size \in sizes => TakenFor("bt", opcodes, 4, destination.size, Len(v))
    BY <1>1, BtTaken
  <2>3. Opcodes(opcodes) /\ error \in Errors \cup {"none"} /\ 4 \in 0 .. 7
    BY OpcodesTaken, ErrorNames
  <2> HIDE DEF opcodes, sizes, error
  <2> QED
    BY <1>1, <2>1, <2>2, <2>3, ImmediateDecodes
<1>4. ASSUME NEW op \in AluOperations, emit_alu_reg_imm8(op, destination, v)
      PROVE  DecodesAsAsked'
  <2> DEFINE size == reg_info(destination).size
             opcodes == <<IF size = 1 THEN \h80 ELSE \h83>>
             digit == alu_digit[op]
  <2>1. Immediate("alu_reg_imm8", op, digit, opcodes, destination, v, Sizes, "none")
    BY <1>4 DEF emit_alu_reg_imm8
  <2>2. digit \in 0 .. 7 /\ op # "movzx"
    BY Tables DEF AluOperations, alu_opcode
  <2>3. Opcodes(opcodes)
    <3>1. CASE size = 1
      BY <3>1, OpcodesTaken
    <3>2. CASE size # 1
      BY <3>2, OpcodesTaken
    <3> QED
      BY <3>1, <3>2
  <2>4. ASSUME destination \in Register
        PROVE  TakenFor(op, opcodes, digit, destination.size, Len(v))
    <3>1. size = destination.size /\ size \in Sizes
      BY <2>4, InfoIs
    <3>2. CASE size = 1
      <4>1. opcodes = <<\h80>>
        BY <3>2
      <4> HIDE DEF size, opcodes
      <4> QED
        BY <1>1, <3>1, <3>2, <4>1, AluTaken
    <3>3. CASE size \in {2, 4, 8}
      <4>1. opcodes = <<\h83>>
        BY <3>3
      <4> HIDE DEF size, opcodes
      <4> QED
        BY <1>1, <3>1, <3>3, <4>1, AluTaken
    <3> QED
      BY <3>1, <3>2, <3>3 DEF Sizes
  <2> HIDE DEF opcodes, digit
  <2> QED
    BY <1>1, <2>1, <2>2, <2>3, <2>4, ImmediateDecodes
<1>5. ASSUME NEW op \in {"shl", "shr"}, emit_group_imm(op, destination, v)
      PROVE  DecodesAsAsked'
  <2> DEFINE size == reg_info(destination).size
             opcodes == <<SizeOpcode(\hC0, size)>>
             digit == group_digit[op]
  <2>1. Immediate("group_imm", op, digit, opcodes, destination, v, Sizes, "none")
    BY <1>5 DEF emit_group_imm
  <2>2. digit \in 0 .. 7 /\ op # "movzx"
    BY DEF group_digit
  <2>3. Opcodes(opcodes)
    <3>1. \hC0 \in Bases
      BY DEF Bases
    <3> QED
      BY <3>1, SizedOpcodes
  <2>4. destination \in Register => TakenFor(op, opcodes, digit, destination.size, Len(v))
    <3> SUFFICES ASSUME destination \in Register
                 PROVE  TakenFor(op, opcodes, digit, destination.size, Len(v))
      OBVIOUS
    <3>1. size = destination.size /\ size \in Sizes
      BY InfoIs
    <3> QED
      BY <1>1, <3>1, ShiftTaken
  <2> HIDE DEF opcodes, digit
  <2> QED
    BY <1>1, <2>1, <2>2, <2>3, <2>4, ImmediateDecodes
<1> QED
  BY <1>2, <1>3, <1>4, <1>5

LEMMA Imm16CallsDecode ==
    ASSUME NEW destination, NEW v \in Bytes2,
           \/ emit_test_reg_imm16(destination, v)
           \/ \E op \in AluOperations : emit_alu_reg_imm16(op, destination, v)
    PROVE  DecodesAsAsked'
<1>1. Upto(v, 4) /\ Len(v) = 2
  BY EmitterAssumption, ImmediateBytes
<1>2. CASE emit_test_reg_imm16(destination, v)
  <2> DEFINE opcodes == <<\hF7>>
             sizes == {2}
             error == "SIZE_MISMATCH"
  <2>1. Immediate("test_reg_imm16", "test", 0, opcodes, destination, v, sizes, error)
    BY <1>2 DEF emit_test_reg_imm16
  <2>2. destination.size \in sizes => TakenFor("test", opcodes, 0, destination.size, Len(v))
    BY <1>1, TestTaken
  <2>3. Opcodes(opcodes) /\ error \in Errors \cup {"none"} /\ 0 \in 0 .. 7
    BY OpcodesTaken, ErrorNames
  <2> HIDE DEF opcodes, sizes, error
  <2> QED
    BY <1>1, <2>1, <2>2, <2>3, ImmediateDecodes
<1>3. ASSUME NEW op \in AluOperations, emit_alu_reg_imm16(op, destination, v)
      PROVE  DecodesAsAsked'
  <2> DEFINE digit == alu_digit[op]
             opcodes == <<\h81>>
             sizes == {2}
             error == "SIZE_INVALID"
  <2>1. Immediate("alu_reg_imm16", op, digit, opcodes, destination, v, sizes, error)
    BY <1>3 DEF emit_alu_reg_imm16
  <2>2. digit \in 0 .. 7 /\ op # "movzx"
    BY Tables DEF AluOperations, alu_opcode
  <2>3. destination.size \in sizes => TakenFor(op, opcodes, digit, destination.size, Len(v))
    BY <1>1, AluTaken
  <2>4. Opcodes(opcodes) /\ error \in Errors \cup {"none"}
    BY OpcodesTaken, ErrorNames
  <2> HIDE DEF digit, opcodes, sizes, error
  <2> QED
    BY <1>1, <2>1, <2>2, <2>3, <2>4, ImmediateDecodes
<1> QED
  BY <1>2, <1>3

LEMMA Imm32CallsDecode ==
    ASSUME NEW destination, NEW v \in Bytes4,
           \/ emit_test_reg_imm32(destination, v)
           \/ \E op \in AluOperations : emit_alu_reg_imm32(op, destination, v)
    PROVE  DecodesAsAsked'
<1>1. Upto(v, 4) /\ Len(v) = 4
  BY EmitterAssumption, ImmediateBytes
<1>2. CASE emit_test_reg_imm32(destination, v)
  <2> DEFINE opcodes == <<\hF7>>
             sizes == {4, 8}
             error == "SIZE_MISMATCH"
  <2>1. Immediate("test_reg_imm32", "test", 0, opcodes, destination, v, sizes, error)
    BY <1>2 DEF emit_test_reg_imm32
  <2>2. destination.size \in sizes => TakenFor("test", opcodes, 0, destination.size, Len(v))
    BY <1>1, TestTaken
  <2>3. Opcodes(opcodes) /\ error \in Errors \cup {"none"} /\ 0 \in 0 .. 7
    BY OpcodesTaken, ErrorNames
  <2> HIDE DEF opcodes, sizes, error
  <2> QED
    BY <1>1, <2>1, <2>2, <2>3, ImmediateDecodes
<1>3. ASSUME NEW op \in AluOperations, emit_alu_reg_imm32(op, destination, v)
      PROVE  DecodesAsAsked'
  <2> DEFINE digit == alu_digit[op]
             opcodes == <<\h81>>
             sizes == {4, 8}
             error == "SIZE_INVALID"
  <2>1. Immediate("alu_reg_imm32", op, digit, opcodes, destination, v, sizes, error)
    BY <1>3 DEF emit_alu_reg_imm32
  <2>2. digit \in 0 .. 7 /\ op # "movzx"
    BY Tables DEF AluOperations, alu_opcode
  <2>3. destination.size \in sizes => TakenFor(op, opcodes, digit, destination.size, Len(v))
    BY <1>1, AluTaken
  <2>4. Opcodes(opcodes) /\ error \in Errors \cup {"none"}
    BY OpcodesTaken, ErrorNames
  <2> HIDE DEF digit, opcodes, sizes, error
  <2> QED
    BY <1>1, <2>1, <2>2, <2>3, <2>4, ImmediateDecodes
<1> QED
  BY <1>2, <1>3

LEMMA MovImmediateDecodes ==
    ASSUME NEW destination,
           \/ \E v \in Bytes1 : emit_mov_reg_imm8(destination, v)
           \/ \E v \in Bytes4 : emit_mov_reg_imm32(destination, v)
    PROVE  DecodesAsAsked'
<1> DEFINE dst == reg_info(destination)
           invalid == ~dst.valid
<1>1. dst \in Info
  BY InfoType
<1>2. ASSUME NEW v \in Bytes1, emit_mov_reg_imm8(destination, v)
      PROVE  DecodesAsAsked'
  <2> DEFINE i == Instruction("mov", Reg(destination), Imm(v))
             d == OpcodeReg(\hB0, dst, v)
             wrong == dst.size # 1
  <2>1. Called("mov_reg_imm8", i, IF invalid THEN Refused("INVALID_REGISTER")
                                  ELSE IF wrong THEN Refused("SIZE_INVALID") ELSE emit_encode(d))
    BY <1>2 DEF emit_mov_reg_imm8
  <2>2. Upto(v, 4) /\ Len(v) = 1
    BY EmitterAssumption, ImmediateBytes
  <2>3. WithOpcode(d, \hB0, dst, v)
    <3> HIDE DEF dst
    <3> QED
      BY <1>1, <2>2, OpcodeRegIs
  <2> HIDE DEF i, d, invalid, wrong
  <2>4. CASE invalid
    BY <2>1, <2>4, ErrorNames, Refusal
  <2>5. CASE ~invalid /\ wrong
    BY <2>1, <2>5, ErrorNames, Refusal
  <2>6. CASE ~invalid /\ ~wrong
    <3>1. destination \in Register /\ destination.size = 1
      BY <2>6, InfoIs DEF invalid, wrong
    <3>2. Called("mov_reg_imm8", Instruction("mov", Reg(destination), Imm(v)), emit_encode(d))
      BY <2>1, <2>6 DEF i
    <3> QED
      BY <2>2, <2>3, <3>1, <3>2, MovImm8Judged
  <2> QED
    BY <2>4, <2>5, <2>6
<1>3. ASSUME NEW v \in Bytes4, emit_mov_reg_imm32(destination, v)
      PROVE  DecodesAsAsked'
  <2> DEFINE i == Instruction("mov", Reg(destination), Imm(v))
             d == OpcodeReg(\hB8, dst, v)
             wrong == dst.size \notin {4, 8}
  <2>1. Called("mov_reg_imm32", i, IF invalid THEN Refused("INVALID_REGISTER")
                                   ELSE IF wrong THEN Refused("SIZE_INVALID") ELSE emit_encode(d))
    BY <1>3 DEF emit_mov_reg_imm32
  <2>2. Upto(v, 4) /\ Len(v) = 4
    BY EmitterAssumption, ImmediateBytes
  <2>3. WithOpcode(d, \hB8, dst, v)
    <3> HIDE DEF dst
    <3> QED
      BY <1>1, <2>2, OpcodeRegIs
  <2> HIDE DEF i, d, invalid, wrong
  <2>4. CASE invalid
    BY <2>1, <2>4, ErrorNames, Refusal
  <2>5. CASE ~invalid /\ wrong
    BY <2>1, <2>5, ErrorNames, Refusal
  <2>6. CASE ~invalid /\ ~wrong
    <3>1. destination \in Register /\ destination.size \in {4, 8}
      BY <2>6, InfoIs DEF invalid, wrong
    <3>2. Called("mov_reg_imm32", Instruction("mov", Reg(destination), Imm(v)), emit_encode(d))
      BY <2>1, <2>6 DEF i
    <3> QED
      BY <2>2, <2>3, <3>1, <3>2, MovImm32Judged
  <2> QED
    BY <2>4, <2>5, <2>6
<1> QED
  BY <1>2, <1>3

(* The tables of group.c.                                                   *)
LEMMA GroupTables ==
    ASSUME NEW op \in GroupOperations
    PROVE  group[op] \in Bases /\ group_digit[op] \in 0 .. 7 /\ op # "movzx"
BY DEF GroupOperations, group, group_digit, Bases

(* Calls with one operand.                                                  *)
LEMMA GroupRegDecodes ==
    ASSUME NEW op \in GroupOperations, NEW destination, emit_group_reg(op, destination)
    PROVE  DecodesAsAsked'
<1> DEFINE dst == reg_info(destination)
           i == Instruction(op, Reg(destination), Nothing)
           digit == group_digit[op]
           base == group[op]
           opcodes == <<SizeOpcode(base, dst.size)>>
           word == dst.size = 2
           d == DigitRm(digit, dst, "DIRECT", opcodes, word)
           invalid == ~dst.valid
           none == <<>>
           s == Stream(d)
<1>1. Called("group_reg", i, IF invalid THEN Refused("INVALID_REGISTER") ELSE emit_encode(d))
  BY DEF emit_group_reg
<1>2. /\ Opcodes(opcodes) /\ CodeOf(opcodes) = IF dst.size = 1 THEN base ELSE base + 1
      /\ base \in Bases /\ digit \in 0 .. 7 /\ op # "movzx"
  <2>1. base \in Bases /\ digit \in 0 .. 7 /\ op # "movzx"
    BY GroupTables
  <2> HIDE DEF base, digit, dst
  <2> QED
    BY <2>1, SizedOpcodes
<1>3. WithDigit(d, digit, dst, "DIRECT", opcodes, word, none)
  <2>1. dst \in Info
    BY InfoType
  <2>2. Upto(none, 4)
    BY DEF Upto
  <2> HIDE DEF dst, word, digit, opcodes
  <2> QED
    BY <1>2, <2>1, <2>2, ModeNames, DigitRmIs
<1> HIDE DEF i, d, invalid
<1>4. CASE invalid
  BY <1>1, <1>4, ErrorNames, Refusal
<1>5. CASE ~invalid
  <2>1. destination \in Register /\ dst.size = destination.size /\ destination.size \in Sizes
    BY <1>5, InfoIs DEF invalid
  <2> HIDE DEF dst, opcodes, base, digit, word, none
  <2>2. /\ Code(s) = CodeOf(opcodes) /\ Digit(s) = digit
        /\ OperandSize(s) = IF dst.size = 8 THEN 8 ELSE IF word THEN 2 ELSE 4
    BY <1>3, DigitRead
  <2> HIDE DEF s
  <2>3. Code(s) = IF destination.size = 1 THEN base ELSE base + 1
    BY <1>2, <2>1, <2>2
  <2>4. /\ Sized(s, base) /\ HasModRM(s)
        /\ ReadSize(s) = IF destination.size = 1 THEN 1 ELSE OperandSize(s)
    BY <1>2, <2>3, SizedRead
  <2>5. ReadSize(s) = destination.size
    BY <2>1, <2>2, <2>4 DEF Sizes, word
  <2>6. Read(s) = Instruction(op, RmOperand(s, destination.size), Nothing)
    <3>1. Read(s) = Instruction(op, RmOperand(s, ReadSize(s)), Nothing)
      BY <2>2, <2>4, ReadGroup DEF base, digit
    <3> QED
      BY <2>5, <3>1
  <2>7. ImmediateLength(Nothing) = Len(none)
    BY DEF ImmediateLength, Nothing, none
  <2>8. Called("group_reg", Instruction(op, Reg(destination), Nothing), emit_encode(d))
    BY <1>1, <1>5 DEF i
  <2>9. Nothing.kind # "mem" /\ NamedIn(Nothing) = {} /\ SizeOf(Nothing) = 0
    BY KindsDiffer
  <2>10. WithDigit(d, digit, reg_info(destination), "DIRECT", opcodes, word, none)
    BY <1>3 DEF dst
  <2> QED
    BY <1>2, <2>1, <2>4, <2>6, <2>7, <2>8, <2>9, <2>10, OneRegJudged DEF s
<1> QED
  BY <1>4, <1>5

LEMMA GroupMemDecodes ==
    ASSUME NEW op \in GroupOperations, NEW destination, NEW ptr_size \in Sizes,
           emit_group_mem(op, destination, ptr_size)
    PROVE  DecodesAsAsked'
<1> DEFINE dst == reg_info(destination)
           i == Instruction(op, At(ptr_size, destination), Nothing)
           digit == group_digit[op]
           base == group[op]
           opcodes == <<SizeOpcode(base, ptr_size)>>
           word == ptr_size = 2
           d == DigitRm(digit, dst, "INDIRECT", opcodes, word)
           invalid == ~dst.valid
           wrong == dst.size # 8
<1>1. Called("group_mem", i, IF invalid THEN Refused("INVALID_REGISTER")
                             ELSE IF wrong THEN Refused("INVALID_ADDRESSING") ELSE emit_encode(d))
  BY DEF emit_group_mem
<1>2. Opcodes(opcodes) /\ digit \in 0 .. 7
  <2>1. base \in Bases /\ digit \in 0 .. 7
    BY GroupTables
  <2> HIDE DEF base, digit
  <2> QED
    BY <2>1, SizedOpcodes
<1>3. WithDigit(d, digit, dst, "INDIRECT", opcodes, word, <<>>)
  <2>1. dst \in Info
    BY InfoType
  <2>2. Upto(<<>>, 4)
    BY DEF Upto
  <2> HIDE DEF dst, word, digit, opcodes
  <2> QED
    BY <1>2, <2>1, <2>2, ModeNames, DigitRmIs
<1> HIDE DEF i, d, invalid, wrong
<1>4. CASE invalid
  BY <1>1, <1>4, ErrorNames, Refusal
<1>5. CASE ~invalid /\ wrong
  BY <1>1, <1>5, ErrorNames, Refusal
<1>6. CASE ~invalid /\ ~wrong
  <2>1. destination \in Register /\ destination.size = 8
    BY <1>6, InfoIs DEF invalid, wrong
  <2>2. Called("group_mem", Instruction(op, At(ptr_size, destination), Nothing), emit_encode(d))
    BY <1>1, <1>6 DEF i
  <2> QED
    BY <1>3, <2>1, <2>2, GroupMemJudged
<1> QED
  BY <1>4, <1>5, <1>6

(* The opcode of a setcc names its condition, but those of sete and setne.  *)
LEMMA ConditionTables ==
    ASSUME NEW condition \in DOMAIN condition_opcode
    PROVE  /\ condition_opcode[condition] \in Byte
           /\ condition_opcode[condition] - \h90 \in 0 .. 15
           /\ condition \in {"sete", "setne"} <=>
                  condition_opcode[condition] - \h90 # Conditions[condition]
           /\ condition # "mov_reg_imm32"
BY DEF condition_opcode, Conditions, Byte

(* Calls that set a byte from a condition.                                  *)
LEMMA SetFlagsDecodes ==
    ASSUME NEW condition \in DOMAIN condition_opcode, NEW destination,
           emit_set_flags(condition, destination)
    PROVE  DecodesAsAsked'
<1> DEFINE dst == reg_info(destination)
           meant == Conditions[condition]
           code == condition_opcode[condition]
           n == code - \h90
           src == Condition(meant)
           read == Condition(n)
           i == Instruction("set", Reg(destination), src)
           opcodes == <<\h0F, code>>
           d == DigitRm(0, dst, "DIRECT", opcodes, FALSE)
           invalid == ~dst.valid
           wrong == dst.size # 1
           s == Stream(d)
<1>1. Called(condition, i, IF invalid THEN Refused("INVALID_REGISTER")
                           ELSE IF wrong THEN Refused("SIZE_INVALID") ELSE emit_encode(d))
  BY DEF emit_set_flags
<1>2. /\ code \in Byte /\ n \in 0 .. 15 /\ condition # "mov_reg_imm32"
      /\ condition \in {"sete", "setne"} <=> n # meant
  BY ConditionTables
<1>3. code = \h90 + n
  <2>1. code \in Int
    BY <1>2 DEF Byte
  <2> HIDE DEF code
  <2> QED
    BY <2>1
<1> HIDE DEF meant, code, n
<1>4. condition \in {"sete", "setne"} <=> read # src
  <2>1. read = src <=> n = meant
    BY DEF Condition
  <2> QED
    BY <1>2, <2>1
<1>5. Opcodes(opcodes) /\ CodeOf(opcodes) = 256 + code
  BY <1>2, TwoBytes
<1>6. WithDigit(d, 0, dst, "DIRECT", opcodes, FALSE, <<>>)
  <2>1. dst \in Info
    BY InfoType
  <2>2. Upto(<<>>, 4) /\ 0 \in 0 .. 7
    BY DEF Upto
  <2> HIDE DEF dst, opcodes
  <2> QED
    BY <1>5, <2>1, <2>2, ModeNames, DigitRmIs
<1> HIDE DEF i, d, invalid, wrong
<1>7. CASE invalid
  BY <1>1, <1>7, ErrorNames, Refusal
<1>8. CASE ~invalid /\ wrong
  BY <1>1, <1>8, ErrorNames, Refusal
<1>9. CASE ~invalid /\ ~wrong
  <2>1. destination \in Register /\ destination.size = 1
    BY <1>9, InfoIs DEF invalid, wrong
  <2> HIDE DEF dst, opcodes
  <2>2. Code(s) = CodeOf(opcodes)
    BY <1>6, DigitRead
  <2> HIDE DEF s
  <2>3. Code(s) = 256 + \h90 + n
    BY <1>2, <1>3, <1>5, <2>2
  <2>4. HasModRM(s)
    BY <1>2, <2>3 DEF HasModRM
  <2>5. Read(s) = Instruction("set", RmOperand(s, destination.size), read)
    BY <1>2, <2>1, <2>3, ReadSet
  <2>6. ImmediateLength(read) = Len(<<>>)
    BY DEF ImmediateLength, Condition
  <2>7. Called(condition, Instruction("set", Reg(destination), src), emit_encode(d))
    BY <1>1, <1>9 DEF i
  <2>8. src.kind # "mem" /\ NamedIn(src) = {} /\ SizeOf(src) = 0
    BY DEF Condition, NamedIn, SizeOf
  <2>9. WithDigit(d, 0, reg_info(destination), "DIRECT", opcodes, FALSE, <<>>)
    BY <1>6 DEF dst
  <2> HIDE DEF src, read
  <2> QED
    BY <1>2, <1>4, <2>1, <2>4, <2>5, <2>6, <2>7, <2>8, <2>9, OneRegJudged DEF s
<1> QED
  BY <1>7, <1>8, <1>9

(* All calls.                                                               *)
LEMMA CallDecodes ==
    ASSUME Call
    PROVE  DecodesAsAsked'
<1>1. ASSUME NEW d \in Registers, NEW s \in Registers,
             \/ emit_mov_reg_reg(d, s) \/ emit_mov_reg_mem(d, s) \/ emit_mov_mem_reg(d, s)
             \/ emit_movzx_reg_reg(d, s) \/ emit_test_reg_reg(d, s)
             \/ \E pointer \in Sizes : emit_movzx_reg_mem(d, s, pointer)
             \/ \E op \in AluOperations : emit_alu_reg_reg(op, d, s)
             \/ \E op \in AluOperations \ {"add"} : emit_alu_reg_mem(op, d, s)
             \/ \E v \in Bytes1 : emit_lea_reg_disp8(d, s, v)
             \/ \E v \in Bytes4 : emit_lea_reg_disp32(d, s, v)
             \/ \E i \in IndexRegisters, scale \in Scales :
                 \/ emit_lea_sib(d, scale, i, s)
                 \/ \E v \in Bytes1 : emit_lea_sib_disp8(d, scale, i, s, v)
                 \/ \E v \in Bytes4 : emit_lea_sib_disp32(d, scale, i, s, v)
      PROVE  DecodesAsAsked'
  BY <1>1, RegRegCallsDecode, RegMemCallsDecode, MovzxCallsDecode, LeaCallsDecode
<1>2. ASSUME NEW d \in Registers,
             \/ \E v \in Bytes1 :
                 \/ emit_mov_reg_imm8(d, v) \/ emit_test_reg_imm8(d, v) \/ emit_bt_reg_imm8(d, v)
                 \/ \E op \in AluOperations : emit_alu_reg_imm8(op, d, v)
                 \/ \E op \in {"shl", "shr"} : emit_group_imm(op, d, v)
             \/ \E v \in Bytes2 :
                 \/ emit_test_reg_imm16(d, v)
                 \/ \E op \in AluOperations : emit_alu_reg_imm16(op, d, v)
             \/ \E v \in Bytes4 :
                 \/ emit_mov_reg_imm32(d, v) \/ emit_test_reg_imm32(d, v)
                 \/ \E op \in AluOperations : emit_alu_reg_imm32(op, d, v)
      PROVE  DecodesAsAsked'
  BY <1>2, MovImmediateDecodes, Imm8CallsDecode, Imm16CallsDecode, Imm32CallsDecode
<1>3. ASSUME NEW d \in Registers,
             \/ \E op \in GroupOperations : emit_group_reg(op, d)
             \/ \E op \in GroupOperations \ {"not"}, ptr_size \in Sizes :
                    emit_group_mem(op, d, ptr_size)
      PROVE  DecodesAsAsked'
  BY <1>3, GroupRegDecodes, GroupMemDecodes
<1>4. ASSUME NEW d \in Registers,
             \E condition \in DOMAIN condition_opcode : emit_set_flags(condition, d)
      PROVE  DecodesAsAsked'
  BY <1>4, SetFlagsDecodes
<1>5. ASSUME \E op \in DOMAIN plain_opcode : emit_plain(op)
      PROVE  DecodesAsAsked'
  BY <1>5, PlainDecodes
<1> QED
  BY <1>1, <1>2, <1>3, <1>4, <1>5 DEF Call

(* Whatever an emit_ function is called with, if it answers with bytes then *)
(* a processor in 64-bit mode that reads them takes all of them and no more *)
(* as one instruction, the one that was asked for, but for the faults       *)
(* listed in Misencoded; and those, whenever they apply, make another       *)
(* instruction of it.                                                       *)
THEOREM DecodesAsAskedCorrect == Spec => []DecodesAsAsked
<1>1. Init => DecodesAsAsked
  BY DEF Init, Idle, DecodesAsAsked
<1>2. DecodesAsAsked /\ [Next]_vars => DecodesAsAsked'
  <2> SUFFICES ASSUME DecodesAsAsked, [Next]_vars PROVE DecodesAsAsked'
    OBVIOUS
  <2>1. CASE Call
    BY <2>1, CallDecodes
  <2>2. CASE UNCHANGED vars
    BY <2>2 DEF vars, DecodesAsAsked, Written, Misencoded, MemoryOperands, LeaSib, BaseNeedsMore,
             WidenedByBase, BaseTooWide, IndexIsNone, DisplacementLost, HighLost,
             ImmediateTooShort, ZeroExtendsToByte, WrongCondition
  <2> QED
    BY <2>1, <2>2 DEF Next, Done
<1> QED
  BY <1>1, <1>2, PTL DEF Spec
=============================================================================
