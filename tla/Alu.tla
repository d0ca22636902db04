--------------------------------- MODULE Alu ---------------------------------
(***************************************************************************)
(* The arithmetic of the handlers (ops.h), which the threaded and the block *)
(* engine run.  The model executes one instruction from every state of the  *)
(* register, the byte and the status it starts with.  Which register it is  *)
(* and where the byte lies is the business of the addressing mode.          *)
(***************************************************************************)
EXTENDS Bytes

CONSTANTS
    Registers,  \* the values a register may have before the instruction
    Values,     \* the values of the byte
    Statuses    \* the status registers

ASSUME InputAssumption ==
    Registers \subseteq Byte /\ Values \subseteq Byte /\ Statuses \subseteq SUBSET BitNo

VARIABLES
    chip,  \* the part of chip_t the instruction works on
    op     \* the instruction executed, "none" before

vars == <<chip, op>>

TypeOK == chip \in Chip

-----------------------------------------------------------------------------
SetZeroAndNegative(status, value) ==
    With(With(status, Z, value = 0), N, Negative(value)) \cup {U}

(* The register becomes value and the flags say so.                         *)
Result(c, value) ==
    [c EXCEPT !.reg = value, !.status = SetZeroAndNegative(c.status, value)]

(* OP_LOAD_REG, OP_TRANSFER_TO_REG, OP_PULL_ACCUMULATOR                     *)
Load(c) == Result(c, c.val)
(* OP_STORE_REG, OP_TRANSFER_TO_STACK, OP_PUSH_TO_STACK of the accumulator  *)
StoreReg(c) == [c EXCEPT !.val = c.reg]

PushStatus(c) == [c EXCEPT !.val = ValueOf[c.status \cup {B, U}]]
PullStatus(c) == [c EXCEPT !.status = Bits[c.val] \cup {B, U}]

-----------------------------------------------------------------------------
(* A shifted byte: what was shifted out goes to the carry.                  *)
Shifted(c, value, out) ==
    [c EXCEPT !.val = value,
              !.status = SetZeroAndNegative(With(c.status, C, out), value)]

AslValue(c) == Shifted(c, (c.val * 2) % 256, Negative(c.val))
LsrValue(c) ==
    LET r == Shifted(c, c.val \div 2, 0 \in Bits[c.val])
    IN  [r EXCEPT !.status = @ \ {N}]

(* A rotation that reads the carry after setting it.                        *)
RolValueLate(c) ==
    LET carry == CarryIn(With(c.status, C, Negative(c.val)))
    IN  Shifted(c, ((c.val * 2) % 256) + carry, Negative(c.val))
RolValue(c) == Shifted(c, ((c.val * 2) % 256) + CarryIn(c.status), Negative(c.val))

(* A rotation that leaves the old carry out.                                *)
RorValueDropped(c) == Shifted(c, c.val \div 2, 0 \in Bits[c.val])
RorValue(c) == Shifted(c, (c.val \div 2) + 128 * CarryIn(c.status), 0 \in Bits[c.val])

-----------------------------------------------------------------------------
AndValue(c) == Result(c, ValueOf[Bits[c.reg] \cap Bits[c.val]])
EorValue(c) ==
    Result(c, ValueOf[(Bits[c.reg] \ Bits[c.val]) \cup (Bits[c.val] \ Bits[c.reg])])
OraValue(c) == Result(c, ValueOf[Bits[c.reg] \cup Bits[c.val]])

BitValue(c) ==
    LET zero == With(c.status, Z, Bits[c.reg] \cap Bits[c.val] = {})
    IN  [c EXCEPT !.status =
            With(With(zero, N, Negative(c.val)), V, 6 \in Bits[c.val]) \cup {U}]

-----------------------------------------------------------------------------
(* ~(a ^ v) & (a ^ r) & 0x80                                                *)
AddOverflow(a, v, r) == Negative(a) = Negative(v) /\ Negative(a) # Negative(r)

(* What the register keeps of a sum or a difference.                        *)
AccumulatedWide(n) == n
Accumulated(n) == n % 256

(* ADC_VALUE with the two nibbles corrected before the carry between them.  *)
AdcValueLateCarry(c) ==
    LET carry == CarryIn(c.status)
        low == (c.reg % 16) + (c.val % 16) + carry
        high == (c.reg \div 16) + (c.val \div 16) + (IF low > 15 THEN 1 ELSE 0)
        alu == ((high % 16) * 16) + (low % 16)
        Fixed(nibble) == IF nibble > 9 THEN nibble + 6 ELSE nibble
        sum == c.reg + c.val + carry
        decimal == D \in c.status
        shown == IF decimal THEN alu ELSE sum % 256
        out == IF decimal THEN Fixed(high) > 15 ELSE sum > 255
    IN  [c EXCEPT
            !.reg = IF decimal THEN (Fixed(high) % 16) * 16 + (Fixed(low) % 16) ELSE shown,
            !.status = With(With(SetZeroAndNegative(@, shown), C, out),
                            V, AddOverflow(c.reg, c.val, shown))]

(* In decimal mode the flags but the carry come from the nibbles before     *)
(* their correction.                                                        *)
AdcValue(c) ==
    LET carry == CarryIn(c.status)
        sum == c.reg + c.val + carry
        low == (c.reg % 16) + (c.val % 16) + carry
        high == (c.reg \div 16) + (c.val \div 16) + (IF low > 9 THEN 1 ELSE 0)
        Corrected(nibble) == IF nibble > 9 THEN nibble + 6 ELSE nibble
        decimal == D \in c.status
        shown == IF decimal THEN ((high % 16) * 16) + (low % 16) ELSE sum % 256
        out == IF decimal THEN Corrected(high) > 15 ELSE sum > 255
    IN  [c EXCEPT
            !.reg = IF decimal
                    THEN ((Corrected(high) % 16) * 16) + (Corrected(low) % 16)
                    ELSE Accumulated(sum),
            !.status = With(With(SetZeroAndNegative(@, shown), C, out),
                            V, AddOverflow(c.reg, c.val, shown))]

(* (a ^ r) & (a ^ v) & 0x80                                                 *)
SubOverflowAsAdd(a, v, r) == AddOverflow(a, v, r)
SubOverflow(a, v, r) == Negative(a) # Negative(v) /\ Negative(a) # Negative(r)

(* The decimal correction of a difference, in uint16_t.                     *)
DecimalDifferenceNoBorrow(c, difference) ==
    LET borrowed == (c.reg % 16) < (c.val % 16)
        low == IF borrowed THEN (difference - 6) % 65536 ELSE difference
    IN  IF low < 256 THEN (low - 96) % 65536 ELSE low
DecimalDifference(c, difference) ==
    LET borrowed == (c.reg % 16) < (c.val % 16) + (1 - CarryIn(c.status))
        low == IF borrowed THEN (difference - 6) % 65536 ELSE difference
    IN  IF low < 256 THEN (low - 96) % 65536 ELSE low

SbcValue(c) ==
    LET difference == c.reg + (255 - c.val) + CarryIn(c.status)
        corrected == IF D \in c.status THEN DecimalDifference(c, difference) ELSE difference
        binary == difference % 256
    IN  [c EXCEPT
            !.reg = Accumulated(corrected),
            !.status = With(SetZeroAndNegative(With(@, C, difference > 255), binary),
                            V, SubOverflow(c.reg, c.val, binary))]

(* A compare that takes equal for less.                                     *)
CmpValueStrict(c) ==
    [c EXCEPT !.status =
        With(SetZeroAndNegative(@, (c.reg - c.val) % 256), C, c.reg > c.val)]

(* CMP_VALUE, CPX_VALUE, CPY_VALUE                                          *)
CmpValue(c) ==
    [c EXCEPT !.status =
        With(SetZeroAndNegative(@, (c.reg - c.val) % 256), C, c.reg >= c.val)]

-----------------------------------------------------------------------------
(* DEC_MEM and INC_MEM; OP_DEX, OP_DEY, OP_INX and OP_INY on the register.  *)
Stepped(c, value) ==
    [c EXCEPT !.val = value, !.status = SetZeroAndNegative(c.status, value)]
DecMem(c) == Stepped(c, (c.val - 1) % 256)
IncMem(c) == Stepped(c, (c.val + 1) % 256)
DecReg(c) == Result(c, (c.reg - 1) % 256)
IncReg(c) == Result(c, (c.reg + 1) % 256)
-----------------------------------------------------------------------------
(* The flag a branch tests and the value it is taken at.                    *)
Branches ==
    {<<"BCC", C, FALSE>>, <<"BCS", C, TRUE>>, <<"BEQ", Z, TRUE>>, <<"BMI", N, TRUE>>,
     <<"BNE", Z, FALSE>>, <<"BPL", N, FALSE>>, <<"BVC", V, FALSE>>, <<"BVS", V, TRUE>>}

Branch(c, b) == [c EXCEPT !.taken = (b[2] \in c.status) = b[3]]

-----------------------------------------------------------------------------
Init ==
    /\ chip \in [reg : Registers, val : Values, status : Statuses, taken : {FALSE}]
    /\ op = "none"

Instruction(name, result) ==
    /\ op = "none"
    /\ op' = name
    /\ chip' = result

Finished == op # "none" /\ UNCHANGED vars

Next ==
    \/ Instruction("LD", Load(chip))
    \/ Instruction("ST", StoreReg(chip))
    \/ Instruction("PHP", PushStatus(chip))
    \/ Instruction("PLP", PullStatus(chip))
    \/ Instruction("ASL", AslValue(chip))
    \/ Instruction("LSR", LsrValue(chip))
    \/ Instruction("ROL", RolValue(chip))
    \/ Instruction("ROR", RorValue(chip))
    \/ Instruction("AND", AndValue(chip))
    \/ Instruction("EOR", EorValue(chip))
    \/ Instruction("BIT", BitValue(chip))
    \/ Instruction("ORA", OraValue(chip))
    \/ Instruction("ADC", AdcValue(chip))
    \/ Instruction("SBC", SbcValue(chip))
    \/ Instruction("CMP", CmpValue(chip))
    \/ Instruction("DEC", DecMem(chip))
    \/ Instruction("INC", IncMem(chip))
    \/ Instruction("DEX", DecReg(chip))
    \/ Instruction("INX", IncReg(chip))
    \/ \E f \in FlagInstructions :
           Instruction(f[1], [chip EXCEPT !.status = With(@, f[2], f[3])])
    \/ \E b \in Branches : Instruction(b[1], Branch(chip, b))
    \/ Finished

Spec == Init /\ [][Next]_vars

-----------------------------------------------------------------------------
Linear == INSTANCE LinearAlu

(* The two copies of the arithmetic agree: from every register, byte and    *)
(* status, in both modes, a handler of ops.h leaves exactly what the        *)
(* function of linear.c leaves, the flags included.                         *)
ImplementsLinear == Linear!Spec

IsDecimal(x) == x % 16 < 10 /\ x \div 16 < 10
DecimalOf(x) == 10 * (x \div 16) + (x % 16)
Signed(x) == IF x < 128 THEN x ELSE x - 256

(* In decimal mode ADC and SBC of two-digit numbers give the two digits of  *)
(* the sum or difference, and a carry or a borrow exactly when it has left  *)
(* the range 0 .. 99, so that longer numbers can be added digit by digit.   *)
DecimalArithmetic ==
    [][LET carry == CarryIn(chip.status)
           out == CarryIn(chip'.status)
           a == DecimalOf(chip.reg)
           b == DecimalOf(chip.val)
           r == DecimalOf(chip'.reg)
       IN  D \in chip.status /\ IsDecimal(chip.reg) /\ IsDecimal(chip.val) =>
               /\ op' \in {"ADC", "SBC"} => IsDecimal(chip'.reg)
               /\ op' = "ADC" => a + b + carry = 100 * out + r
               /\ op' = "SBC" => a - b - (1 - carry) = r - 100 * (1 - out)]_vars

(* In binary mode V says that the signed result of ADC and SBC does not fit *)
(* in a byte: BVC and BVS branch on it.                                     *)
OverflowIsSigned ==
    [][LET a == Signed(chip.reg)
           b == Signed(chip.val)
           carry == CarryIn(chip.status)
           overflow == V \in chip'.status
       IN  D \notin chip.status =>
               /\ op' = "ADC" => overflow = (a + b + carry \notin -128 .. 127)
               /\ op' = "SBC" => overflow = (a - b - (1 - carry) \notin -128 .. 127)]_vars

(* SBC of the same byte, with the opposite carry, takes back what ADC added *)
(* (in decimal mode: to decimal numbers).                                   *)
SubtractUndoesAdd ==
    [][op' = "ADC" /\ (D \in chip.status => IsDecimal(chip.reg) /\ IsDecimal(chip.val)) =>
           SbcValue([chip' EXCEPT !.status = With(@, C, C \notin chip.status)]).reg = chip.reg]_vars

(* A compare followed by a branch decides as a subtraction without borrow   *)
(* would: the same C, Z and N, in decimal mode too.                         *)
CompareIsSubtract ==
    [][op' = "CMP" =>
           LET s == SbcValue([chip EXCEPT !.status = @ \cup {C}])
           IN  chip'.status \cap {C, Z, N} = s.status \cap {C, Z, N}]_vars

(* ROL and ROR rotate nine bits, the byte and the carry: each takes back    *)
(* what the other did.                                                      *)
RotatesInvert ==
    [][LET Undone(c) == c.val = chip.val /\ (C \in c.status) = (C \in chip.status)
       IN  /\ op' = "ROL" => Undone(RorValue(chip'))
           /\ op' = "ROR" => Undone(RolValue(chip'))]_vars
==============================================================================
