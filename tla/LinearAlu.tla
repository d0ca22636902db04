------------------------------ MODULE LinearAlu ------------------------------
(***************************************************************************)
(* The same instructions as Alu, as linear.c executes them for the          *)
(* FETCH_DECODE_EXECUTE engine.                                             *)
(***************************************************************************)
EXTENDS Bytes

CONSTANTS Registers, Values, Statuses

VARIABLES chip, op

set_ZN(status, value) ==
    With(With(status, Z, value = 0), N, Negative(value)) \cup {U}

SetRegister(c, value) ==
    [c EXCEPT !.reg = value, !.status = set_ZN(c.status, value)]
SetMemory(c, value) ==
    [c EXCEPT !.val = value, !.status = set_ZN(c.status, value)]

php(c) == [c EXCEPT !.val = ValueOf[c.status \cup {B, U}]]
plp(c) == [c EXCEPT !.status = Bits[c.val] \cup {B, U}]

(* A shift sets the carry first, then shifts the byte in place and sets Z   *)
(* and N from what memory holds.                                            *)
asl_memory_value(c) ==
    SetMemory([c EXCEPT !.status = With(@, C, 7 \in Bits[c.val])], (2 * c.val) % 256)
lsr_memory_value(c) ==
    LET carried == [c EXCEPT !.status = With(@, C, 0 \in Bits[c.val])]
        shifted == SetMemory(carried, c.val \div 2)
    IN  [shifted EXCEPT !.status = @ \ {N}]
rol_memory_value(c) ==
    SetMemory([c EXCEPT !.status = With(@, C, 7 \in Bits[c.val])],
              (2 * c.val + CarryIn(c.status)) % 256)
ror_memory_value(c) ==
    SetMemory([c EXCEPT !.status = With(@, C, 0 \in Bits[c.val])],
              ValueOf[Bits[c.val \div 2] \cup (IF C \in c.status THEN {7} ELSE {})])

op_and(c) == SetRegister(c, ValueOf[Bits[c.reg] \cap Bits[c.val]])
eor_memory_value(c) ==
    SetRegister(c, ValueOf[{i \in BitNo : (i \in Bits[c.reg]) # (i \in Bits[c.val])}])
or_memory_value(c) == SetRegister(c, ValueOf[Bits[c.reg] \cup Bits[c.val]])

bit_memory_value(c) ==
    [c EXCEPT !.status =
        (@ \ {Z, N, V}) \cup {U} \cup (Bits[c.val] \cap {N, V})
            \cup (IF Bits[c.reg] \cap Bits[c.val] = {} THEN {Z} ELSE {})]

adc(c) ==
    LET carry == CarryIn(c.status)
        sum == c.reg + c.val + carry
        low_nibble == (c.reg % 16) + (c.val % 16) + carry
        half_carry == IF low_nibble > 9 THEN 1 ELSE 0
        high_nibble == (c.reg \div 16) + (c.val \div 16) + half_carry
        Adjust(nibble) == IF nibble > 9 THEN nibble + 6 ELSE nibble
        decimal == D \in c.status
        zn_result == IF decimal THEN 16 * (high_nibble % 16) + (low_nibble % 16)
                     ELSE sum % 256
        carried == IF decimal THEN Adjust(high_nibble) > 15 ELSE (sum \div 256) % 2 = 1
        overflow == (7 \in Bits[c.reg]) = (7 \in Bits[c.val])
                        /\ (7 \in Bits[c.reg]) # (7 \in Bits[zn_result])
    IN  [c EXCEPT
            !.reg = IF decimal
                    THEN 16 * (Adjust(high_nibble) % 16) + (Adjust(low_nibble) % 16)
                    ELSE sum % 256,
            !.status = With(set_ZN(With(@, C, carried), zn_result), V, overflow)]

sbc(c) ==
    LET carry == CarryIn(c.status)
        difference == c.reg + (255 - c.val) + carry
        binary_difference == difference % 256
        overflow == (7 \in Bits[c.reg]) # (7 \in Bits[binary_difference])
                        /\ (7 \in Bits[c.reg]) # (7 \in Bits[c.val])
        low == IF c.reg % 16 < (c.val % 16) + 1 - carry
               THEN (difference - 6) % 65536 ELSE difference
        decimal == IF low < 256 THEN (low - 96) % 65536 ELSE low
    IN  [c EXCEPT
            !.reg = (IF D \in c.status THEN decimal ELSE difference) % 256,
            !.status = With(set_ZN(With(@, C, difference > 255), binary_difference),
                            V, overflow)]

(* cmp_acc, cmp_x, cmp_y                                                    *)
cmp(c) ==
    [c EXCEPT !.status = With(set_ZN(@, (c.reg - c.val) % 256), C, c.reg >= c.val)]

(* The condition of op_bcc .. op_bvs.                                       *)
condition(status) ==
    [BCC |-> C \notin status, BCS |-> C \in status, BEQ |-> Z \in status,
     BMI |-> N \in status, BNE |-> Z \notin status, BPL |-> N \notin status,
     BVC |-> V \notin status, BVS |-> V \in status]

-----------------------------------------------------------------------------
Init ==
    /\ chip \in [reg : Registers, val : Values, status : Statuses, taken : {FALSE}]
    /\ op = "none"

Function(name, result) == op = "none" /\ op' = name /\ chip' = result

(* The op_* functions; dec, inc and the steps of a register are one line    *)
(* each in the code and here.                                               *)
Next ==
    \/ Function("LD", SetRegister(chip, chip.val))
    \/ Function("ST", [chip EXCEPT !.val = chip.reg])
    \/ Function("PHP", php(chip))
    \/ Function("PLP", plp(chip))
    \/ Function("ASL", asl_memory_value(chip))
    \/ Function("LSR", lsr_memory_value(chip))
    \/ Function("ROL", rol_memory_value(chip))
    \/ Function("ROR", ror_memory_value(chip))
    \/ Function("AND", op_and(chip))
    \/ Function("EOR", eor_memory_value(chip))
    \/ Function("BIT", bit_memory_value(chip))
    \/ Function("ORA", or_memory_value(chip))
    \/ Function("ADC", adc(chip))
    \/ Function("SBC", sbc(chip))
    \/ Function("CMP", cmp(chip))
    \/ Function("DEC", SetMemory(chip, (chip.val - 1) % 256))
    \/ Function("INC", SetMemory(chip, (chip.val + 1) % 256))
    \/ Function("DEX", SetRegister(chip, (chip.reg - 1) % 256))
    \/ Function("INX", SetRegister(chip, (chip.reg + 1) % 256))
    \/ \E f \in FlagInstructions :
           Function(f[1], [chip EXCEPT !.status = With(@, f[2], f[3])])
    \/ \E b \in DOMAIN condition(chip.status) :
           Function(b, [chip EXCEPT !.taken = condition(chip.status)[b]])

Spec == Init /\ [][Next]_<<chip, op>>
==============================================================================
