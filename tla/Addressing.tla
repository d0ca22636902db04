----------------------------- MODULE Addressing -----------------------------
(***************************************************************************)
(* Where the handlers of ops.h find their operands and where they leave the *)
(* program counter: effective addresses, the stack, subroutines and         *)
(* interrupts.  The handlers get their operand from the precoded            *)
(* instruction; linear.c fetches it byte by byte.  A byte has PAGE values   *)
(* and memory has PAGE pages, so that all arithmetic wraps where the code's *)
(* uint8_t and uint16_t do.  The model executes one instruction.            *)
(***************************************************************************)
EXTENDS Integers

CONSTANTS
    PAGE,          \* the size of a page and the number of values of a byte (256)
    Chips,         \* the states an instruction is executed from
    BreakBits,     \* BreakBits[s]: s | 0x30
    InterruptBit   \* InterruptBit[s]: s | 0x04

MEMORY_SIZE == PAGE * PAGE
Byte == 0 .. PAGE - 1
Address == 0 .. MEMORY_SIZE - 1

(* chip_t; reg is the register a load or store is about.                    *)
Chip == [memory : [Address -> Byte], pc : Address, x : Byte, y : Byte,
         sp : Byte, reg : Byte, status : Byte]

ASSUME PageAssumption == PAGE \in Nat /\ PAGE >= 4
ASSUME ChipsAssumption ==
    /\ Chips \subseteq Chip
    /\ BreakBits \in [Byte -> Byte]
    /\ InterruptBit \in [Byte -> Byte]

VARIABLES chip, op

vars == <<chip, op>>

TypeOK == chip \in Chip

-----------------------------------------------------------------------------
(* uint8_t and uint16_t                                                     *)
Byte8(n) == n % PAGE
Word16(n) == n % MEMORY_SIZE

(* lo | (hi << 8), and the two bytes of a word.                             *)
Word(lo, hi) == lo + PAGE * hi
Low(w) == w % PAGE
High(w) == w \div PAGE

(* (int8_t)b                                                                *)
SignedByte(b) == IF 2 * b < PAGE THEN b ELSE b - PAGE

(* precode_instruction refuses an instruction that runs past the end of     *)
(* memory and stores the operand.                                           *)
Fits(c, len) == c.pc <= MEMORY_SIZE - len
Operand(c, len) ==
    IF len = 2 THEN c.memory[c.pc + 1] ELSE Word(c.memory[c.pc + 1], c.memory[c.pc + 2])

(* The addressing modes of memory operands and their lengths.               *)
Modes == {"ABS", "ABS_X", "ABS_Y", "ZP", "ZP_X", "ZP_Y", "IND_X", "IND_Y"}
ModeLength(mode) == IF mode \in {"ABS", "ABS_X", "ABS_Y"} THEN 3 ELSE 2

(* A pointer on page zero whose high byte is fetched from the next page.    *)
ZeroPageWordUnwrapped(c, p) == Word(c.memory[p], c.memory[p + 1])
(* A pointer on page zero wraps round within the page.                      *)
ZeroPageWord(c, p) == Word(c.memory[p], c.memory[Byte8(p + 1)])

(* EA_ABS .. EA_IND_Y                                                       *)
EA(c, mode, operand) ==
    CASE mode = "ABS"   -> operand
      [] mode = "ABS_X" -> Word16(operand + c.x)
      [] mode = "ABS_Y" -> Word16(operand + c.y)
      [] mode = "ZP"    -> Byte8(operand)
      [] mode = "ZP_X"  -> Byte8(operand + c.x)
      [] mode = "ZP_Y"  -> Byte8(operand + c.y)
      [] mode = "IND_X" -> ZeroPageWord(c, Byte8(operand + c.x))
      [] mode = "IND_Y" -> Word16(ZeroPageWord(c, Byte8(operand)) + c.y)

(* A program counter that forgets to wrap.                                  *)
AdvancedUnwrapped(c, len) == c.pc + len
Advanced(c, len) == Word16(c.pc + len)

(* A load and a store in every mode; the other instructions use the same    *)
(* addresses.                                                               *)
LoadFrom(c, mode) ==
    LET len == ModeLength(mode)
    IN  [c EXCEPT !.reg = c.memory[EA(c, mode, Operand(c, len))],
                  !.pc = Advanced(c, len)]
StoreTo(c, mode) ==
    LET len == ModeLength(mode)
    IN  [c EXCEPT !.memory[EA(c, mode, Operand(c, len))] = c.reg,
                  !.pc = Advanced(c, len)]

-----------------------------------------------------------------------------
(* 0x0100 | sp                                                              *)
StackAddress(sp) == PAGE + sp

PushToStack(c, value) ==
    [c EXCEPT !.memory[StackAddress(c.sp)] = value, !.sp = Byte8(c.sp - 1)]

(* PULL_FROM_STACK of the n-th byte from now.                               *)
Pulled(c, n) == c.memory[StackAddress(Byte8(c.sp + n))]

PushWord(c, w) == PushToStack(PushToStack(c, High(w)), Low(w))

(* OP_BCC .. OP_BVS: the offset is added before the length.                 *)
Branch(c, taken) ==
    LET offset == IF taken THEN SignedByte(Operand(c, 2)) ELSE 0
    IN  [c EXCEPT !.pc = Word16(Word16(c.pc + offset) + 2)]

(* OP_JUMP; a jump to itself, which ends the run, is Threaded's business.    *)
JumpAbs(c) == [c EXCEPT !.pc = Operand(c, 3)]

(* (pointer & 0xFF00) | ((pointer + 1) & 0x00FF)                            *)
NextInPage(w) == Word(Byte8(w + 1), High(w))
JumpInd(c) ==
    LET pointer == Operand(c, 3)
    IN  [c EXCEPT !.pc = Word(c.memory[pointer], c.memory[NextInPage(pointer)])]

(* A subroutine call that leaves the address of the next instruction.       *)
JsrNext(c) == [PushWord(c, Word16(c.pc + 3)) EXCEPT !.pc = Operand(c, 3)]
Jsr(c) == [PushWord(c, Word16(c.pc + 3 - 1)) EXCEPT !.pc = Operand(c, 3)]

Rts(c) ==
    [c EXCEPT !.pc = Word16(Word(Pulled(c, 1), Pulled(c, 2)) + 1), !.sp = Byte8(@ + 2)]

Brk(c) ==
    LET pushed == PushToStack(PushWord(c, Word16(c.pc + 1 + 1)), BreakBits[c.status])
    IN  [pushed EXCEPT
            !.status = InterruptBit[@],
            !.pc = Word(pushed.memory[MEMORY_SIZE - 2], pushed.memory[MEMORY_SIZE - 1])]

Rti(c) ==
    [c EXCEPT !.status = BreakBits[Pulled(c, 1)],
              !.pc = Word(Pulled(c, 2), Pulled(c, 3)),
              !.sp = Byte8(@ + 3)]

-----------------------------------------------------------------------------
Init == chip \in Chips /\ op = <<"none", "none">>

Instruction(name, mode, len, result) ==
    /\ op = <<"none", "none">>
    /\ Fits(chip, len)
    /\ op' = <<name, mode>>
    /\ chip' = result

Finished == op # <<"none", "none">> /\ UNCHANGED vars

Next ==
    \/ \E mode \in Modes : Instruction("LD", mode, ModeLength(mode), LoadFrom(chip, mode))
    \/ \E mode \in Modes : Instruction("ST", mode, ModeLength(mode), StoreTo(chip, mode))
    \/ Instruction("branch", "taken", 2, Branch(chip, TRUE))
    \/ Instruction("branch", "not taken", 2, Branch(chip, FALSE))
    \/ Instruction("JMP", "ABS", 3, JumpAbs(chip))
    \/ Instruction("JMP", "IND", 3, JumpInd(chip))
    \/ Instruction("JSR", "ABS", 3, Jsr(chip))
    \/ Instruction("RTS", "IMP", 1, Rts(chip))
    \/ Instruction("BRK", "IMP", 1, Brk(chip))
    \/ Instruction("RTI", "IMP", 1, Rti(chip))
    \/ Finished

Spec == Init /\ [][Next]_vars

-----------------------------------------------------------------------------
Linear == INSTANCE LinearAddressing

(* The handlers and linear.c find the same operands, write the same bytes   *)
(* and go on at the same address, whatever wraps: every step is one of          *)
(* LinearAddressing.                                                        *)
ImplementsLinear == [][Linear!Next]_vars

(* What JSR and BRK leave on the stack brings RTS and RTI back: to the      *)
(* instruction after the JSR, to the second byte after the BRK, with the    *)
(* stack pointer and, for BRK, the status as they were (the break bits      *)
(* set), even when the stack wraps round its page.                          *)
ReturnsToCaller ==
    [][/\ op'[1] = "JSR" =>
              Rts(chip').pc = Word16(chip.pc + 3) /\ Rts(chip').sp = chip.sp
       /\ op'[1] = "BRK" =>
              /\ Rti(chip').pc = Word16(chip.pc + 2)
              /\ Rti(chip').sp = chip.sp
              /\ Rti(chip').status = BreakBits[BreakBits[chip.status]]]_vars
=============================================================================
