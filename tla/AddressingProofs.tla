-------------------------- MODULE AddressingProofs --------------------------
(* Theorems about Addressing, for every page size and every contents of     *)
(* memory.                                                                  *)
EXTENDS Addressing, TLAPS

-----------------------------------------------------------------------------
(* The arithmetic of counters that wrap.                                    *)
LEMMA ModRange ==
    ASSUME NEW M \in Nat, M > 0, NEW n \in Int
    PROVE  n % M \in 0 .. M - 1
OBVIOUS

LEMMA ModSmall ==
    ASSUME NEW M \in Nat, NEW n \in 0 .. M - 1
    PROVE  n % M = n
OBVIOUS

LEMMA DivMod ==
    ASSUME NEW M \in Nat, M > 0, NEW n \in Int
    PROVE  n \div M \in Int /\ n = M * (n \div M) + (n % M)
OBVIOUS

LEMMA RemainderUnique ==
    ASSUME NEW M \in Nat, M > 0, NEW q \in Int, NEW r \in 0 .. M - 1,
           NEW n \in Int, n = M * q + r
    PROVE  n % M = r
OBVIOUS

(* Wrapping before an addition makes no difference after it.                *)
LEMMA ModShift ==
    ASSUME NEW M \in Nat, M > 0, NEW n \in Int, NEW k \in Int
    PROVE  ((n % M) + k) % M = (n + k) % M
<1> DEFINE q == n \div M
           t == (n % M) + k
           s == t \div M
<1>1. q \in Int /\ n = M * q + (n % M) /\ n % M \in Int
  BY DivMod, ModRange
<1>2. t \in Int
  BY <1>1
<1>3. s \in Int /\ t = M * s + (t % M) /\ t % M \in 0 .. M - 1
  BY <1>2, DivMod, ModRange
<1>4. n + k = M * (q + s) + (t % M)
  BY <1>1, <1>3
<1>5. q + s \in Int /\ n + k \in Int
  BY <1>1, <1>3
<1>6. t % M \in 0 .. M - 1
  BY <1>3
<1> HIDE DEF q, s, t
<1>7. (n + k) % M = t % M
  BY <1>4, <1>5, <1>6, RemainderUnique
<1> QED
  BY <1>7 DEF t

(* Words are addresses, and their two bytes make them up again.             *)
LEMMA WordType ==
    ASSUME NEW lo \in Byte, NEW hi \in Byte
    PROVE  Word(lo, hi) \in Address
BY PageAssumption DEF Word, Byte, Address, MEMORY_SIZE

LEMMA WordParts ==
    ASSUME NEW w \in Address
    PROVE  /\ Low(w) \in Byte
           /\ High(w) \in Byte
           /\ Word(Low(w), High(w)) = w
BY PageAssumption DEF Word, Low, High, Byte, Address, MEMORY_SIZE

LEMMA Sizes ==
    /\ PAGE \in Nat /\ PAGE >= 4
    /\ MEMORY_SIZE \in Nat /\ MEMORY_SIZE >= 4 * PAGE
BY PageAssumption DEF MEMORY_SIZE

-----------------------------------------------------------------------------
(* The operand of a precoded instruction is what linear.c fetches.          *)
LEMMA OperandByte ==
    ASSUME NEW c \in Chip, Fits(c, 2)
    PROVE  /\ Linear!Counter(c, 1) = c.pc + 1
           /\ Operand(c, 2) = Linear!operand(c, 1)
           /\ Operand(c, 2) \in Byte
<1>1. c.pc + 1 \in 0 .. MEMORY_SIZE - 1
  BY Sizes DEF Fits, Chip, Address
<1>2. Linear!Counter(c, 1) = c.pc + 1
  BY <1>1, Sizes, ModSmall DEF Linear!Counter, Linear!MEMORY_SIZE, MEMORY_SIZE
<1> QED
  BY <1>1, <1>2 DEF Operand, Linear!operand, Chip, Address

LEMMA OperandWord ==
    ASSUME NEW c \in Chip, Fits(c, 3)
    PROVE  /\ Operand(c, 3) = Linear!absolute(c)
           /\ Operand(c, 3) \in Address
<1>1. c.pc + 1 \in Address /\ c.pc + 2 \in Address
  BY Sizes DEF Fits, Chip, Address
<1>2. Linear!Counter(c, 1) = c.pc + 1 /\ Linear!Counter(c, 2) = c.pc + 2
  BY <1>1, Sizes, ModSmall DEF Linear!Counter, Linear!MEMORY_SIZE, MEMORY_SIZE, Address
<1>3. c.memory[c.pc + 1] \in Byte /\ c.memory[c.pc + 2] \in Byte
  BY <1>1 DEF Chip
<1>4. Operand(c, 3) = Word(c.memory[c.pc + 1], c.memory[c.pc + 2])
  BY DEF Operand
<1>5. Operand(c, 3) \in Address
  BY <1>3, <1>4, WordType
<1> QED
  BY <1>2, <1>4, <1>5 DEF Linear!absolute, Linear!operand, Linear!word, Word

(* The effective addresses agree in every mode.                             *)
LEMMA SameAddress ==
    ASSUME NEW c \in Chip, NEW mode \in Modes, Fits(c, ModeLength(mode))
    PROVE  /\ mode \in DOMAIN Linear!addr(c)
           /\ Linear!addr(c)[mode] = <<EA(c, mode, Operand(c, ModeLength(mode))), ModeLength(mode)>>
<1> DEFINE len == ModeLength(mode)
           operand == Operand(c, len)
<1>1. CASE mode = "ABS"
  <2>1. operand = Linear!absolute(c)
    BY <1>1, OperandWord DEF ModeLength
  <2> QED
    BY <1>1, <2>1 DEF EA, ModeLength, Linear!addr, Linear!addr_abs
<1>2. CASE mode = "ABS_X"
  <2>1. operand = Linear!absolute(c)
    BY <1>2, OperandWord DEF ModeLength
  <2> QED
    BY <1>2, <2>1 DEF EA, ModeLength, Linear!addr, Linear!addr_abs_x, Word16,
       MEMORY_SIZE, Linear!MEMORY_SIZE
<1>3. CASE mode = "ABS_Y"
  <2>1. operand = Linear!absolute(c)
    BY <1>3, OperandWord DEF ModeLength
  <2> QED
    BY <1>3, <2>1 DEF EA, ModeLength, Linear!addr, Linear!addr_abs_y, Word16,
       MEMORY_SIZE, Linear!MEMORY_SIZE
<1>4. CASE mode \in {"ZP", "ZP_X", "ZP_Y", "IND_X", "IND_Y"}
  <2>1. len = 2
    BY <1>4 DEF ModeLength
  <2>2. operand = Linear!operand(c, 1) /\ operand \in Byte
    BY <2>1, OperandByte
  <2>3. Byte8(operand) = operand
    BY <2>2, Sizes, ModSmall DEF Byte8, Byte
  <2> HIDE DEF len, operand
  <2>4. CASE mode = "ZP"
    BY <2>1, <2>2, <2>3, <2>4 DEF EA, Linear!addr, Linear!addr_zp, len, operand
  <2>5. CASE mode = "ZP_X"
    BY <2>1, <2>2, <2>5 DEF EA, Linear!addr, Linear!addr_zp_x, Byte8, len, operand
  <2>6. CASE mode = "ZP_Y"
    BY <2>1, <2>2, <2>6 DEF EA, Linear!addr, Linear!addr_zp_y, Byte8, len, operand
  <2>7. CASE mode = "IND_X"
    BY <2>1, <2>2, <2>7 DEF EA, Linear!addr, Linear!addr_ind_x, Linear!pointer,
       Linear!word, ZeroPageWord, Word, Byte8, len, operand
  <2>8. CASE mode = "IND_Y"
    BY <2>1, <2>2, <2>3, <2>8 DEF EA, Linear!addr, Linear!addr_ind_y, Linear!pointer,
       Linear!word, ZeroPageWord, Word, Word16, Byte8, MEMORY_SIZE,
       Linear!MEMORY_SIZE, len, operand
  <2> QED
    BY <1>4, <2>4, <2>5, <2>6, <2>7, <2>8
<1> QED
  BY <1>1, <1>2, <1>3, <1>4 DEF Modes

-----------------------------------------------------------------------------
(* Each handler does what its function in linear.c does.                    *)
LEMMA SameLoadAndStore ==
    ASSUME NEW c \in Chip, NEW mode \in Modes, Fits(c, ModeLength(mode))
    PROVE  /\ LoadFrom(c, mode) = Linear!load(c, Linear!addr(c)[mode])
           /\ StoreTo(c, mode) = Linear!store(c, Linear!addr(c)[mode])
<1> DEFINE len == ModeLength(mode)
           a == EA(c, mode, Operand(c, len))
<1>1. Linear!addr(c)[mode] = <<a, len>>
  BY SameAddress
<1>2. Advanced(c, len) = Linear!Counter(c, len)
  BY DEF Advanced, Word16, Linear!Counter, MEMORY_SIZE, Linear!MEMORY_SIZE
<1>3. LoadFrom(c, mode) = [c EXCEPT !.reg = c.memory[a], !.pc = Advanced(c, len)]
  BY DEF LoadFrom
<1>4. StoreTo(c, mode) = [c EXCEPT !.memory[a] = c.reg, !.pc = Advanced(c, len)]
  BY DEF StoreTo
<1> HIDE DEF a, len
<1> QED
  BY <1>1, <1>2, <1>3, <1>4 DEF Linear!load, Linear!store

LEMMA SignedByteType ==
    ASSUME NEW b \in Byte
    PROVE  SignedByte(b) \in Int
BY Sizes DEF SignedByte, Byte

(* The handler adds the offset before the length, linear.c after it.        *)
LEMMA SameBranch ==
    ASSUME NEW c \in Chip, NEW taken \in BOOLEAN, Fits(c, 2)
    PROVE  Branch(c, taken) = Linear!branch(c, taken)
<1> DEFINE offset == SignedByte(Operand(c, 2))
           pc == c.pc
           M == MEMORY_SIZE
<1>1. offset \in Int /\ pc \in Int /\ M \in Nat /\ M > 0
  BY OperandByte, SignedByteType, Sizes DEF Chip, Address
<1>2. offset = IF 2 * Linear!operand(c, 1) < PAGE THEN Linear!operand(c, 1)
               ELSE Linear!operand(c, 1) - PAGE
  BY OperandByte DEF SignedByte
<1>3. Linear!Counter(c, 2) = (pc + 2) % M
  BY DEF Linear!Counter, Linear!MEMORY_SIZE, MEMORY_SIZE
<1> HIDE DEF offset, pc, M
<1>4. (((pc + offset) % M) + 2) % M = (((pc + 2) % M) + offset) % M
  <2> 2 \in Int /\ pc + offset \in Int /\ pc + 2 \in Int
    BY <1>1
  <2>1. (((pc + offset) % M) + 2) % M = (pc + offset + 2) % M
    BY <1>1, ModShift, Zenon
  <2>2. (((pc + 2) % M) + offset) % M = (pc + 2 + offset) % M
    BY <1>1, ModShift, Zenon
  <2>3. pc + offset + 2 = pc + 2 + offset
    BY <1>1
  <2> QED
    BY <2>1, <2>2, <2>3
<1>5. (((pc + 0) % M) + 2) % M = (pc + 2) % M
  <2> 2 \in Int /\ pc + 0 = pc
    BY <1>1
  <2> QED
    BY <1>1, ModShift, Zenon
<1>6. CASE taken
  BY <1>2, <1>3, <1>4, <1>6 DEF Branch, Linear!branch, Word16, offset, pc, M,
     MEMORY_SIZE, Linear!MEMORY_SIZE
<1>7. CASE ~taken
  BY <1>3, <1>5, <1>7 DEF Branch, Linear!branch, Word16, pc, M
<1> QED
  BY <1>6, <1>7

LEMMA SameJumps ==
    ASSUME NEW c \in Chip, Fits(c, 3)
    PROVE  /\ JumpAbs(c) = Linear!jmp_abs(c)
           /\ JumpInd(c) = Linear!jmp_ind(c)
BY OperandWord DEF JumpAbs, JumpInd, NextInPage, Word, Byte8, High,
   Linear!jmp_abs, Linear!jmp_ind, Linear!word

LEMMA SamePush ==
    ASSUME NEW c, NEW value
    PROVE  PushToStack(c, value) = Linear!push(c, value)
BY DEF PushToStack, Linear!push, StackAddress, Byte8

LEMMA SamePull ==
    ASSUME NEW c, NEW n
    PROVE  Pulled(c, n) = Linear!pull(c, n)
BY DEF Pulled, Linear!pull, StackAddress, Byte8

LEMMA ReturnAddresses ==
    ASSUME NEW c \in Chip
    PROVE  /\ Word16(c.pc + 3 - 1) = (Linear!Counter(c, 3) - 1) % Linear!MEMORY_SIZE
           /\ Word16(c.pc + 1 + 1) = (Linear!Counter(c, 1) + 1) % Linear!MEMORY_SIZE
<1>1. c.pc \in Int /\ MEMORY_SIZE \in Nat /\ MEMORY_SIZE > 0
  BY Sizes DEF Chip, Address
<1> c.pc + 3 \in Int /\ c.pc + 1 \in Int /\ -1 \in Int /\ 1 \in Int
  BY <1>1
<1>2. (((c.pc + 3) % MEMORY_SIZE) + (-1)) % MEMORY_SIZE = (c.pc + 3 + (-1)) % MEMORY_SIZE
  BY <1>1, ModShift, Zenon
<1>3. (((c.pc + 1) % MEMORY_SIZE) + 1) % MEMORY_SIZE = (c.pc + 1 + 1) % MEMORY_SIZE
  BY <1>1, ModShift, Zenon
<1>4. (c.pc + 3) % MEMORY_SIZE \in Int
  BY <1>1, ModRange
<1>5. ((c.pc + 3) % MEMORY_SIZE) + (-1) = ((c.pc + 3) % MEMORY_SIZE) - 1
  BY <1>4
<1>6. c.pc + 3 + (-1) = c.pc + 3 - 1
  BY <1>1
<1>7. Linear!MEMORY_SIZE = MEMORY_SIZE
  BY DEF Linear!MEMORY_SIZE, MEMORY_SIZE
<1> QED
  BY <1>2, <1>3, <1>5, <1>6, <1>7 DEF Word16, Linear!Counter

LEMMA SameCalls ==
    ASSUME NEW c \in Chip
    PROVE  /\ Fits(c, 3) => Jsr(c) = Linear!jsr_abs(c)
           /\ Rts(c) = Linear!rts(c)
           /\ Brk(c) = Linear!brk(c)
           /\ Rti(c) = Linear!rti(c)
<1>1. ASSUME NEW w PROVE PushWord(c, w) = Linear!push(Linear!push(c, w \div PAGE), w % PAGE)
  BY SamePush DEF PushWord, High, Low
<1>2. Fits(c, 3) => Jsr(c) = Linear!jsr_abs(c)
  BY <1>1, OperandWord, ReturnAddresses DEF Jsr, Linear!jsr_abs
<1>3. Rts(c) = Linear!rts(c)
  BY SamePull DEF Rts, Linear!rts, Word, Linear!word, Word16, Byte8, MEMORY_SIZE,
     Linear!MEMORY_SIZE
<1>4. Brk(c) = Linear!brk(c)
  <2> DEFINE pushed == PushToStack(PushWord(c, Word16(c.pc + 1 + 1)), BreakBits[c.status])
  <2>1. pushed = LET r == (Linear!Counter(c, 1) + 1) % Linear!MEMORY_SIZE
                 IN  Linear!push(Linear!push(Linear!push(c, r \div PAGE), r % PAGE),
                                 BreakBits[c.status])
    BY <1>1, SamePush, ReturnAddresses
  <2>2. pushed.status = c.status
    BY DEF PushWord, PushToStack, Chip
  <2>3. Linear!MEMORY_SIZE = MEMORY_SIZE
    BY DEF Linear!MEMORY_SIZE, MEMORY_SIZE
  <2>4. DOMAIN pushed = DOMAIN c /\ "status" \in DOMAIN c
    BY DEF PushWord, PushToStack, Chip
  <2>5. Brk(c) = [pushed EXCEPT
            !.status = InterruptBit[@],
            !.pc = Word(pushed.memory[MEMORY_SIZE - 2], pushed.memory[MEMORY_SIZE - 1])]
    BY DEF Brk
  <2>6. Linear!brk(c) = [pushed EXCEPT
            !.status = InterruptBit[c.status],
            !.pc = Linear!word(pushed.memory[Linear!MEMORY_SIZE - 2],
                               pushed.memory[Linear!MEMORY_SIZE - 1])]
    BY <2>1 DEF Linear!brk
  <2> HIDE DEF pushed
  <2> QED
    BY <2>2, <2>3, <2>5, <2>6 DEF Word, Linear!word
<1>5. Rti(c) = Linear!rti(c)
  BY SamePull DEF Rti, Linear!rti, Word, Linear!word, Byte8
<1> QED
  BY <1>2, <1>3, <1>4, <1>5

-----------------------------------------------------------------------------
(* What the handlers leave is a chip again: no byte, no stack pointer and   *)
(* no address gets out of its range, on the way to an effective address or  *)
(* through the stack.                                                       *)
LEMMA Wraps ==
    ASSUME NEW n \in Int
    PROVE  Byte8(n) \in Byte /\ Word16(n) \in Address
BY Sizes, ModRange DEF Byte8, Word16, Byte, Address

LEMMA ZeroPageWordType ==
    ASSUME NEW c \in Chip, NEW p \in Byte
    PROVE  ZeroPageWord(c, p) \in Address
<1>1. p \in Address /\ Byte8(p + 1) \in Address
  BY Wraps, Sizes DEF Byte, Address
<1>2. c.memory[p] \in Byte /\ c.memory[Byte8(p + 1)] \in Byte
  BY <1>1 DEF Chip
<1> QED
  BY <1>2, WordType DEF ZeroPageWord

LEMMA EAType ==
    ASSUME NEW c \in Chip, NEW mode \in Modes, Fits(c, ModeLength(mode))
    PROVE  EA(c, mode, Operand(c, ModeLength(mode))) \in Address
<1> DEFINE operand == Operand(c, ModeLength(mode))
<1>1. c.x \in Byte /\ c.y \in Byte
  BY DEF Chip
<1>2. CASE mode \in {"ABS", "ABS_X", "ABS_Y"}
  <2>1. operand \in Address
    BY <1>2, OperandWord DEF ModeLength
  <2>2. operand + c.x \in Int /\ operand + c.y \in Int
    BY <1>1, <2>1, Sizes DEF Byte, Address
  <2> HIDE DEF operand
  <2>3. EA(c, mode, operand) \in Address
    BY <1>2, <2>1, <2>2, Wraps DEF EA
  <2> QED
    BY <2>3 DEF operand
<1>3. CASE mode \in {"ZP", "ZP_X", "ZP_Y", "IND_X", "IND_Y"}
  <2>1. operand \in Byte
    BY <1>3, OperandByte DEF ModeLength
  <2>2. operand + c.x \in Int /\ operand + c.y \in Int /\ operand \in Int
    BY <1>1, <2>1, Sizes DEF Byte, Address
  <2> HIDE DEF operand
  <2>3. /\ Byte8(operand) \in Byte /\ Byte8(operand + c.x) \in Byte
        /\ Byte8(operand + c.y) \in Byte
    BY <2>2, Wraps
  <2>4. /\ ZeroPageWord(c, Byte8(operand + c.x)) \in Address
        /\ ZeroPageWord(c, Byte8(operand)) + c.y \in Int
    BY <1>1, <2>3, ZeroPageWordType, Sizes DEF Byte, Address
  <2>5. EA(c, mode, operand) \in Address
    BY <1>3, <2>3, <2>4, Wraps, Sizes DEF EA, Byte, Address
  <2> QED
    BY <2>5 DEF operand
<1> QED
  BY <1>2, <1>3 DEF Modes

LEMMA LoadAndStoreType ==
    ASSUME NEW c \in Chip, NEW mode \in Modes, Fits(c, ModeLength(mode))
    PROVE  LoadFrom(c, mode) \in Chip /\ StoreTo(c, mode) \in Chip
<1> DEFINE len == ModeLength(mode)
           a == EA(c, mode, Operand(c, len))
<1>1. a \in Address
  BY EAType
<1>2. Advanced(c, len) \in Address
  <2>1. len \in Int /\ c.pc \in Int
    BY Sizes DEF ModeLength, Chip, Byte, Address
  <2> QED
    BY <2>1, Wraps DEF Advanced
<1>3. LoadFrom(c, mode) = [c EXCEPT !.reg = c.memory[a], !.pc = Advanced(c, len)]
  BY DEF LoadFrom
<1>4. StoreTo(c, mode) = [c EXCEPT !.memory[a] = c.reg, !.pc = Advanced(c, len)]
  BY DEF StoreTo
<1> HIDE DEF a, len
<1>5. c.memory[a] \in Byte /\ c.reg \in Byte
  BY <1>1 DEF Chip
<1>6. LoadFrom(c, mode) \in Chip
  BY <1>2, <1>3, <1>5 DEF Chip
<1>7. StoreTo(c, mode) \in Chip
  <2> DEFINE m == [c.memory EXCEPT ![a] = c.reg]
  <2>1. m \in [Address -> Byte]
    BY <1>1, <1>5 DEF Chip
  <2>2. StoreTo(c, mode) = [c EXCEPT !.memory = m, !.pc = Advanced(c, len)]
    BY <1>4
  <2> HIDE DEF m
  <2> QED
    BY <1>2, <2>1, <2>2 DEF Chip
<1> QED
  BY <1>6, <1>7

LEMMA PushType ==
    ASSUME NEW c \in Chip, NEW value \in Byte
    PROVE  PushToStack(c, value) \in Chip
<1>1. c.sp - 1 \in Int
  BY Sizes DEF Chip, Byte, Address
<1> QED
  BY <1>1, Wraps DEF PushToStack, Chip

LEMMA PushWordType ==
    ASSUME NEW c \in Chip, NEW w \in Address
    PROVE  PushWord(c, w) \in Chip
BY PushType, WordParts DEF PushWord

LEMMA PulledType ==
    ASSUME NEW c \in Chip, NEW n \in Nat
    PROVE  Pulled(c, n) \in Byte
<1>1. Byte8(c.sp + n) \in Byte
  <2>1. c.sp + n \in Int
    BY Sizes DEF Chip, Byte
  <2> QED
    BY <2>1, Wraps
<1>2. StackAddress(Byte8(c.sp + n)) \in Address
  BY <1>1, Sizes DEF StackAddress, Byte, Address
<1> QED
  BY <1>2 DEF Pulled, Chip

LEMMA BranchType ==
    ASSUME NEW c \in Chip, NEW taken \in BOOLEAN, Fits(c, 2)
    PROVE  Branch(c, taken) \in Chip
<1> DEFINE offset == IF taken THEN SignedByte(Operand(c, 2)) ELSE 0
<1>1. offset \in Int /\ c.pc \in Int
  <2>1. SignedByte(Operand(c, 2)) \in Int
    BY OperandByte, SignedByteType
  <2>2. c.pc \in Int
    BY Sizes DEF Chip, Address
  <2> QED
    BY <2>1, <2>2
<1>2. Branch(c, taken) = [c EXCEPT !.pc = Word16(Word16(c.pc + offset) + 2)]
  BY DEF Branch
<1> HIDE DEF offset
<1>3. Word16(c.pc + offset) \in Address
  BY <1>1, Wraps
<1>4. Word16(Word16(c.pc + offset) + 2) \in Address
  BY <1>3, Wraps, Sizes DEF Byte, Address
<1> QED
  BY <1>2, <1>4 DEF Chip

LEMMA JumpType ==
    ASSUME NEW c \in Chip, Fits(c, 3)
    PROVE  JumpAbs(c) \in Chip /\ JumpInd(c) \in Chip
<1> DEFINE pointer == Operand(c, 3)
<1>1. pointer \in Address
  BY OperandWord
<1>2. JumpAbs(c) = [c EXCEPT !.pc = pointer]
  BY DEF JumpAbs
<1>3. JumpInd(c) = [c EXCEPT !.pc = Word(c.memory[pointer], c.memory[NextInPage(pointer)])]
  BY DEF JumpInd
<1> HIDE DEF pointer
<1>4. NextInPage(pointer) \in Address
  <2>1. Byte8(pointer + 1) \in Byte /\ High(pointer) \in Byte
    BY <1>1, Wraps, WordParts, Sizes DEF Byte, Address
  <2> QED
    BY <2>1, WordType DEF NextInPage
<1>5. Word(c.memory[pointer], c.memory[NextInPage(pointer)]) \in Address
  <2>1. c.memory[pointer] \in Byte /\ c.memory[NextInPage(pointer)] \in Byte
    BY <1>1, <1>4 DEF Chip
  <2> QED
    BY <2>1, WordType
<1> QED
  BY <1>1, <1>2, <1>3, <1>5 DEF Chip

LEMMA CallType ==
    ASSUME NEW c \in Chip
    PROVE  /\ Fits(c, 3) => Jsr(c) \in Chip
           /\ Rts(c) \in Chip
           /\ Brk(c) \in Chip
           /\ Rti(c) \in Chip
<1>1. c.pc \in Int /\ c.sp \in Int
  BY Sizes DEF Chip, Byte, Address
<1>2. ASSUME NEW m \in Nat, NEW n \in Nat
      PROVE  Word(Pulled(c, m), Pulled(c, n)) \in Address
  BY PulledType, WordType
<1>3. Fits(c, 3) => Jsr(c) \in Chip
  <2>1. PushWord(c, Word16(c.pc + 3 - 1)) \in Chip
    BY <1>1, Wraps, PushWordType
  <2> QED
    BY <2>1, OperandWord DEF Jsr, Chip
<1>4. Rts(c) \in Chip
  <2>1. Word(Pulled(c, 1), Pulled(c, 2)) + 1 \in Int
    BY <1>2, Sizes DEF Address
  <2>2. Word16(Word(Pulled(c, 1), Pulled(c, 2)) + 1) \in Address
    BY <2>1, Wraps
  <2>3. Byte8(c.sp + 2) \in Byte
    BY <1>1, Wraps
  <2> QED
    BY <2>2, <2>3 DEF Rts, Chip
<1>5. Brk(c) \in Chip
  <2> DEFINE pushed == PushToStack(PushWord(c, Word16(c.pc + 1 + 1)), BreakBits[c.status])
  <2>1. PushWord(c, Word16(c.pc + 1 + 1)) \in Chip
    BY <1>1, Wraps, PushWordType
  <2>2. BreakBits[c.status] \in Byte
    BY ChipsAssumption DEF Chip
  <2>3. pushed \in Chip
    BY <2>1, <2>2, PushType
  <2>4. Brk(c) = [pushed EXCEPT
            !.status = InterruptBit[@],
            !.pc = Word(pushed.memory[MEMORY_SIZE - 2], pushed.memory[MEMORY_SIZE - 1])]
    BY DEF Brk
  <2> HIDE DEF pushed
  <2>5. MEMORY_SIZE - 2 \in Address /\ MEMORY_SIZE - 1 \in Address
    BY Sizes DEF Address
  <2>6. pushed.memory[MEMORY_SIZE - 2] \in Byte /\ pushed.memory[MEMORY_SIZE - 1] \in Byte
    BY <2>3, <2>5 DEF Chip
  <2>7. Word(pushed.memory[MEMORY_SIZE - 2], pushed.memory[MEMORY_SIZE - 1]) \in Address
    BY <2>6, WordType
  <2>8. InterruptBit[pushed.status] \in Byte
    BY <2>3, ChipsAssumption DEF Chip
  <2> QED
    BY <2>3, <2>4, <2>7, <2>8 DEF Chip
<1>6. Rti(c) \in Chip
  <2>1. Pulled(c, 1) \in Byte /\ BreakBits[Pulled(c, 1)] \in Byte
    BY PulledType, ChipsAssumption
  <2>2. Word(Pulled(c, 2), Pulled(c, 3)) \in Address /\ Byte8(c.sp + 3) \in Byte
    BY <1>1, <1>2, Wraps
  <2> QED
    BY <2>1, <2>2 DEF Rti, Chip
<1> QED
  BY <1>3, <1>4, <1>5, <1>6

(* For every page size, contents of memory and register values the chip     *)
(* stays within its types.                                                  *)
THEOREM TypeCorrect == Spec => []TypeOK
<1>1. Init => TypeOK
  BY ChipsAssumption DEF Init, TypeOK
<1>2. TypeOK /\ [Next]_vars => TypeOK'
  <2> SUFFICES ASSUME TypeOK, [Next]_vars PROVE chip' \in Chip
    BY DEF TypeOK
  <2>1. chip \in Chip
    BY DEF TypeOK
  <2>2. ASSUME NEW mode \in Modes, Instruction("LD", mode, ModeLength(mode), LoadFrom(chip, mode))
        PROVE  chip' \in Chip
    BY <2>1, <2>2, LoadAndStoreType DEF Instruction
  <2>3. ASSUME NEW mode \in Modes, Instruction("ST", mode, ModeLength(mode), StoreTo(chip, mode))
        PROVE  chip' \in Chip
    BY <2>1, <2>3, LoadAndStoreType DEF Instruction
  <2>4. CASE \/ Instruction("branch", "taken", 2, Branch(chip, TRUE))
             \/ Instruction("branch", "not taken", 2, Branch(chip, FALSE))
    BY <2>1, <2>4, BranchType DEF Instruction
  <2>5. CASE \/ Instruction("JMP", "ABS", 3, JumpAbs(chip))
             \/ Instruction("JMP", "IND", 3, JumpInd(chip))
    BY <2>1, <2>5, JumpType DEF Instruction
  <2>6. CASE \/ Instruction("JSR", "ABS", 3, Jsr(chip))
             \/ Instruction("RTS", "IMP", 1, Rts(chip))
             \/ Instruction("BRK", "IMP", 1, Brk(chip))
             \/ Instruction("RTI", "IMP", 1, Rti(chip))
    BY <2>1, <2>6, CallType DEF Instruction
  <2>7. CASE Finished \/ UNCHANGED vars
    BY <2>1, <2>7 DEF Finished, vars
  <2> QED
    BY <2>2, <2>3, <2>4, <2>5, <2>6, <2>7 DEF Next
<1> QED
  BY <1>1, <1>2, PTL DEF Spec
-----------------------------------------------------------------------------
(* For every page size, contents of memory and register values a step of    *)
(* the handlers is a step of linear.c.                                      *)
THEOREM ImplementsLinearCorrect == Spec => ImplementsLinear
<1>1. TypeOK /\ [Next]_vars => [Linear!Next]_vars
  <2> SUFFICES ASSUME TypeOK, Next PROVE Linear!Next \/ UNCHANGED vars
    OBVIOUS
  <2>1. ASSUME NEW name, NEW mode, NEW len, NEW result,
               Instruction(name, mode, len, result)
        PROVE  chip \in Chip /\ Fits(chip, len) /\ Linear!Function(name, mode, result)
    BY <2>1 DEF Instruction, TypeOK, Linear!Function
  <2>2. ASSUME NEW mode \in Modes, Instruction("LD", mode, ModeLength(mode), LoadFrom(chip, mode))
        PROVE  Linear!Next
    BY <2>1, <2>2, SameAddress, SameLoadAndStore DEF Linear!Next
  <2>3. ASSUME NEW mode \in Modes, Instruction("ST", mode, ModeLength(mode), StoreTo(chip, mode))
        PROVE  Linear!Next
    BY <2>1, <2>3, SameAddress, SameLoadAndStore DEF Linear!Next
  <2>4. ASSUME Instruction("branch", "taken", 2, Branch(chip, TRUE))
        PROVE  Linear!Next
    BY <2>1, <2>4, SameBranch DEF Linear!Next
  <2>5. ASSUME Instruction("branch", "not taken", 2, Branch(chip, FALSE))
        PROVE  Linear!Next
    BY <2>1, <2>5, SameBranch DEF Linear!Next
  <2>6. ASSUME Instruction("JMP", "ABS", 3, JumpAbs(chip))
        PROVE  Linear!Next
    BY <2>1, <2>6, SameJumps DEF Linear!Next
  <2>7. ASSUME Instruction("JMP", "IND", 3, JumpInd(chip))
        PROVE  Linear!Next
    BY <2>1, <2>7, SameJumps DEF Linear!Next
  <2>8. ASSUME Instruction("JSR", "ABS", 3, Jsr(chip))
        PROVE  Linear!Next
    BY <2>1, <2>8, SameCalls DEF Linear!Next
  <2>9. ASSUME Instruction("RTS", "IMP", 1, Rts(chip))
        PROVE  Linear!Next
    BY <2>1, <2>9, SameCalls DEF Linear!Next
  <2>10. ASSUME Instruction("BRK", "IMP", 1, Brk(chip))
         PROVE  Linear!Next
    BY <2>1, <2>10, SameCalls DEF Linear!Next
  <2>11. ASSUME Instruction("RTI", "IMP", 1, Rti(chip))
         PROVE  Linear!Next
    BY <2>1, <2>11, SameCalls DEF Linear!Next
  <2> QED
    BY <2>2, <2>3, <2>4, <2>5, <2>6, <2>7, <2>8, <2>9, <2>10, <2>11 DEF Next, Finished
<1> QED
  BY <1>1, TypeCorrect, PTL DEF Spec, ImplementsLinear

-----------------------------------------------------------------------------
(* Where the stack pointer goes, with and without wrapping.                 *)
LEMMA StackDown ==
    ASSUME NEW sp \in Byte, NEW k \in 1 .. 3
    PROVE  Byte8(sp - k) = IF sp >= k THEN sp - k ELSE sp + PAGE - k
<1> DEFINE r == IF sp >= k THEN sp - k ELSE sp + PAGE - k
           q == IF sp >= k THEN 0 ELSE -1
<1>1. /\ r \in 0 .. PAGE - 1 /\ q \in Int /\ sp - k \in Int /\ sp - k = PAGE * q + r
      /\ PAGE \in Nat /\ PAGE > 0
  BY Sizes DEF Byte
<1> HIDE DEF r, q
<1>2. (sp - k) % PAGE = r
  BY <1>1, RemainderUnique, Zenon
<1> QED
  BY <1>2 DEF Byte8, r

LEMMA StackUp ==
    ASSUME NEW sp \in Byte, NEW k \in 1 .. 3
    PROVE  Byte8(sp + k) = IF sp + k < PAGE THEN sp + k ELSE sp + k - PAGE
<1> DEFINE r == IF sp + k < PAGE THEN sp + k ELSE sp + k - PAGE
           q == IF sp + k < PAGE THEN 0 ELSE 1
<1>1. /\ r \in 0 .. PAGE - 1 /\ q \in Int /\ sp + k \in Int /\ sp + k = PAGE * q + r
      /\ PAGE \in Nat /\ PAGE > 0
  BY Sizes DEF Byte
<1> HIDE DEF r, q
<1>2. (sp + k) % PAGE = r
  BY <1>1, RemainderUnique, Zenon
<1> QED
  BY <1>2 DEF Byte8, r

(* Three bytes pushed one after the other lie at three addresses, and are   *)
(* found there by pulling as many.                                          *)
LEMMA StackRoundTrip ==
    ASSUME NEW sp \in Byte
    PROVE  LET s1 == Byte8(sp - 1)
               s2 == Byte8(s1 - 1)
               s3 == Byte8(s2 - 1)
           IN  /\ s1 \in Byte /\ s2 \in Byte /\ s3 \in Byte
               /\ s1 # sp /\ s2 # sp /\ s2 # s1
               /\ Byte8(s2 + 1) = s1 /\ Byte8(s2 + 2) = sp
               /\ Byte8(s3 + 1) = s2 /\ Byte8(s3 + 2) = s1 /\ Byte8(s3 + 3) = sp
<1> DEFINE s1 == Byte8(sp - 1)
           s2 == Byte8(s1 - 1)
           s3 == Byte8(s2 - 1)
           Below(s) == IF s >= 1 THEN s - 1 ELSE s + PAGE - 1
<1>1. \A s \in Byte : Byte8(s - 1) = Below(s) /\ Below(s) \in Byte
  <2> SUFFICES ASSUME NEW s \in Byte PROVE Byte8(s - 1) = Below(s) /\ Below(s) \in Byte
    OBVIOUS
  <2>1. Byte8(s - 1) = Below(s)
    BY StackDown
  <2> QED
    BY <2>1, Sizes DEF Byte
<1>2. s1 = Below(sp) /\ s1 \in Byte
  BY <1>1
<1>3. s2 = Below(s1) /\ s2 \in Byte
  BY <1>1, <1>2
<1>4. s3 = Below(s2) /\ s3 \in Byte
  BY <1>1, <1>3
<1> HIDE DEF s1, s2, s3
<1>5. s1 # sp /\ s2 # sp /\ s2 # s1
  BY <1>2, <1>3, Sizes DEF Byte
<1>6. Byte8(s2 + 1) = s1 /\ Byte8(s2 + 2) = sp
  <2>1. Byte8(s2 + 1) = IF s2 + 1 < PAGE THEN s2 + 1 ELSE s2 + 1 - PAGE
    BY <1>3, StackUp
  <2>2. Byte8(s2 + 2) = IF s2 + 2 < PAGE THEN s2 + 2 ELSE s2 + 2 - PAGE
    BY <1>3, StackUp
  <2> QED
    BY <2>1, <2>2, <1>2, <1>3, Sizes DEF Byte
<1>7. Byte8(s3 + 1) = s2 /\ Byte8(s3 + 2) = s1 /\ Byte8(s3 + 3) = sp
  <2>1. Byte8(s3 + 1) = IF s3 + 1 < PAGE THEN s3 + 1 ELSE s3 + 1 - PAGE
    BY <1>4, StackUp
  <2>2. Byte8(s3 + 2) = IF s3 + 2 < PAGE THEN s3 + 2 ELSE s3 + 2 - PAGE
    BY <1>4, StackUp
  <2>3. Byte8(s3 + 3) = IF s3 + 3 < PAGE THEN s3 + 3 ELSE s3 + 3 - PAGE
    BY <1>4, StackUp
  <2> QED
    BY <2>1, <2>2, <2>3, <1>2, <1>3, <1>4, Sizes DEF Byte
<1> QED
  BY <1>2, <1>3, <1>4, <1>5, <1>6, <1>7 DEF s1, s2, s3

LEMMA StackAddressType ==
    ASSUME NEW sp \in Byte
    PROVE  StackAddress(sp) \in Address
BY Sizes DEF StackAddress, Byte, Address

(* What a word and a byte pushed leave behind.                              *)
LEMMA PushByteFacts ==
    ASSUME NEW c \in Chip, NEW value \in Byte
    PROVE  LET d == PushToStack(c, value)
           IN  /\ d \in Chip
               /\ d.sp = Byte8(c.sp - 1) /\ d.status = c.status /\ d.pc = c.pc
               /\ d.memory[StackAddress(c.sp)] = value
               /\ \A a \in Address \ {StackAddress(c.sp)} : d.memory[a] = c.memory[a]
<1>1. StackAddress(c.sp) \in Address /\ Byte8(c.sp - 1) \in Byte
  BY StackAddressType, StackRoundTrip DEF Chip
<1> QED
  BY <1>1 DEF PushToStack, Chip

LEMMA StackAddressesDiffer ==
    ASSUME NEW s \in Byte, NEW t \in Byte, s # t
    PROVE  StackAddress(s) # StackAddress(t)
BY Sizes DEF StackAddress, Byte

LEMMA PushWordFacts ==
    ASSUME NEW c \in Chip, NEW w \in Address
    PROVE  LET d == PushWord(c, w)
               s1 == Byte8(c.sp - 1)
           IN  /\ d \in Chip
               /\ d.sp = Byte8(s1 - 1) /\ d.status = c.status
               /\ d.memory[StackAddress(c.sp)] = High(w)
               /\ d.memory[StackAddress(s1)] = Low(w)
<1> DEFINE s1 == Byte8(c.sp - 1)
           d1 == PushToStack(c, High(w))
           d == PushToStack(d1, Low(w))
<1>1. High(w) \in Byte /\ Low(w) \in Byte
  BY WordParts
<1>2. c.sp \in Byte
  BY DEF Chip
<1>3. s1 \in Byte /\ s1 # c.sp
  BY <1>2, StackRoundTrip
<1>4. /\ d1 \in Chip /\ d1.sp = s1 /\ d1.status = c.status
      /\ d1.memory[StackAddress(c.sp)] = High(w)
  BY <1>1, PushByteFacts
<1>5. /\ d \in Chip /\ d.sp = Byte8(d1.sp - 1) /\ d.status = d1.status
      /\ d.memory[StackAddress(d1.sp)] = Low(w)
      /\ \A a \in Address \ {StackAddress(d1.sp)} : d.memory[a] = d1.memory[a]
  BY <1>1, <1>4, PushByteFacts
<1>6. StackAddress(c.sp) \in Address \ {StackAddress(s1)}
  BY <1>2, <1>3, StackAddressType, StackAddressesDiffer
<1> HIDE DEF s1, d1, d
<1>7. d.memory[StackAddress(c.sp)] = High(w)
  BY <1>4, <1>5, <1>6
<1> QED
  BY <1>4, <1>5, <1>7 DEF PushWord, s1, d1, d

LEMMA ReturnWord ==
    ASSUME NEW pc \in Address, NEW k \in 1 .. 2
    PROVE  /\ Word16(pc + k) \in Address
           /\ Word16(Word16(pc + k) + 1) = Word16(pc + k + 1)
<1>1. pc + k \in Int /\ 1 \in Int /\ MEMORY_SIZE \in Nat /\ MEMORY_SIZE > 0
  BY Sizes DEF Address
<1>2. (pc + k) % MEMORY_SIZE \in Address
  BY <1>1, ModRange DEF Address
<1>3. (((pc + k) % MEMORY_SIZE) + 1) % MEMORY_SIZE = (pc + k + 1) % MEMORY_SIZE
  BY <1>1, ModShift, Zenon
<1> QED
  BY <1>2, <1>3 DEF Word16

(* A return finds what a call has pushed.                                   *)
LEMMA RtsAfterJsr ==
    ASSUME NEW c \in Chip
    PROVE  Rts(Jsr(c)).pc = Word16(c.pc + 3) /\ Rts(Jsr(c)).sp = c.sp
<1> DEFINE w == Word16(c.pc + 3 - 1)
           d == PushWord(c, w)
           j == Jsr(c)
           s1 == Byte8(c.sp - 1)
<1>1. c.pc \in Address /\ c.sp \in Byte
  BY DEF Chip
<1>2. c.pc + 3 - 1 = c.pc + 2 /\ c.pc + 2 + 1 = c.pc + 3
  BY <1>1, Sizes DEF Address
<1>3. w \in Address /\ Word16(w + 1) = Word16(c.pc + 3)
  BY <1>1, <1>2, ReturnWord
<1>4. /\ d \in Chip /\ d.sp = Byte8(s1 - 1)
      /\ d.memory[StackAddress(c.sp)] = High(w) /\ d.memory[StackAddress(s1)] = Low(w)
  BY <1>3, PushWordFacts
<1>5. Byte8(d.sp + 1) = s1 /\ Byte8(d.sp + 2) = c.sp
  BY <1>1, <1>4, StackRoundTrip
<1>6. j.memory = d.memory /\ j.sp = d.sp /\ {"pc", "sp"} \subseteq DOMAIN j
  BY <1>4 DEF Jsr, Chip
<1> HIDE DEF w, d, j, s1
<1>7. Pulled(j, 1) = Low(w) /\ Pulled(j, 2) = High(w)
  BY <1>4, <1>5, <1>6 DEF Pulled
<1>8. Rts(j).pc = Word16(Word(Low(w), High(w)) + 1) /\ Rts(j).sp = Byte8(d.sp + 2)
  BY <1>6, <1>7 DEF Rts
<1>9. Word(Low(w), High(w)) = w
  BY <1>3, WordParts
<1> QED
  BY <1>3, <1>5, <1>8, <1>9 DEF j

LEMMA RtiAfterBrk ==
    ASSUME NEW c \in Chip
    PROVE  /\ Rti(Brk(c)).pc = Word16(c.pc + 2)
           /\ Rti(Brk(c)).sp = c.sp
           /\ Rti(Brk(c)).status = BreakBits[BreakBits[c.status]]
<1> DEFINE w == Word16(c.pc + 1 + 1)
           d == PushWord(c, w)
           value == BreakBits[c.status]
           e == PushToStack(d, value)
           b == Brk(c)
           s1 == Byte8(c.sp - 1)
           s2 == Byte8(s1 - 1)
<1>1. c.pc \in Address /\ c.sp \in Byte /\ value \in Byte
  BY ChipsAssumption DEF Chip
<1>2. c.pc + 1 + 1 = c.pc + 2
  BY <1>1 DEF Address
<1>3. w \in Address
  BY <1>1, <1>2, ReturnWord
<1>4. /\ d \in Chip /\ d.sp = s2
      /\ d.memory[StackAddress(c.sp)] = High(w) /\ d.memory[StackAddress(s1)] = Low(w)
  BY <1>3, PushWordFacts
<1>5. /\ e \in Chip /\ e.sp = Byte8(d.sp - 1)
      /\ e.memory[StackAddress(d.sp)] = value
      /\ \A a \in Address \ {StackAddress(d.sp)} : e.memory[a] = d.memory[a]
  BY <1>1, <1>4, PushByteFacts
<1>6. /\ s1 \in Byte /\ s2 \in Byte /\ s1 # c.sp /\ s2 # c.sp /\ s2 # s1
      /\ Byte8(e.sp + 1) = s2 /\ Byte8(e.sp + 2) = s1 /\ Byte8(e.sp + 3) = c.sp
  BY <1>1, <1>4, <1>5, StackRoundTrip
<1>7. b.memory = e.memory /\ b.sp = e.sp /\ {"pc", "sp", "status"} \subseteq DOMAIN b
  BY <1>5 DEF Brk, Chip
<1> HIDE DEF w, d, value, e, b, s1, s2
<1>8. StackAddress(c.sp) \in Address \ {StackAddress(s2)}
  BY <1>1, <1>6, StackAddressType, StackAddressesDiffer
<1>9. StackAddress(s1) \in Address \ {StackAddress(s2)}
  BY <1>6, StackAddressType, StackAddressesDiffer
<1>10. Pulled(b, 1) = value /\ Pulled(b, 2) = Low(w) /\ Pulled(b, 3) = High(w)
  BY <1>4, <1>5, <1>6, <1>7, <1>8, <1>9 DEF Pulled
<1>11. /\ Rti(b).pc = Word(Low(w), High(w)) /\ Rti(b).sp = Byte8(e.sp + 3)
       /\ Rti(b).status = BreakBits[value]
  BY <1>7, <1>10 DEF Rti
<1>12. Word(Low(w), High(w)) = w
  BY <1>3, WordParts
<1> QED
  BY <1>2, <1>6, <1>11, <1>12 DEF w, b, value

(* RTS and RTI return to where JSR and BRK were called from, for every page *)
(* size and stack pointer.                                                  *)
THEOREM ReturnsToCallerCorrect == Spec => ReturnsToCaller
<1> DEFINE Returns ==
        /\ op'[1] = "JSR" =>
              Rts(chip').pc = Word16(chip.pc + 3) /\ Rts(chip').sp = chip.sp
        /\ op'[1] = "BRK" =>
              /\ Rti(chip').pc = Word16(chip.pc + 2)
              /\ Rti(chip').sp = chip.sp
              /\ Rti(chip').status = BreakBits[BreakBits[chip.status]]
<1>1. TypeOK /\ [Next]_vars => [Returns]_vars
  <2> SUFFICES ASSUME TypeOK, Next, ~UNCHANGED vars PROVE Returns
    OBVIOUS
  <2>1. ASSUME NEW name, NEW mode, NEW len, NEW result,
               Instruction(name, mode, len, result)
        PROVE  chip \in Chip /\ op'[1] = name /\ chip' = result
    BY <2>1 DEF Instruction, TypeOK
  <2>2. CASE Instruction("JSR", "ABS", 3, Jsr(chip))
    BY <2>1, <2>2, RtsAfterJsr
  <2>3. CASE Instruction("BRK", "IMP", 1, Brk(chip))
    BY <2>1, <2>3, RtiAfterBrk
  <2>4. ASSUME NEW name \in {"LD", "ST", "branch", "JMP", "RTS", "RTI"}, NEW mode,
               NEW len, NEW result, Instruction(name, mode, len, result)
        PROVE  Returns
    <3>1. op'[1] \in {"LD", "ST", "branch", "JMP", "RTS", "RTI"}
      BY <2>1, <2>4
    <3> QED
      BY <3>1
  <2> HIDE DEF Returns
  <2> QED
    BY <2>2, <2>3, <2>4 DEF Next, Finished
<1> QED
  BY <1>1, TypeCorrect, PTL DEF Spec, ReturnsToCaller
=============================================================================
