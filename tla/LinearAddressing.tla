-------------------------- MODULE LinearAddressing --------------------------
(***************************************************************************)
(* The instructions of Addressing as linear.c executes them: the program    *)
(* counter is counted up with every byte fetched.                           *)
(***************************************************************************)
EXTENDS Integers

CONSTANTS PAGE, BreakBits, InterruptBit

VARIABLES chip, op

MEMORY_SIZE == PAGE * PAGE

(* execute_opcode is called with the program counter after the opcode; the  *)
(* n-th operand byte is memory[program_counter++].                          *)
Counter(c, n) == (c.pc + n) % MEMORY_SIZE
operand(c, n) == c.memory[Counter(c, n)]
word(lo, hi) == lo + PAGE * hi

absolute(c) == word(operand(c, 1), operand(c, 2))
pointer(c, zp) == word(c.memory[zp], c.memory[(zp + 1) % PAGE])

addr_abs(c) == absolute(c)
addr_abs_x(c) == (absolute(c) + c.x) % MEMORY_SIZE
addr_abs_y(c) == (absolute(c) + c.y) % MEMORY_SIZE
addr_zp(c) == operand(c, 1)
addr_zp_x(c) == (operand(c, 1) + c.x) % PAGE
addr_zp_y(c) == (operand(c, 1) + c.y) % PAGE
addr_ind_x(c) == pointer(c, (operand(c, 1) + c.x) % PAGE)
addr_ind_y(c) == (pointer(c, operand(c, 1)) + c.y) % MEMORY_SIZE

(* The functions op_lda_abs, op_lda_abs_x, ... : the address and the number *)
(* of bytes fetched by the instruction of a mode.                           *)
addr(c) ==
    [ABS   |-> <<addr_abs(c), 3>>,   ABS_X |-> <<addr_abs_x(c), 3>>,
     ABS_Y |-> <<addr_abs_y(c), 3>>, ZP    |-> <<addr_zp(c), 2>>,
     ZP_X  |-> <<addr_zp_x(c), 2>>,  ZP_Y  |-> <<addr_zp_y(c), 2>>,
     IND_X |-> <<addr_ind_x(c), 2>>, IND_Y |-> <<addr_ind_y(c), 2>>]

load(c, a) == [c EXCEPT !.reg = c.memory[a[1]], !.pc = Counter(c, a[2])]
store(c, a) == [c EXCEPT !.memory[a[1]] = c.reg, !.pc = Counter(c, a[2])]

-----------------------------------------------------------------------------
push(c, value) == [c EXCEPT !.memory[PAGE + c.sp] = value, !.sp = (c.sp - 1) % PAGE]
pull(c, n) == c.memory[PAGE + ((c.sp + n) % PAGE)]

branch(c, taken) ==
    LET byte == operand(c, 1)
        offset == IF 2 * byte < PAGE THEN byte ELSE byte - PAGE
    IN  [c EXCEPT !.pc = IF taken THEN (Counter(c, 2) + offset) % MEMORY_SIZE
                         ELSE Counter(c, 2)]

jmp_abs(c) == [c EXCEPT !.pc = absolute(c)]
jmp_ind(c) ==
    LET ptr == absolute(c)
        wrapped == word((ptr + 1) % PAGE, ptr \div PAGE)
    IN  [c EXCEPT !.pc = word(c.memory[ptr], c.memory[wrapped])]

jsr_abs(c) ==
    LET return_addr == (Counter(c, 3) - 1) % MEMORY_SIZE
    IN  [push(push(c, return_addr \div PAGE), return_addr % PAGE) EXCEPT !.pc = absolute(c)]

rts(c) ==
    [c EXCEPT !.pc = (word(pull(c, 1), pull(c, 2)) + 1) % MEMORY_SIZE,
              !.sp = (@ + 2) % PAGE]

brk(c) ==
    LET return_addr == (Counter(c, 1) + 1) % MEMORY_SIZE
        pushed == push(push(push(c, return_addr \div PAGE), return_addr % PAGE),
                       BreakBits[c.status])
    IN  [pushed EXCEPT
            !.status = InterruptBit[c.status],
            !.pc = word(pushed.memory[MEMORY_SIZE - 2], pushed.memory[MEMORY_SIZE - 1])]

rti(c) ==
    [c EXCEPT !.status = BreakBits[pull(c, 1)],
              !.pc = word(pull(c, 2), pull(c, 3)),
              !.sp = (@ + 3) % PAGE]

-----------------------------------------------------------------------------
Function(name, mode, result) ==
    /\ op = <<"none", "none">>
    /\ op' = <<name, mode>>
    /\ chip' = result

Next ==
    \/ \E mode \in DOMAIN addr(chip) : Function("LD", mode, load(chip, addr(chip)[mode]))
    \/ \E mode \in DOMAIN addr(chip) : Function("ST", mode, store(chip, addr(chip)[mode]))
    \/ Function("branch", "taken", branch(chip, TRUE))
    \/ Function("branch", "not taken", branch(chip, FALSE))
    \/ Function("JMP", "ABS", jmp_abs(chip))
    \/ Function("JMP", "IND", jmp_ind(chip))
    \/ Function("JSR", "ABS", jsr_abs(chip))
    \/ Function("RTS", "IMP", rts(chip))
    \/ Function("BRK", "IMP", brk(chip))
    \/ Function("RTI", "IMP", rti(chip))
=============================================================================
