-------------------------------- MODULE Bytes --------------------------------
(* Bytes as the instructions use them: as numbers and as sets of bits.  The *)
(* status register is kept as the set of its bits.                          *)
EXTENDS Integers, FiniteSets

Byte == 0 .. 255
BitNo == 0 .. 7

Bits == [x \in Byte |-> {i \in BitNo : (x \div 2 ^ i) % 2 = 1}]
ValueOf == [S \in SUBSET BitNo |-> CHOOSE x \in Byte : Bits[x] = S]
Negative(x) == 7 \in Bits[x]

(* The bits of the status register; B and U have no function of their own. *)
C == 0
Z == 1
I == 2
D == 3
B == 4
U == 5
V == 6
N == 7

(* The status with one bit set or cleared.                                 *)
With(status, flag, condition) ==
    IF condition THEN status \cup {flag} ELSE status \ {flag}

CarryIn(status) == IF C \in status THEN 1 ELSE 0

(* The instructions that only set or clear a flag.                          *)
FlagInstructions ==
    {<<"CLC", C, FALSE>>, <<"CLD", D, FALSE>>, <<"CLI", I, FALSE>>,
     <<"CLV", V, FALSE>>, <<"SEC", C, TRUE>>, <<"SED", D, TRUE>>, <<"SEI", I, TRUE>>}

(* What an instruction works on: a register (A, X or Y), the byte it takes  *)
(* from or leaves in memory, the stack or the register it shifts, the       *)
(* status register, and whether it branches.                                *)
Chip == [reg : Byte, val : Byte, status : SUBSET BitNo, taken : BOOLEAN]
==============================================================================
