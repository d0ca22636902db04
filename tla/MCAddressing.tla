---------------------------- MODULE MCAddressing ----------------------------
(* Pages of four bytes.  The instruction lies at the beginning, in the      *)
(* stack page, across a page boundary and at the end of memory, with every  *)
(* operand, and the rest of memory is filled in two ways; the registers and *)
(* the stack pointer have every value.                                      *)
EXTENDS Addressing

Filled(k, pc, b1, b2) ==
    [a \in Address |-> CASE a = pc + 1 -> b1
                         [] a = pc + 2 -> b2
                         [] OTHER -> (k * a + k + (a \div PAGE)) % PAGE]

MCChips ==
    {[memory |-> Filled(k, pc, b1, b2), pc |-> pc, x |-> i, y |-> i, sp |-> s,
      reg |-> r, status |-> r] :
        k \in {1, 3}, pc \in {0, 2, 5, 6, 13, 14, 15}, b1 \in Byte, b2 \in Byte,
        i \in Byte, s \in Byte, r \in {0, 2}}

MCBreakBits == [s \in Byte |-> IF s < 2 THEN s + 2 ELSE s]
MCInterruptBit == [s \in Byte |-> IF s % 2 = 0 THEN s + 1 ELSE s]
=============================================================================
