------------------------------ MODULE MCLinear ------------------------------
(* A guest all of whose bytes are opcodes: a nop and a JMP.                *)
EXTENDS Interpreter

MCByte == {"nop", "jmp"}
MCValid == MCByte
MCLength == [b \in MCValid |-> IF b = "nop" THEN 1 ELSE 3]
MCWrites == [b \in MCValid |-> 0]
MCFlow == [b \in MCValid |-> IF b = "nop" THEN "next" ELSE "jmp"]
MCStores == [b \in MCValid |-> {}]
MCTargets == Address
MCImages == [Address -> MCByte]
=============================================================================
