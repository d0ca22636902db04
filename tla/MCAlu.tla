-------------------------------- MODULE MCAlu --------------------------------
(* Every value of the byte; of the register every decimal number and both   *)
(* ends of the decimal and the other digits in every row of sixteen.  Carry *)
(* and decimal mode are clear or set; the other flags are all clear when    *)
(* the carry is set and all set when it is clear.  B and U are always set:  *)
(* reset, PLP and RTI set them and nothing clears them.                     *)
EXTENDS Alu

MCRegisters == {x \in Byte : IsDecimal(x) \/ x % 16 \in {0, 9, 10, 15}}
MCStatuses == {S \cup {B, U} \cup (IF C \in S THEN {} ELSE {Z, I, V, N}) :
                   S \in SUBSET {C, D}}
==============================================================================
