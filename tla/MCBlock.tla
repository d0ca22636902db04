------------------------------- MODULE MCBlock -------------------------------
(* Every memory image over four bytes: a store, an instruction that writes *)
(* nothing, one that pushes behind the engine's back and goes elsewhere,   *)
(* and an invalid opcode.                                                  *)
EXTENDS Block

MCByte == {"sta", "nop", "brk", "bad"}
MCValid == MCByte \ {"bad"}
MCLength == [b \in MCValid |-> IF b = "sta" THEN 2 ELSE 1]
MCWrites == [b \in MCValid |-> CASE b = "sta" -> 1 [] b = "nop" -> 0 [] b = "brk" -> 3]
MCFlow == [b \in MCValid |-> IF b = "brk" THEN "jump" ELSE "next"]
MCStores == [b \in MCValid |->
    CASE b = "sta" -> {1, 2} \X MCByte [] b = "brk" -> {1} \X {"sta", "bad"} [] OTHER -> {}]
MCTargets == {0, 2}
MCImages == [Address -> MCByte]
=============================================================================
