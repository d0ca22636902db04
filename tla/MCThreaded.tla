----------------------------- MODULE MCThreaded -----------------------------
(* Four addresses, four slots and one opcode of each kind that matters, in *)
(* every memory image over them; instructions store into their own code    *)
(* and jump into the middle of others, and the engine is followed past the *)
(* end of its cache.                                                       *)
EXTENDS Threaded

MCByte == {"sta", "php", "jmp", "jsr", "bad"}
MCValid == MCByte \ {"bad"}
MCLength == [b \in MCValid |-> CASE b = "sta" -> 2 [] b = "php" -> 1 [] OTHER -> 3]
MCWrites == [b \in MCValid |-> CASE b \in {"sta", "php"} -> 1 [] b = "jmp" -> 0 [] b = "jsr" -> 2]
MCFlow == [b \in MCValid |-> CASE b = "jmp" -> "jmp" [] b = "jsr" -> "jump" [] OTHER -> "next"]
MCStores == [b \in MCValid |->
    CASE b = "sta" -> {1, 2} \X MCByte [] b = "jmp" -> {} [] OTHER -> {1} \X {"sta", "bad"}]
MCTargets == {0, 1}
MCImages == [Address -> MCByte]
=============================================================================
