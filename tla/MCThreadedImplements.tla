------------------------ MODULE MCThreadedImplements ------------------------
(* A guest that modifies its own code and keeps to the rule the engine     *)
(* needs: an opcode is only replaced by one of the same length, and every  *)
(* jump lands on the start of an instruction.  Instructions start at 0, 3  *)
(* and 6; the byte at 2 is no opcode, so 0 and 3 are translated by batches *)
(* of their own, and falling off the end of memory continues at 0.         *)
EXTENDS ThreadedGuest

MCByte == {"sta", "bne", "jmp", "jsr", "bad"}
MCValid == MCByte \ {"bad"}
MCLength == [b \in MCValid |-> IF b \in {"sta", "bne"} THEN 2 ELSE 3]
MCWrites == [b \in MCValid |-> CASE b = "sta" -> 1 [] b = "jsr" -> 2 [] OTHER -> 0]
MCFlow == [b \in MCValid |->
    CASE b = "sta" -> "next" [] b = "bne" -> "branch" [] b = "jmp" -> "jmp" [] b = "jsr" -> "jump"]

\* What may be stored where; the operand bytes are 1, 4, 5 and 7.
Short == {"sta", "bne"}
Long == {"jmp", "jsr"}
Held == [a \in 0 .. 7 |->
    CASE a \in {0, 6} -> Short [] a = 3 -> Long [] a = 2 -> {"bad"} [] a \in {1, 4} -> {"bad", "sta"}
      [] OTHER -> {"bad"}]
MCStores == [b \in MCValid |->
    {s \in Address \X MCByte : s[2] \in Held[s[1]] /\ (b = "jsr" => s[1] = 1)}]
MCTargets == {0, 3, 6}
MCSize == [s \in {0, 2, 3, 6} |-> CASE s \in {0, 6} -> 2 [] s = 3 -> 3 [] s = 2 -> 0]
MCImages == {m \in [Address -> MCByte] : \A a \in Address : m[a] \in Held[a]}
=============================================================================
