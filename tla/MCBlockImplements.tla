------------------------- MODULE MCBlockImplements -------------------------
(* A guest that modifies its own code and keeps to the rules the engine    *)
(* needs: a block writes only to other blocks, nothing is pushed into code *)
(* and every block that is not empty ends at a branch or jump.  The block  *)
(* at 0 (a store, a nop and a branch) patches the one at 5 and the other   *)
(* way round; the one at 2 shares its entry with the block at 0, whose     *)
(* first two bytes only are patched.  A branch may also go to 8, which is  *)
(* no opcode, and one image has no branch at all.                          *)
EXTENDS BlockGuest

MCByte == {"stp", "stq", "nop", "bne", "jmp", "jsr", "bad"}
MCValid == MCByte \ {"bad"}
MCLength == [b \in MCValid |->
    CASE b = "nop" -> 1 [] b \in {"stp", "stq", "bne"} -> 2 [] OTHER -> 3]
MCWrites == [b \in MCValid |->
    CASE b \in {"stp", "stq"} -> 1 [] b = "jsr" -> 2 [] OTHER -> 0]
MCFlow == [b \in MCValid |->
    CASE b = "bne" -> "branch" [] b = "jmp" -> "jmp" [] b = "jsr" -> "jump" [] OTHER -> "next"]

Blank == "nop"
Held == [a \in 0 .. 10 |->
    CASE a = 0 -> {"stp", "bne"} [] a = 1 -> {Blank, "jmp"} [] a = 2 -> {"nop"} [] a = 3 -> {"bne"}
      [] a = 5 -> {"stq", "jmp"} [] a = 6 -> {Blank, "jmp"} [] a = 7 -> {"jsr"}
      [] a = 8 -> {"bad"} [] OTHER -> {Blank}]
Write(cells) == {s \in Address \X MCByte : s[1] \in cells /\ s[2] \in Held[s[1]]}
MCStores == [b \in MCValid |->
    CASE b = "stp" -> Write({5, 6}) [] b = "stq" -> Write({0, 1}) [] b = "jsr" -> Write({10})
      [] OTHER -> {}]
MCTargets == {0, 2, 5, 8}

Plain == [a \in Address |->
    CASE a = 0 -> "stp" [] a = 3 -> "bne" [] a = 5 -> "stq" [] a = 7 -> "jsr" [] a = 8 -> "bad" [] OTHER -> Blank]
MCImages == {Plain, [Plain EXCEPT ![0] = "bne"], [Plain EXCEPT ![5] = "jmp"],
    [a \in Address |-> Blank]}

MCStarts == {0, 2, 3, 5, 7, 8}
MCPrograms == {
    [memories |-> {[Plain EXCEPT ![0] = b, ![1] = c, ![5] = d, ![6] = e] :
                      b \in Held[0], c \in Held[1], d \in Held[5], e \in Held[6]},
     ops |-> MCValid,
     starts |-> MCStarts,
     members |-> [a \in MCStarts |->
         CASE a = 0 -> {0, 2, 3} [] a = 2 -> {2, 3} [] a = 5 -> {5, 7} [] OTHER -> {a}],
     place |-> [a \in MCStarts |-> [s \in Address |->
         CASE s = a -> 0 [] a = 0 /\ s = 3 -> 2 [] OTHER -> 1]]],
    [memories |-> {[a \in Address |-> Blank]},
     ops |-> {Blank},
     starts |-> MCTargets,
     members |-> [a \in MCTargets |-> Address],
     place |-> [a \in MCTargets |-> [s \in Address |-> 0]]]}
=============================================================================
