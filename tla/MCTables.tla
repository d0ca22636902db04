------------------------------ MODULE MCTables ------------------------------
(* The real tables, and Guest over them: what the engines' modules assume  *)
(* of their opcodes, the real opcodes fulfil.                              *)
EXTENDS OpcodeTables

MCRoom == 1 .. 4

Mnemonic(b) == TheOne(functions[b])[1]
RealFlow == [b \in valid_opcode |->
    CASE Mnemonic(b) \in {"JMP", "JSR", "RTS", "RTI", "BRK"} ->
            IF b = \h4C THEN "jmp" ELSE "jump"
      [] Mnemonic(b) \in Diverts -> "branch"
      [] OTHER -> "next"]
RealWrites == [b \in valid_opcode |->
    CASE Mnemonic(b) = "BRK" -> 3
      [] Mnemonic(b) = "JSR" -> 2
      [] Mnemonic(b) \in {"STA", "STX", "STY", "PHA", "PHP", "INC", "DEC"} -> 1
      [] Mnemonic(b) \in {"ASL", "LSR", "ROL", "ROR"} /\ <<Mnemonic(b), "ACC">> \notin functions[b] -> 1
      [] OTHER -> 0]

Real == INSTANCE Guest WITH
    MEMORY_SIZE <- 65536, CODE_CACHE_CAPACITY <- 65536, Entry <- 1024,
    Valid <- valid_opcode, Length <- [b \in valid_opcode |-> instruction_length[b]],
    Writes <- RealWrites, Flow <- RealFlow, Stores <- [b \in valid_opcode |-> {}],
    Targets <- {}, Images <- {}

ASSUME RealOpcodes == Real!SizeAssumption /\ Real!OpcodeAssumption
=============================================================================
