---------------------------- MODULE Interpreter ----------------------------
(***************************************************************************)
(* The FETCH_DECODE_EXECUTE engine: cpu_run's loop over cpu_step_linear.   *)
(* It decodes every instruction from memory at the moment it runs it, so   *)
(* it is also what the two translating engines have to implement.          *)
(***************************************************************************)
EXTENDS Guest

VARIABLES
    memory,  \* chip.memory
    pc,      \* chip.program_counter
    ins,     \* the instruction being executed
    todo,    \* how many bytes it still has to write
    status   \* "fetch", "busy", "halted" or "crashed"

vars == <<memory, pc, ins, todo, status>>

(* The types of the state; status says where cpu_run's loop is.            *)
TypeOK ==
    /\ memory \in [Address -> Byte]
    /\ pc \in Address
    /\ ins \in Instr \cup {NoInstr}
    /\ todo \in 0 .. 3
    /\ status \in {"fetch", "busy", "halted", "crashed"}

Init ==
    /\ memory \in Images
    /\ pc = Entry
    /\ ins = NoInstr
    /\ todo = 0
    /\ status = "fetch"

(* cpu_step_linear reads the opcode and execute_opcode its operand bytes,  *)
(* all before the instruction writes anything.                             *)
Fetch ==
    /\ status = "fetch"
    /\ memory[pc] \in Valid
    /\ ins' = Fetched(memory, pc)
    /\ todo' = Writes[memory[pc]]
    /\ status' = "busy"
    /\ UNCHANGED <<memory, pc>>

(* opcode_table has no entry for an invalid opcode: execute_opcode calls   *)
(* a null pointer.                                                         *)
Crash ==
    /\ status = "fetch"
    /\ memory[pc] \notin Valid
    /\ status' = "crashed"
    /\ UNCHANGED <<memory, pc, ins, todo>>

Store ==
    /\ status = "busy"
    /\ todo > 0
    /\ \E s \in Stores[ins.op] : memory' = [memory EXCEPT ![s[1]] = s[2]]
    /\ todo' = todo - 1
    /\ UNCHANGED <<pc, ins, status>>

(* An absolute JMP ends the run when it jumps to itself.  The test reads   *)
(* memory[pc + 2] without wrapping: at the last but one address that byte  *)
(* lies past the end of memory and the test may come out either way.       *)
JumpsToItself(target) ==
    IF pc = MEMORY_SIZE - 2 THEN BOOLEAN ELSE {target = pc}

Retire ==
    /\ status = "busy"
    /\ todo = 0
    /\ \E target \in NextPcs(Flow[ins.op], pc, ins.len) :
           \E stop \in IF Flow[ins.op] = "jmp" THEN JumpsToItself(target) ELSE {FALSE} :
               /\ pc' = IF stop THEN Advance(pc, 1) ELSE target
               /\ status' = IF stop THEN "halted" ELSE "fetch"
    /\ ins' = NoInstr
    /\ UNCHANGED <<memory, todo>>

(* cpu_run leaves the loop and the switch by break, which ends up in the   *)
(* first handler with a null instruction.                                  *)
FallThrough ==
    /\ status = "halted"
    /\ status' = "crashed"
    /\ UNCHANGED <<memory, pc, ins, todo>>

Done == status = "crashed" /\ UNCHANGED vars

Next == Fetch \/ Crash \/ Store \/ Retire \/ FallThrough \/ Done

Spec == Init /\ [][Next]_vars

-----------------------------------------------------------------------------
(* The only thing that can bring the interpreter down is a byte that is no *)
(* opcode: in particular a program that jumps to itself ends its run.      *)
CrashOnlyOnInvalid == status = "crashed" => memory[pc] \notin Valid
=============================================================================
