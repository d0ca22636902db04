------------------------------- MODULE Guest -------------------------------
(***************************************************************************)
(* What every engine of the emulator shares: the guest's memory, the       *)
(* opcode tables of isa.h, the precoded instruction and the directory of   *)
(* instruction owners (types.h).                                           *)
(*                                                                         *)
(* An opcode is reduced to what the engines tell apart: whether it is      *)
(* valid, its length, how many bytes it writes to memory and how it leaves *)
(* its address.  Registers and flags are left out, so an effective address *)
(* and a stored byte are any pair the opcode may store, and a branch or    *)
(* jump goes to any target.                                                *)
(***************************************************************************)
EXTENDS Integers, Sequences, FiniteSets

CONSTANTS
    MEMORY_SIZE,          \* number of guest addresses (65536)
    CODE_CACHE_CAPACITY,  \* number of slots of a code cache (65536)
    Byte,                 \* the values of a byte of memory
    Valid,                \* the bytes that are valid opcodes
    Length,               \* instruction_length: Length[b] for an opcode b
    Writes,               \* how many bytes an opcode writes to memory
    Flow,                 \* how an opcode leaves its address
    Stores,               \* Stores[b]: the <<address, byte>> pairs b may store
    Targets,              \* the addresses a branch or a jump may reach
    Images,               \* the memory images load_program may read
    Entry                 \* the program counter after cpu_reset (0x0400)

Address == 0 .. MEMORY_SIZE - 1
Slot == 0 .. CODE_CACHE_CAPACITY - 1

\* "next": falls through.  "branch": falls through or branches.  "jump":
\* JSR, RTS, RTI, BRK and the indirect JMP.  "jmp": the absolute JMP (0x4C).
Flows == {"next", "branch", "jump", "jmp"}

ASSUME SizeAssumption ==
    /\ MEMORY_SIZE \in Nat /\ MEMORY_SIZE >= 4
    /\ CODE_CACHE_CAPACITY \in Nat /\ CODE_CACHE_CAPACITY >= 2
    /\ Entry \in Address

ASSUME OpcodeAssumption ==
    /\ Valid \subseteq Byte
    /\ Length \in [Valid -> 1 .. 3]
    /\ Writes \in [Valid -> 0 .. 3]
    /\ Flow \in [Valid -> Flows]
    /\ Stores \in [Valid -> SUBSET (Address \X Byte)]

ASSUME ProgramAssumption ==
    /\ Targets \subseteq Address
    /\ Images \subseteq [Address -> Byte]

-----------------------------------------------------------------------------
(* The sentinel UINT16_MAX of the two directories.  It is also the number  *)
(* of the last slot and the last address.                                  *)
NO_TPC == CODE_CACHE_CAPACITY - 1
NO_OWNER == MEMORY_SIZE - 1

(* uint16_t arithmetic on addresses; the first form forgets to wrap.       *)
AdvanceUnwrapped(address, n) == address + n
Advance(address, n) == (address + n) % MEMORY_SIZE

(* A precoded_instruction_t; its handler and mode are those of op.         *)
Instr == [op : Valid, len : 1 .. 3, operand : Seq(Byte)]
NoInstr == [op |-> "none", len |-> 0, operand |-> << >>]

(* The instruction the linear engine decodes at an address: the operand    *)
(* bytes are fetched with program_counter++, which wraps.                  *)
Fetched(memory, spc) ==
    LET len == Length[memory[spc]]
    IN  [op |-> memory[spc], len |-> len,
         operand |-> [i \in 1 .. len - 1 |-> memory[Advance(spc, i)]]]

(* precode_instruction succeeds: the opcode is valid and the instruction   *)
(* does not run past the end of memory.                                    *)
CanPrecode(memory, spc) ==
    /\ memory[spc] \in Valid
    /\ spc <= MEMORY_SIZE - Length[memory[spc]]

(* What it then returns.                                                   *)
Precoded(memory, spc) ==
    LET len == Length[memory[spc]]
    IN  [op |-> memory[spc], len |-> len,
         operand |-> [i \in 1 .. len - 1 |-> memory[spc + i]]]

-----------------------------------------------------------------------------
Span(spc, len) == spc .. spc + len - 1

(* invalidate_instruction_ownership clears the unbroken run of bytes that  *)
(* starts at spc and that spc owns.                                        *)
InvalidateOwnership(owner, spc) ==
    [b \in Address |->
        IF b >= spc /\ \A c \in spc .. b : owner[c] = spc
        THEN NO_OWNER ELSE owner[b]]

(* cache_instruction's part on instruction_owner.                          *)
ClaimOwnership(owner, spc, len) ==
    [b \in Address |->
        IF b \in Span(spc, len) THEN spc
        ELSE InvalidateOwnership(owner, spc)[b]]

-----------------------------------------------------------------------------
(* Where an instruction of this flow and length may leave pc.               *)
NextPcs(flow, pc, len) ==
    (IF flow \in {"next", "branch"} THEN {Advance(pc, len)} ELSE {})
        \cup (IF flow = "next" THEN {} ELSE Targets)
=============================================================================
