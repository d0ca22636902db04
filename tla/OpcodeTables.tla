---------------------------- MODULE OpcodeTables ----------------------------
(***************************************************************************)
(* The tables that describe the 256 opcodes: valid_opcode,                 *)
(* instruction_length and the kinds is_block_terminator looks at (isa.h),  *)
(* the decode table of the handlers (ops.h) and the function table of the  *)
(* linear engine (linear.c).  They are written by hand, each on its own;   *)
(* the state machine takes one opcode through each engine by way of the    *)
(* tables that engine uses.                                                *)
(***************************************************************************)
EXTENDS Integers, FiniteSets

CONSTANT ROOM  \* how many bytes there may be from an instruction's address
               \* to the end of memory

ASSUME RoomAssumption == ROOM \subseteq Nat \ {0}

Byte == 0 .. 255

-----------------------------------------------------------------------------
(* DECODE_TABLE_CONTENT: Handler |-> (mode |-> opcode).  A missing mode is *)
(* AM_IMP, the enumeration's zero.                                         *)
DECODE_TABLE == [
    LDA |-> [IMM |-> \hA9, ZP |-> \hA5, ZP_X |-> \hB5, ABS |-> \hAD, ABS_X |-> \hBD,
            ABS_Y |-> \hB9, IND_X |-> \hA1, IND_Y |-> \hB1],
    LDX |-> [IMM |-> \hA2, ZP |-> \hA6, ZP_Y |-> \hB6, ABS |-> \hAE, ABS_Y |-> \hBE],
    LDY |-> [IMM |-> \hA0, ZP |-> \hA4, ZP_X |-> \hB4, ABS |-> \hAC, ABS_X |-> \hBC],
    STA |-> [ZP |-> \h85, ZP_X |-> \h95, ABS |-> \h8D, ABS_X |-> \h9D, ABS_Y |-> \h99,
            IND_X |-> \h81, IND_Y |-> \h91],
    STX |-> [ZP |-> \h86, ZP_Y |-> \h96, ABS |-> \h8E],
    STY |-> [ZP |-> \h84, ZP_X |-> \h94, ABS |-> \h8C],
    ADC |-> [IMM |-> \h69, ZP |-> \h65, ZP_X |-> \h75, ABS |-> \h6D, ABS_X |-> \h7D,
            ABS_Y |-> \h79, IND_X |-> \h61, IND_Y |-> \h71],
    SBC |-> [IMM |-> \hE9, ZP |-> \hE5, ZP_X |-> \hF5, ABS |-> \hED, ABS_X |-> \hFD,
            ABS_Y |-> \hF9, IND_X |-> \hE1, IND_Y |-> \hF1],
    AND |-> [IMM |-> \h29, ZP |-> \h25, ZP_X |-> \h35, ABS |-> \h2D, ABS_X |-> \h3D,
            ABS_Y |-> \h39, IND_X |-> \h21, IND_Y |-> \h31],
    BIT |-> [ZP |-> \h24, ABS |-> \h2C],
    ORA |-> [IMM |-> \h09, ZP |-> \h05, ZP_X |-> \h15, ABS |-> \h0D, ABS_X |-> \h1D,
            ABS_Y |-> \h19, IND_X |-> \h01, IND_Y |-> \h11],
    EOR |-> [IMM |-> \h49, ZP |-> \h45, ZP_X |-> \h55, ABS |-> \h4D, ABS_X |-> \h5D,
            ABS_Y |-> \h59, IND_X |-> \h41, IND_Y |-> \h51],
    CMP |-> [IMM |-> \hC9, ZP |-> \hC5, ZP_X |-> \hD5, ABS |-> \hCD, ABS_X |-> \hDD,
            ABS_Y |-> \hD9, IND_X |-> \hC1, IND_Y |-> \hD1],
    CPX |-> [IMM |-> \hE0, ZP |-> \hE4, ABS |-> \hEC],
    CPY |-> [IMM |-> \hC0, ZP |-> \hC4, ABS |-> \hCC],
    ASL |-> [ACC |-> \h0A, ZP |-> \h06, ZP_X |-> \h16, ABS |-> \h0E, ABS_X |-> \h1E],
    LSR |-> [ACC |-> \h4A, ZP |-> \h46, ZP_X |-> \h56, ABS |-> \h4E, ABS_X |-> \h5E],
    ROL |-> [ACC |-> \h2A, ZP |-> \h26, ZP_X |-> \h36, ABS |-> \h2E, ABS_X |-> \h3E],
    ROR |-> [ACC |-> \h6A, ZP |-> \h66, ZP_X |-> \h76, ABS |-> \h6E, ABS_X |-> \h7E],
    INC |-> [ZP |-> \hE6, ZP_X |-> \hF6, ABS |-> \hEE, ABS_X |-> \hFE],
    DEC |-> [ZP |-> \hC6, ZP_X |-> \hD6, ABS |-> \hCE, ABS_X |-> \hDE],
    INX |-> [IMP |-> \hE8], INY |-> [IMP |-> \hC8], DEX |-> [IMP |-> \hCA],
    DEY |-> [IMP |-> \h88], BCC |-> [REL |-> \h90], BCS |-> [REL |-> \hB0],
    BEQ |-> [REL |-> \hF0], BMI |-> [REL |-> \h30], BNE |-> [REL |-> \hD0],
    BPL |-> [REL |-> \h10], BVC |-> [REL |-> \h50], BVS |-> [REL |-> \h70],
    JMP |-> [ABS |-> \h4C, IND |-> \h6C],
    JSR |-> [ABS |-> \h20], RTS |-> [IMP |-> \h60], RTI |-> [IMP |-> \h40],
    CLC |-> [IMP |-> \h18], CLD |-> [IMP |-> \hD8], CLI |-> [IMP |-> \h58],
    CLV |-> [IMP |-> \hB8], SEC |-> [IMP |-> \h38], SED |-> [IMP |-> \hF8],
    SEI |-> [IMP |-> \h78], TAX |-> [IMP |-> \hAA], TAY |-> [IMP |-> \hA8],
    TXA |-> [IMP |-> \h8A], TYA |-> [IMP |-> \h98], TSX |-> [IMP |-> \hBA],
    TXS |-> [IMP |-> \h9A], PHA |-> [IMP |-> \h48], PHP |-> [IMP |-> \h08],
    PLA |-> [IMP |-> \h68], PLP |-> [IMP |-> \h28], BRK |-> [IMP |-> \h00],
    NOP |-> [IMP |-> \hEA], DISPATCHER |-> [IMP |-> \hFF]]

(* opcode_table: the functions op_<operation>_<mode> of the linear engine. *)
opcode_table == [
    BRK |-> [IMP |-> \h00], NOP |-> [IMP |-> \hEA],
    LDA |-> [IMM |-> \hA9, ABS |-> \hAD, ABS_X |-> \hBD, ABS_Y |-> \hB9, ZP |-> \hA5,
            ZP_X |-> \hB5, IND_X |-> \hA1, IND_Y |-> \hB1],
    LDX |-> [IMM |-> \hA2, ABS |-> \hAE, ABS_Y |-> \hBE, ZP |-> \hA6, ZP_Y |-> \hB6],
    LDY |-> [IMM |-> \hA0, ABS |-> \hAC, ABS_X |-> \hBC, ZP |-> \hA4, ZP_X |-> \hB4],
    STA |-> [ABS |-> \h8D, ABS_X |-> \h9D, ABS_Y |-> \h99, ZP |-> \h85, ZP_X |-> \h95,
            IND_X |-> \h81, IND_Y |-> \h91],
    STX |-> [ABS |-> \h8E, ZP |-> \h86, ZP_Y |-> \h96],
    STY |-> [ABS |-> \h8C, ZP |-> \h84, ZP_X |-> \h94],
    TAX |-> [IMP |-> \hAA], TAY |-> [IMP |-> \hA8], TSX |-> [IMP |-> \hBA],
    TXA |-> [IMP |-> \h8A], TYA |-> [IMP |-> \h98], TXS |-> [IMP |-> \h9A],
    PHA |-> [IMP |-> \h48], PHP |-> [IMP |-> \h08], PLA |-> [IMP |-> \h68],
    PLP |-> [IMP |-> \h28],
    ASL |-> [ACC |-> \h0A, ABS |-> \h0E, ABS_X |-> \h1E, ZP |-> \h06, ZP_X |-> \h16],
    LSR |-> [ACC |-> \h4A, ABS |-> \h4E, ABS_X |-> \h5E, ZP |-> \h46, ZP_X |-> \h56],
    ROL |-> [ACC |-> \h2A, ABS |-> \h2E, ABS_X |-> \h3E, ZP |-> \h26, ZP_X |-> \h36],
    ROR |-> [ACC |-> \h6A, ABS |-> \h6E, ABS_X |-> \h7E, ZP |-> \h66, ZP_X |-> \h76],
    AND |-> [IMM |-> \h29, ABS |-> \h2D, ABS_X |-> \h3D, ABS_Y |-> \h39, ZP |-> \h25,
            ZP_X |-> \h35, IND_X |-> \h21, IND_Y |-> \h31],
    BIT |-> [ABS |-> \h2C, ZP |-> \h24],
    EOR |-> [IMM |-> \h49, ABS |-> \h4D, ABS_X |-> \h5D, ABS_Y |-> \h59, ZP |-> \h45,
            ZP_X |-> \h55, IND_X |-> \h41, IND_Y |-> \h51],
    ORA |-> [IMM |-> \h09, ABS |-> \h0D, ABS_X |-> \h1D, ABS_Y |-> \h19, ZP |-> \h05,
            ZP_X |-> \h15, IND_X |-> \h01, IND_Y |-> \h11],
    ADC |-> [IMM |-> \h69, ABS |-> \h6D, ABS_X |-> \h7D, ABS_Y |-> \h79, ZP |-> \h65,
            ZP_X |-> \h75, IND_X |-> \h61, IND_Y |-> \h71],
    CMP |-> [IMM |-> \hC9, ABS |-> \hCD, ABS_X |-> \hDD, ABS_Y |-> \hD9, ZP |-> \hC5,
            ZP_X |-> \hD5, IND_X |-> \hC1, IND_Y |-> \hD1],
    CPX |-> [IMM |-> \hE0, ABS |-> \hEC, ZP |-> \hE4],
    CPY |-> [IMM |-> \hC0, ABS |-> \hCC, ZP |-> \hC4],
    SBC |-> [IMM |-> \hE9, ABS |-> \hED, ABS_X |-> \hFD, ABS_Y |-> \hF9, ZP |-> \hE5,
            ZP_X |-> \hF5, IND_X |-> \hE1, IND_Y |-> \hF1],
    DEC |-> [ABS |-> \hCE, ABS_X |-> \hDE, ZP |-> \hC6, ZP_X |-> \hD6],
    DEX |-> [IMP |-> \hCA], DEY |-> [IMP |-> \h88],
    INC |-> [ABS |-> \hEE, ABS_X |-> \hFE, ZP |-> \hE6, ZP_X |-> \hF6],
    INX |-> [IMP |-> \hE8], INY |-> [IMP |-> \hC8],
    JMP |-> [ABS |-> \h4C, IND |-> \h6C],
    JSR |-> [ABS |-> \h20], RTI |-> [IMP |-> \h40], RTS |-> [IMP |-> \h60],
    BCC |-> [REL |-> \h90], BCS |-> [REL |-> \hB0], BEQ |-> [REL |-> \hF0],
    BMI |-> [REL |-> \h30], BNE |-> [REL |-> \hD0], BPL |-> [REL |-> \h10],
    BVC |-> [REL |-> \h50], BVS |-> [REL |-> \h70], CLC |-> [IMP |-> \h18],
    CLD |-> [IMP |-> \hD8], CLI |-> [IMP |-> \h58], CLV |-> [IMP |-> \hB8],
    SEC |-> [IMP |-> \h38], SED |-> [IMP |-> \hF8], SEI |-> [IMP |-> \h78]]

valid_opcode ==
    {\h00, \hEA, \hA9, \hAD, \hBD, \hB9, \hA5, \hB5, \hA1, \hB1, \hA2, \hAE, \hBE, \hA6,
     \hB6, \hA0, \hAC, \hBC, \hA4, \hB4, \h8D, \h9D, \h99, \h85, \h95, \h81, \h91, \h8E,
     \h86, \h96, \h8C, \h84, \h94, \hAA, \hA8, \hBA, \h8A, \h98, \h9A, \h48, \h08, \h68,
     \h28, \h0A, \h0E, \h1E, \h06, \h16, \h4A, \h4E, \h5E, \h46, \h56, \h2A, \h2E, \h3E,
     \h26, \h36, \h6A, \h6E, \h7E, \h66, \h76, \h29, \h2D, \h3D, \h39, \h25, \h35, \h21,
     \h31, \h2C, \h24, \h49, \h4D, \h5D, \h59, \h45, \h55, \h41, \h51, \h09, \h0D, \h1D,
     \h19, \h05, \h15, \h01, \h11, \h69, \h6D, \h7D, \h79, \h65, \h75, \h61, \h71, \hC9,
     \hCD, \hDD, \hD9, \hC5, \hD5, \hC1, \hD1, \hE0, \hEC, \hE4, \hC0, \hCC, \hC4, \hE9,
     \hED, \hFD, \hF9, \hE5, \hF5, \hE1, \hF1, \hCE, \hDE, \hC6, \hD6, \hCA, \h88, \hEE,
     \hFE, \hE6, \hF6, \hE8, \hC8, \h4C, \h6C, \h20, \h40, \h60, \h90, \hB0, \hF0, \h30,
     \hD0, \h10, \h50, \h70, \h18, \hD8, \h58, \hB8, \h38, \hF8, \h78}

ONE_BYTE == {\h00, \hEA, \hAA, \hA8, \hBA, \h8A, \h98, \h9A, \h48, \h08, \h68, \h28, \h0A,
             \h4A, \h2A, \h6A, \hCA, \h88, \hE8, \hC8, \h40, \h60, \h18, \hD8, \h58, \hB8,
             \h38, \hF8, \h78}
TWO_BYTES == {\hA9, \hA5, \hB5, \hA1, \hB1, \hA2, \hA6, \hB6, \hA0, \hA4, \hB4, \h85, \h95,
             \h81, \h91, \h86, \h96, \h84, \h94, \h06, \h16, \h46, \h56, \h26, \h36, \h66,
             \h76, \h29, \h25, \h35, \h21, \h31, \h24, \h49, \h45, \h55, \h41, \h51, \h09,
             \h05, \h15, \h01, \h11, \h69, \h65, \h75, \h61, \h71, \hC9, \hC5, \hD5, \hC1,
             \hD1, \hE0, \hE4, \hC0, \hC4, \hE9, \hE5, \hF5, \hE1, \hF1, \hC6, \hD6, \hE6,
             \hF6, \h90, \hB0, \hF0, \h30, \hD0, \h10, \h50, \h70}
THREE_BYTES == {\hAD, \hBD, \hB9, \hAE, \hBE, \hAC, \hBC, \h8D, \h9D, \h99, \h8E, \h8C, \h0E,
             \h1E, \h4E, \h5E, \h2E, \h3E, \h6E, \h7E, \h2D, \h3D, \h39, \h2C, \h4D, \h5D,
             \h59, \h0D, \h1D, \h19, \h6D, \h7D, \h79, \hCD, \hDD, \hD9, \hEC, \hCC, \hED,
             \hFD, \hF9, \hCE, \hDE, \hEE, \hFE, \h4C, \h6C, \h20}

(* An opcode that is listed under no length has length 0.                  *)
instruction_length == [b \in Byte |->
    CASE b \in ONE_BYTE -> 1 [] b \in TWO_BYTES -> 2 [] b \in THREE_BYTES -> 3 [] OTHER -> 0]

(* instruction_type_by_opcode, reduced to the kinds of instruction that    *)
(* end a block.                                                            *)
KIND == [
    BRANCH_IF_CARRY_CLEAR |-> {\h90}, BRANCH_IF_CARRY_SET |-> {\hB0},
    BRANCH_IF_EQUAL |-> {\hF0}, BRANCH_IF_NOT_EQUAL |-> {\hD0},
    BRANCH_IF_MINUS |-> {\h30}, BRANCH_IF_POSITIVE |-> {\h10},
    BRANCH_IF_OVERFLOW_CLEAR |-> {\h50}, BRANCH_IF_OVERFLOW_SET |-> {\h70},
    JUMP |-> {\h4C, \h6C}, JUMP_TO_SUBROUTINE |-> {\h20},
    RETURN_FROM_INTERRUPT |-> {\h40}, RETURN_FROM_SUBROUTINE |-> {\h60},
    FORCE_BREAK |-> {\h00}]

(* The first form, a fault, has no line for BRK.                           *)
is_block_terminator_but_break(opcode) ==
    \E kind \in DOMAIN KIND \ {"FORCE_BREAK"} : opcode \in KIND[kind]
is_block_terminator(opcode) == \E kind \in DOMAIN KIND : opcode \in KIND[kind]

-----------------------------------------------------------------------------
(* The <<operation, mode>> pairs a table has for an opcode.                *)
Lookup(table, opcode) ==
    UNION {{<<op, mode>> : mode \in {m \in DOMAIN table[op] : table[op][m] = opcode}} :
               op \in DOMAIN table}
TheOne(entries) == CHOOSE e \in entries : TRUE

\* A fault: LDX zero page indexed, by the wrong register.
dispatch_wrong_mode == [b \in Byte |->
    Lookup([DECODE_TABLE EXCEPT !.LDX = [IMM |-> \hA2, ZP_X |-> \hB6]], b)]
dispatch == [b \in Byte |-> Lookup(DECODE_TABLE, b)]
functions == [b \in Byte |-> Lookup(opcode_table, b)]

(* The operand bytes the linear engine's addressing functions fetch.       *)
(* The first form, a fault, fetches the high byte twice.                   *)
FetchedBytesTwice(mode) ==
    CASE mode \in {"IMP", "ACC"} -> 0
      [] mode \in {"ABS", "ABS_X", "ABS_Y", "IND"} -> 3
      [] OTHER -> 1
FetchedBytes(mode) ==
    CASE mode \in {"IMP", "ACC"} -> 0
      [] mode \in {"ABS", "ABS_X", "ABS_Y", "IND"} -> 2
      [] OTHER -> 1

(* The modes the switch in a handler has a case for; all others end the    *)
(* run.  A handler without a switch looks at no mode.                      *)
ReadModes == {"IMM", "ZP", "ZP_X", "ABS", "ABS_X", "ABS_Y", "IND_X", "IND_Y"}
Modes == ReadModes \cup {"IMP", "ACC", "REL", "IND", "ZP_Y"}
ShiftModes == {"ACC", "ZP", "ZP_X", "ABS", "ABS_X"}
HandledModes(op) ==
    CASE op \in {"LDA", "LDX", "LDY"} -> ReadModes \cup {"ZP_Y"}
      [] op \in {"STA", "STX", "STY"} -> (ReadModes \cup {"ZP_Y"}) \ {"IMM"}
      [] op \in {"ADC", "SBC", "AND", "ORA", "EOR", "CMP"} -> ReadModes
      [] op \in {"ASL", "LSR", "ROL", "ROR"} -> ShiftModes
      [] op \in {"INC", "DEC"} -> ShiftModes \ {"ACC"}
      [] op \in {"CPX", "CPY"} -> {"IMM", "ZP", "ABS"}
      [] op = "BIT" -> {"ZP", "ABS"}
      [] op = "JMP" -> {"ABS", "IND"}
      [] OTHER -> Modes

(* The handlers that do not just fall through to the next instruction.     *)
Diverts == {"BCC", "BCS", "BEQ", "BMI", "BNE", "BPL", "BVC", "BVS",
            "JMP", "JSR", "RTS", "RTI", "BRK"}

-----------------------------------------------------------------------------
VARIABLES
    engine,       \* emulation_mode
    opcode,       \* memory[program_counter]
    room,         \* bytes from program_counter to the end of memory
    phase,        \* where control is
    instruction   \* the instruction that is executed

vars == <<engine, opcode, room, phase, instruction>>

Engines == {"FETCH_DECODE_EXECUTE", "DIRECT_THREADED", "BLOCK"}

(* "handler": an instruction has been precoded and its handler is entered; *)
(* "ran": it has been executed; "refused": precode_instruction failed;     *)
(* "null": a function was called that is not there; "exited": a handler    *)
(* met a mode it has no case for.                                          *)
Phases == {"fetch", "handler", "ran", "refused", "null", "exited"}

Instruction(op, mode, len) == [op |-> op, mode |-> mode, len |-> len]
None == Instruction("none", "IMP", 0)

Operations == DOMAIN DECODE_TABLE \cup DOMAIN opcode_table

(* The types of the state: every length is one precode_instruction reads.  *)
TypeOK ==
    /\ engine \in Engines
    /\ opcode \in Byte
    /\ room \in ROOM
    /\ phase \in Phases
    /\ instruction \in [op : Operations, mode : Modes, len : 1 .. 3] \cup {None}

Init ==
    /\ engine \in Engines
    /\ opcode \in Byte
    /\ room \in ROOM
    /\ phase = "fetch"
    /\ instruction = None

(* The instruction the linear engine makes of an opcode it has a function  *)
(* for.                                                                    *)
Decoded(b) ==
    LET entry == TheOne(functions[b])
    IN  Instruction(entry[1], entry[2], 1 + FetchedBytes(entry[2]))

(* cpu_step_linear, which the block engine calls for the instructions that *)
(* end a block.                                                            *)
Linear ==
    \/ engine = "FETCH_DECODE_EXECUTE"
    \/ engine = "BLOCK" /\ is_block_terminator(opcode)
Step ==
    /\ phase = "fetch"
    /\ Linear
    /\ IF functions[opcode] = {}
       THEN phase' = "null" /\ UNCHANGED instruction
       ELSE phase' = "ran" /\ instruction' = Decoded(opcode)
    /\ UNCHANGED <<engine, opcode, room>>

(* precode_instruction, on valid_opcode, instruction_length and the decode *)
(* table.                                                                  *)
RefusedEarly(b) == b \notin valid_opcode \/ room <= instruction_length[b]  \* a fault
Refused(b) == b \notin valid_opcode \/ room < instruction_length[b]
Precode ==
    /\ phase = "fetch"
    /\ ~Linear
    /\ IF Refused(opcode) THEN phase' = "refused" /\ UNCHANGED instruction
       ELSE IF dispatch[opcode] = {} THEN phase' = "null" /\ UNCHANGED instruction
       ELSE LET entry == TheOne(dispatch[opcode])
            IN  /\ phase' = "handler"
                /\ instruction' = Instruction(entry[1], entry[2], instruction_length[opcode])
    /\ UNCHANGED <<engine, opcode, room>>

(* The handler: its switch over the mode.                                  *)
Handle ==
    /\ phase = "handler"
    /\ phase' = IF instruction.mode \in HandledModes(instruction.op) THEN "ran" ELSE "exited"
    /\ UNCHANGED <<engine, opcode, room, instruction>>

Done == phase \in {"ran", "refused", "null", "exited"} /\ UNCHANGED vars

Next == Step \/ Precode \/ Handle \/ Done

Spec == Init /\ [][Next]_vars

-----------------------------------------------------------------------------
(* An opcode is the same instruction to all three engines: the same        *)
(* operation on the same addressing mode, over the same number of bytes.   *)
EnginesAgree ==
    phase = "ran" => functions[opcode] # {} /\ instruction = Decoded(opcode)

(* No table is short of an entry: an opcode the linear engine can execute  *)
(* is executed by every engine, unless it runs past the end of memory, and *)
(* the others are refused by the engines that translate.                   *)
NoneMissing ==
    phase \in {"refused", "null", "exited"} =>
        \/ functions[opcode] = {} /\ (~Linear => phase = "refused")
        \/ ~Linear /\ room < Decoded(opcode).len /\ phase = "refused"

(* A block is straight: the block engine executes an instruction through   *)
(* its handler if and only if it falls through to the next one.  The       *)
(* others are left to the linear engine: in a block their handlers would   *)
(* go on into the next entry, or back to the dispatcher without having set *)
(* the program counter.                                                    *)
BlocksAreStraight ==
    engine = "BLOCK" /\ phase \in {"handler", "ran"} =>
        (instruction.op \in Diverts <=> is_block_terminator(opcode))
=============================================================================
