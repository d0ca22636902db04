-------------------------------- MODULE Block --------------------------------
(***************************************************************************)
(* The BLOCK engine: a block is the run of instructions from an address to *)
(* the next branch or jump, precoded into an arena.  The dispatcher runs   *)
(* branches and jumps through the linear engine and everything else as     *)
(* blocks, which go from one arena entry to the next.                      *)
(***************************************************************************)
EXTENDS Guest

CONSTANT RESERVE  \* precode_block flushes when no more entries are left (32)

ASSUME ReserveAssumption == RESERVE \in 1 .. CODE_CACHE_CAPACITY - 1

VARIABLES
    memory, pc,    \* chip
    ins, todo,     \* the instruction being executed and the bytes it has left
                   \* to write
    phase,         \* where control is
    spc,           \* the source address in precode_block
    ip,            \* the arena entry `instruction` points to
    spcToTpc,      \* directory.spc_to_tpc
    owner,         \* directory.instruction_owner
    blocks,        \* code_cache
    cacheLength,   \* (uint16_t)cache_length
    arena,         \* instruction_arena
    arenaHead,     \* arena_head
    source,        \* history: the address an arena entry was made for
    wrapped        \* history: arena_head has wrapped since the last flush

guest == <<memory, pc, ins, todo>>
arenaVars == <<arena, arenaHead, source, wrapped>>
cacheVars == <<spcToTpc, owner, blocks, cacheLength>>
vars == <<guest, phase, spc, ip, cacheVars, arenaVars>>

Phases == {"dispatch", "terminator", "precode", "exec", "busy",
           "halted", "crashed"}

(* The entry appended to a block: its handler is the DISPATCHER label.     *)
Dispatcher == [op |-> "dispatcher", len |-> 0, operand |-> << >>]

Entries == Instr \cup {NoInstr, Dispatcher}

(* A translation_block_t.  length is a size_t that is only compared with   *)
(* zero: it is counted up to the capacity.                                 *)
TranslationBlock ==
    [first : Slot, length : 0 .. CODE_CACHE_CAPACITY, valid : BOOLEAN]

(* The types of the state.  Only the instruction pointer may be one past   *)
(* the end of its array.                                                   *)
TypeOK ==
    /\ memory \in [Address -> Byte]
    /\ pc \in Address
    /\ ins \in Instr \cup {NoInstr}
    /\ todo \in 0 .. 3
    /\ phase \in Phases
    /\ spc \in Address
    /\ ip \in 0 .. CODE_CACHE_CAPACITY
    /\ spcToTpc \in [Address -> Slot]
    /\ owner \in [Address -> Address]
    /\ blocks \in [Slot -> TranslationBlock]
    /\ cacheLength \in Slot
    /\ arena \in [Slot -> Entries]
    /\ arenaHead \in Slot
    /\ source \in [Slot -> Address]
    /\ wrapped \in BOOLEAN

Init ==
    /\ memory \in Images
    /\ pc = Entry
    /\ ins = NoInstr
    /\ todo = 0
    /\ phase = "dispatch"
    /\ spc = 0
    /\ ip = 0
    /\ spcToTpc = [a \in Address |-> NO_TPC]
    /\ owner = [a \in Address |-> NO_OWNER]
    /\ blocks = [t \in Slot |-> [first |-> 0, length |-> 0, valid |-> FALSE]]
    /\ cacheLength = 0
    /\ arena = [t \in Slot |-> NoInstr]
    /\ arenaHead = 0
    /\ source = [t \in Slot |-> 0]
    /\ wrapped = FALSE

Mapped(a) == spcToTpc[a] # NO_TPC

(* is_block_terminator *)
Terminator(a) == memory[a] \in Valid /\ Flow[memory[a]] # "next"

-----------------------------------------------------------------------------
(* DISPATCHER: branches and jumps are executed by cpu_step_linear.         *)
FetchTerminator ==
    /\ phase = "dispatch"
    /\ Terminator(pc)
    /\ ins' = Fetched(memory, pc)
    /\ todo' = Writes[memory[pc]]
    /\ phase' = "terminator"
    /\ UNCHANGED <<memory, pc, spc, ip, cacheVars, arenaVars>>

(* JSR and BRK push in the linear engine, which knows of no translations.  *)
Push ==
    /\ phase = "terminator"
    /\ todo > 0
    /\ \E s \in Stores[ins.op] : memory' = [memory EXCEPT ![s[1]] = s[2]]
    /\ todo' = todo - 1
    /\ UNCHANGED <<pc, ins, phase, spc, ip, cacheVars, arenaVars>>

(* At the last address but one the linear engine's test for a JMP to       *)
(* itself reads past the end of memory.                                    *)
JumpsToItself(target) ==
    IF pc = MEMORY_SIZE - 2 THEN BOOLEAN ELSE {target = pc}

RetireTerminator ==
    /\ phase = "terminator"
    /\ todo = 0
    /\ \E target \in NextPcs(Flow[ins.op], pc, ins.len) :
           \E stop \in IF Flow[ins.op] = "jmp" THEN JumpsToItself(target) ELSE {FALSE} :
               /\ pc' = IF stop THEN Advance(pc, 1) ELSE target
               /\ phase' = IF stop THEN "halted" ELSE "dispatch"
    /\ ins' = NoInstr
    /\ UNCHANGED <<memory, todo, spc, ip, cacheVars, arenaVars>>

(* A translated block is entered if it is valid; if not the dispatcher     *)
(* starts again.                                                           *)
EnterBlock ==
    /\ phase = "dispatch"
    /\ ~Terminator(pc)
    /\ Mapped(pc)
    /\ LET block == blocks[spcToTpc[pc]]
       IN  IF block.valid THEN ip' = block.first /\ phase' = "exec"
                          ELSE UNCHANGED <<ip, phase>>
    /\ UNCHANGED <<guest, spc, cacheVars, arenaVars>>

-----------------------------------------------------------------------------
(* The arena is so full that precode_block flushes.  The first form, a     *)
(* fault, lets it fill by one entry more.                                  *)
NearlyFullLate == arenaHead > CODE_CACHE_CAPACITY - RESERVE
NearlyFull == arenaHead >= CODE_CACHE_CAPACITY - RESERVE

(* precode_block: flush if the arena is nearly full, start a block.        *)
BeginBlock ==
    /\ phase = "dispatch"
    /\ ~Terminator(pc)
    /\ ~Mapped(pc)
    /\ LET slot == IF NearlyFull THEN 0 ELSE cacheLength
           head == IF NearlyFull THEN 0 ELSE arenaHead
       IN  /\ spcToTpc' = IF NearlyFull THEN [a \in Address |-> NO_TPC] ELSE spcToTpc
           /\ owner' = IF NearlyFull THEN [a \in Address |-> NO_OWNER] ELSE owner
           /\ cacheLength' = slot
           /\ arenaHead' = head
           /\ wrapped' = (wrapped /\ ~NearlyFull)
           /\ blocks' = [blocks EXCEPT ![slot].first = head, ![slot].length = 0]
    /\ spc' = pc
    /\ phase' = "precode"
    /\ UNCHANGED <<guest, ip, arena, source>>

(* instruction_arena[arena_head++], a uint16_t                             *)
AppendEntry(entry) ==
    /\ arena' = [arena EXCEPT ![arenaHead] = entry]
    /\ arenaHead' = (arenaHead + 1) % CODE_CACHE_CAPACITY
    /\ source' = [source EXCEPT ![arenaHead] = spc]
    /\ wrapped' = (wrapped \/ arenaHead + 1 = CODE_CACHE_CAPACITY)

BlockLength == blocks[cacheLength].length

(* One more instruction, all of whose bytes now belong to the block.       *)
PrecodeInstruction ==
    /\ phase = "precode"
    /\ ~Terminator(spc)
    /\ CanPrecode(memory, spc)
    /\ LET len == Length[memory[spc]]
       IN  /\ AppendEntry(Precoded(memory, spc))
           /\ owner' = [a \in Address |-> IF a \in Span(spc, len) THEN pc ELSE owner[a]]
           /\ spc' = Advance(spc, len)
    /\ blocks' = [blocks EXCEPT ![cacheLength].length =
                      IF @ < CODE_CACHE_CAPACITY THEN @ + 1 ELSE @]
    /\ UNCHANGED <<guest, phase, ip, spcToTpc, cacheLength>>

(* done: a block that is not empty is registered and entered, an empty one *)
(* sends the dispatcher round again.  The first form, a fault, does not    *)
(* count the block.                                                        *)
FinishBlockUncounted ==
    /\ IF BlockLength > 0
       THEN /\ blocks' = [blocks EXCEPT ![cacheLength].valid = TRUE]
            /\ spcToTpc' = [spcToTpc EXCEPT ![pc] = cacheLength]
            /\ ip' = blocks[cacheLength].first
            /\ phase' = "exec"
       ELSE /\ phase' = "dispatch"
            /\ UNCHANGED <<ip, blocks, spcToTpc>>
    /\ spc' = 0
    /\ UNCHANGED <<guest, owner, cacheLength>>
FinishBlock ==
    /\ IF BlockLength > 0
       THEN /\ blocks' = [blocks EXCEPT ![cacheLength].valid = TRUE]
            /\ spcToTpc' = [spcToTpc EXCEPT ![pc] = cacheLength]
            /\ cacheLength' = (cacheLength + 1) % CODE_CACHE_CAPACITY
            /\ ip' = blocks[cacheLength].first
            /\ phase' = "exec"
       ELSE /\ phase' = "dispatch"
            /\ UNCHANGED <<ip, blocks, spcToTpc, cacheLength>>
    /\ spc' = 0
    /\ UNCHANGED <<guest, owner>>

(* The block ends before a branch or jump, with an entry that goes back to *)
(* the dispatcher ...                                                      *)
EndAtTerminator ==
    /\ phase = "precode"
    /\ Terminator(spc)
    /\ IF BlockLength > 0 THEN AppendEntry(Dispatcher) ELSE UNCHANGED arenaVars
    /\ FinishBlock

(* ... or before what cannot be precoded, and then without that entry.     *)
EndAtFailure ==
    /\ phase = "precode"
    /\ ~Terminator(spc)
    /\ ~CanPrecode(memory, spc)
    /\ UNCHANGED arenaVars
    /\ FinishBlock

-----------------------------------------------------------------------------
AtInstruction == ip \in Slot /\ arena[ip] \in Instr

Execute ==
    /\ phase = "exec"
    /\ AtInstruction
    /\ ins' = arena[ip]
    /\ todo' = Writes[arena[ip].op]
    /\ phase' = "busy"
    /\ UNCHANGED <<memory, pc, spc, ip, cacheVars, arenaVars>>

(* The entry at the end of a block.                                        *)
Return ==
    /\ phase = "exec"
    /\ ip \in Slot
    /\ arena[ip] = Dispatcher
    /\ phase' = "dispatch"
    /\ ip' = 0
    /\ UNCHANGED <<guest, spc, cacheVars, arenaVars>>

(* An entry that was never filled has a null handler, and past the last    *)
(* entry there is no arena.                                                *)
Crash ==
    /\ phase = "exec"
    /\ ip = CODE_CACHE_CAPACITY \/ (ip \in Slot /\ arena[ip] = NoInstr)
    /\ phase' = "crashed"
    /\ UNCHANGED <<guest, spc, ip, cacheVars, arenaVars>>

(* A write in a block, and block_code_write: the block that owns the byte  *)
(* is dropped.  The first two forms are faults: one leaves block_code_write*)
(* out, the other leaves the dropped block in the directory.               *)
StoreUnseen ==
    /\ phase = "busy"
    /\ todo > 0
    /\ \E s \in Stores[ins.op] : memory' = [memory EXCEPT ![s[1]] = s[2]]
    /\ todo' = todo - 1
    /\ UNCHANGED <<pc, ins, phase, spc, ip, cacheVars, arenaVars>>
StoreStillMapped ==
    /\ phase = "busy"
    /\ todo > 0
    /\ \E s \in Stores[ins.op] :
           LET start == owner[s[1]]
           IN  /\ memory' = [memory EXCEPT ![s[1]] = s[2]]
               /\ IF start # NO_OWNER /\ Mapped(start)
                  THEN /\ blocks' = [blocks EXCEPT ![spcToTpc[start]].valid = FALSE]
                       /\ owner' = InvalidateOwnership(owner, start)
                  ELSE UNCHANGED <<blocks, owner>>
    /\ todo' = todo - 1
    /\ UNCHANGED <<pc, ins, phase, spc, ip, spcToTpc, cacheLength, arenaVars>>
Store ==
    /\ phase = "busy"
    /\ todo > 0
    /\ \E s \in Stores[ins.op] :
           LET start == owner[s[1]]
           IN  /\ memory' = [memory EXCEPT ![s[1]] = s[2]]
               /\ IF start # NO_OWNER /\ Mapped(start)
                  THEN /\ blocks' = [blocks EXCEPT ![spcToTpc[start]].valid = FALSE]
                       /\ spcToTpc' = [spcToTpc EXCEPT ![start] = NO_TPC]
                       /\ owner' = InvalidateOwnership(owner, start)
                  ELSE UNCHANGED <<blocks, spcToTpc, owner>>
    /\ todo' = todo - 1
    /\ UNCHANGED <<pc, ins, phase, spc, ip, cacheLength, arenaVars>>

(* BLOCK_NEXT goes on to the next entry, whatever became of the block.     *)
Retire ==
    /\ phase = "busy"
    /\ todo = 0
    /\ pc' = Advance(pc, ins.len)
    /\ ip' = ip + 1
    /\ phase' = "exec"
    /\ ins' = NoInstr
    /\ UNCHANGED <<memory, todo, spc, cacheVars, arenaVars>>

-----------------------------------------------------------------------------
Done == phase \in {"halted", "crashed"} /\ UNCHANGED vars

Next ==
    \/ FetchTerminator \/ Push \/ RetireTerminator
    \/ EnterBlock \/ BeginBlock
    \/ PrecodeInstruction \/ EndAtTerminator \/ EndAtFailure
    \/ Execute \/ Return \/ Crash \/ Store \/ Retire
    \/ Done

Spec == Init /\ [][Next]_vars

(* The engine is one thread of native code: it always takes its next step. *)
FairSpec == Spec /\ WF_vars(Next)

-----------------------------------------------------------------------------
(* Properties.  The first three speak of an arena that has not wrapped     *)
(* since the last flush.                                                   *)

Extent(slot) ==
    blocks[slot].first .. blocks[slot].first + blocks[slot].length - 1

(* No two translated addresses share a code cache slot or an arena entry,  *)
(* and neither the slot nor the entries used next belong to one of them:   *)
(* translating a block leaves every other translation alone.               *)
BlocksDistinct ==
    ~wrapped =>
        \A a \in Address : Mapped(a) =>
            /\ spcToTpc[a] < cacheLength
            /\ \A i \in Extent(spcToTpc[a]) : i < arenaHead
            /\ \A b \in Address : Mapped(b) /\ a # b =>
                   /\ spcToTpc[a] # spcToTpc[b]
                   /\ Extent(spcToTpc[a]) \cap Extent(spcToTpc[b]) = {}

(* A translated address has a valid block, one that starts at it and goes  *)
(* from instruction to instruction: the dispatcher never spins on a block  *)
(* it may not enter.                                                       *)
MappedIsRunnable ==
    ~wrapped =>
        \A a \in Address : Mapped(a) =>
            LET block == blocks[spcToTpc[a]]
            IN  /\ block.valid /\ block.length > 0
                /\ source[block.first] = a
                /\ \A i \in Extent(spcToTpc[a]) :
                       i + 1 \in Extent(spcToTpc[a]) =>
                           source[i + 1] = Advance(source[i], arena[i].len)

(* The bytes a branch or jump may push to, behind block_code_write's back. *)
Pushable ==
    UNION {{s[1] : s \in Stores[b]} : b \in {v \in Valid : Flow[v] # "next"}}

(* An instruction of a translated block is the one memory holds, as long   *)
(* as the block owns all of its bytes and none can be pushed to.  The last *)
(* address is left out: its number says that nobody owns a byte.           *)
OwnedIsCurrent ==
    ~wrapped =>
        \A a \in Address \ {NO_OWNER} : Mapped(a) =>
            \A i \in Extent(spcToTpc[a]) :
                (\A b \in Span(source[i], arena[i].len) :
                     b \in Address /\ owner[b] = a /\ b \notin Pushable) =>
                    /\ CanPrecode(memory, source[i])
                    /\ arena[i] = Precoded(memory, source[i])

(* What a flush keeps free is enough for every block of fewer than RESERVE *)
(* instructions and the entry that ends it.  arena_head only wraps while a *)
(* block of at least RESERVE instructions is translated: with one of its   *)
(* instructions if it has more, with the entry that goes back to the       *)
(* dispatcher if it has exactly as many or more.  Such a block itself fits *)
(* in the latter case, but arena_head is 0 afterwards, so that the next    *)
(* block, of any length, is translated without a flush over those at the   *)
(* start of the arena, which are still in the directory.                   *)
ReserveSuffices ==
    [][~wrapped /\ wrapped' =>
           \/ PrecodeInstruction /\ BlockLength' > RESERVE
           \/ EndAtTerminator /\ BlockLength >= RESERVE]_vars

(* The two ways of the engine to work without end and execute nothing: the *)
(* dispatcher is at an address it cannot translate, or precode_block goes  *)
(* round and round a memory that holds no end of a block.                  *)
NothingToRun == ~Terminator(pc) /\ ~CanPrecode(memory, pc)
NoBlockEnds == \A a \in Address : CanPrecode(memory, a) /\ ~Terminator(a)

(* In every other case translation never takes over: again and again a     *)
(* block or a branch is executed, or the run is over.  In particular the   *)
(* dispatcher never spins on a block that a write has dropped.             *)
StallsOnlyWithoutCode ==
    \/ []<>(phase \in {"exec", "terminator", "halted", "crashed"})
    \/ <>[](NothingToRun \/ NoBlockEnds)

(* Control runs through the entries of the block it entered, which are     *)
(* those made for the addresses pc goes through, up to the one that goes   *)
(* back to the dispatcher: no instruction of another address is executed.  *)
StaysInBlock ==
    phase = "exec" /\ AtInstruction => source[ip] = pc

(* The arena never wraps: every block fits in what a flush keeps free.     *)
ArenaFits == ~wrapped

-----------------------------------------------------------------------------
(* The engine implements the interpreter.  A dispatcher entry is not an    *)
(* instruction: there, and wherever the dispatcher works, the interpreter  *)
(* is about to fetch.                                                      *)
Linear == INSTANCE Interpreter WITH
    status <- CASE phase = "halted" -> "halted"
                [] phase = "crashed" -> "crashed"
                [] phase \in {"busy", "terminator"} -> "busy"
                [] OTHER -> "fetch"

(* Every run of the engine is a run of the interpreter: the same           *)
(* instructions, the same writes and the same program counters.            *)
ImplementsLinear == Linear!Spec
=============================================================================
