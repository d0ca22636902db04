------------------------------ MODULE Threaded ------------------------------
(***************************************************************************)
(* The DIRECT_THREADED engine: precode_batch fills the code cache from the *)
(* program counter on, handlers jump from one cached instruction to the    *)
(* next, and a write to a byte that belongs to a cached instruction makes  *)
(* threaded_code_write translate it again, and those after it, in place.   *)
(***************************************************************************)
EXTENDS Guest

VARIABLES
    memory, pc,    \* chip
    ins, todo,     \* the instruction being executed, as it was when its
                   \* handler was entered, and the bytes it has left to write
    phase,         \* where control is
    spc,           \* the source address in precode_batch or threaded_code_write
    grown,         \* precode_batch has made cache_length grow
    ip,            \* the slot `instruction` points to
    spcToTpc,      \* directory.spc_to_tpc
    owner,         \* directory.instruction_owner
    cache,         \* code_cache
    cacheLength    \* cache_length

guest == <<memory, pc, ins, todo>>
directory == <<spcToTpc, owner, cache, cacheLength>>
vars == <<guest, directory, phase, spc, grown, ip>>

Phases == {"boot", "booted", "batch", "batched", "exec", "busy", "reprecode",
           "halted", "exited"}

(* cache_length is a size_t and never wraps, but past the capacity only    *)
(* its value modulo the capacity, the slot it stands for, is used: counts  *)
(* above twice the capacity are folded onto those below.                   *)
Bump(n) == IF n < 2 * CODE_CACHE_CAPACITY THEN n + 1 ELSE CODE_CACHE_CAPACITY + 1
FreeSlot == cacheLength % CODE_CACHE_CAPACITY

Mapped(a) == spcToTpc[a] # NO_TPC

(* The types of the state: in particular no index leaves its array.        *)
TypeOK ==
    /\ memory \in [Address -> Byte]
    /\ pc \in Address
    /\ ins \in Instr \cup {NoInstr}
    /\ todo \in 0 .. 3
    /\ phase \in Phases
    /\ spc \in Address
    /\ grown \in BOOLEAN
    /\ ip \in Slot
    /\ spcToTpc \in [Address -> Slot]
    /\ owner \in [Address -> Address]
    /\ cache \in [Slot -> Instr \cup {NoInstr}]
    /\ cacheLength \in 0 .. 2 * CODE_CACHE_CAPACITY

Init ==
    /\ memory \in Images
    /\ pc = Entry
    /\ ins = NoInstr
    /\ todo = 0
    /\ phase = "boot"
    /\ spc = Entry
    /\ grown = FALSE
    /\ ip = 0
    /\ spcToTpc = [a \in Address |-> NO_TPC]
    /\ owner = [a \in Address |-> NO_OWNER]
    /\ cache = [t \in Slot |-> NoInstr]
    /\ cacheLength = 0

-----------------------------------------------------------------------------
(* cache_instruction *)
CacheInstruction(s, tpc) ==
    /\ cache' = [cache EXCEPT ![tpc] = Precoded(memory, s)]
    /\ owner' = ClaimOwnership(owner, s, Length[memory[s]])
    /\ spcToTpc' = [spcToTpc EXCEPT ![s] = tpc]

(* precode_batch's test of cache_length, after counting: it stops the loop *)
(* at the capacity, not beyond it.  The first form, a fault, never does.   *)
BatchFullUnseen == FALSE
BatchFull == cacheLength' = CODE_CACHE_CAPACITY

(* One turn of the loop that translates an instruction.                    *)
BatchStep ==
    /\ phase \in {"boot", "batch"}
    /\ CanPrecode(memory, spc)
    /\ CacheInstruction(spc, FreeSlot)
    /\ cacheLength' = Bump(cacheLength)
    /\ spc' = Advance(spc, Length[memory[spc]])
    /\ grown' = TRUE
    /\ phase' = IF ~BatchFull THEN phase
                ELSE IF phase = "boot" THEN "booted" ELSE "batched"
    /\ UNCHANGED <<guest, ip>>

(* The turn that meets an invalid opcode or the end of memory.  The first  *)
(* form, a fault, does not leave the loop.                                 *)
BatchEndLoops ==
    /\ phase \in {"boot", "batch"}
    /\ ~CanPrecode(memory, spc)
    /\ spcToTpc' = [spcToTpc EXCEPT ![spc] = NO_TPC]
    /\ UNCHANGED <<guest, phase, owner, cache, cacheLength, spc, grown, ip>>
BatchEnd ==
    /\ phase \in {"boot", "batch"}
    /\ ~CanPrecode(memory, spc)
    /\ spcToTpc' = [spcToTpc EXCEPT ![spc] = NO_TPC]
    /\ phase' = IF phase = "boot" THEN "booted" ELSE "batched"
    /\ UNCHANGED <<guest, owner, cache, cacheLength, spc, grown, ip>>

(* The handler of the slot pc is mapped to is entered.                     *)
Dispatch ==
    /\ ip' = spcToTpc[pc]
    /\ phase' = "exec"

(* cpu_run after the first batch: no translation of pc, no run.            *)
Start ==
    /\ phase = "booted"
    /\ IF Mapped(pc) THEN Dispatch ELSE phase' = "exited" /\ ip' = ip
    /\ spc' = 0 /\ grown' = FALSE
    /\ UNCHANGED <<guest, directory>>

(* THREADED_NEXT and THREADED_JUMP after a batch: it must have cached      *)
(* something.  The first form, a fault, does not look.                     *)
ResumeAnyway ==
    /\ phase = "batched"
    /\ Dispatch
    /\ spc' = 0 /\ grown' = FALSE
    /\ UNCHANGED <<guest, directory>>
Resume ==
    /\ phase = "batched"
    /\ IF grown THEN Dispatch ELSE phase' = "exited" /\ ip' = ip
    /\ spc' = 0 /\ grown' = FALSE
    /\ UNCHANGED <<guest, directory>>

-----------------------------------------------------------------------------
(* A handler reads its instruction ...                                     *)
Execute ==
    /\ phase = "exec"
    /\ cache[ip] # NoInstr
    /\ ins' = cache[ip]
    /\ todo' = Writes[cache[ip].op]
    /\ phase' = "busy"
    /\ UNCHANGED <<memory, pc, directory, spc, grown, ip>>

(* ... writes to memory, after which HANDLE_SMC_WRITE looks up the owner   *)
(* of the byte ...  The first form, a fault, does without it.              *)
StoreUnseen ==
    /\ phase = "busy"
    /\ todo > 0
    /\ \E s \in Stores[ins.op] : memory' = [memory EXCEPT ![s[1]] = s[2]]
    /\ todo' = todo - 1
    /\ UNCHANGED <<pc, ins, directory, phase, spc, grown, ip>>
Store ==
    /\ phase = "busy"
    /\ todo > 0
    /\ \E s \in Stores[ins.op] :
           /\ memory' = [memory EXCEPT ![s[1]] = s[2]]
           /\ IF owner[s[1]] = NO_OWNER
              THEN UNCHANGED <<phase, spc>>
              ELSE phase' = "reprecode" /\ spc' = owner[s[1]]
    /\ todo' = todo - 1
    /\ UNCHANGED <<pc, ins, directory, grown, ip>>

(* ... and leaves.  The length added to pc is read from the slot now, not  *)
(* when the handler was entered.                                           *)
Retire ==
    /\ phase = "busy"
    /\ todo = 0
    /\ \E target \in NextPcs(Flow[ins.op], pc, cache[ip].len) :
           IF Flow[ins.op] = "jmp" /\ target = pc
           THEN phase' = "halted" /\ UNCHANGED <<pc, ip, spc>>
           ELSE /\ pc' = target
                /\ IF spcToTpc[target] = NO_TPC
                   THEN phase' = "batch" /\ spc' = target /\ ip' = ip
                   ELSE phase' = "exec" /\ spc' = spc /\ ip' = spcToTpc[target]
    /\ ins' = NoInstr
    /\ UNCHANGED <<memory, todo, directory, grown>>

-----------------------------------------------------------------------------
(* threaded_code_write: reprecode_instruction of the owner of the byte,    *)
(* then of the addresses after it until one still owns itself.             *)
ReprecodeSlot == IF Mapped(spc) THEN spcToTpc[spc] ELSE FreeSlot
NoSlotLeft == ~Mapped(spc) /\ cacheLength >= CODE_CACHE_CAPACITY
LengthKept == cacheLength  \* a fault: the slot is not counted
LengthAfterAlloc == IF Mapped(spc) THEN cacheLength ELSE Bump(cacheLength)

(* The loop's condition, on what the turn leaves.  The first form, a       *)
(* fault, takes the test of the directory the wrong way round.             *)
SweepStopsUnmapped(next) == owner'[next] = next /\ spcToTpc'[next] = NO_TPC
SweepStops(next) == owner'[next] = next /\ spcToTpc'[next] # NO_TPC

Reprecode ==
    /\ phase = "reprecode"
    /\ ~NoSlotLeft
    /\ CanPrecode(memory, spc)
    /\ CacheInstruction(spc, ReprecodeSlot)
    /\ cacheLength' = LengthAfterAlloc
    /\ LET next == Advance(spc, Length[memory[spc]])
       IN  IF SweepStops(next)
           THEN phase' = "busy" /\ spc' = 0
           ELSE phase' = "reprecode" /\ spc' = next
    /\ UNCHANGED <<guest, grown, ip>>

(* The slot allocated for an address that cannot be translated is lost.    *)
(* The first form, a fault, leaves the old translation in the directory.   *)
ReprecodeFailsMapped ==
    /\ phase = "reprecode"
    /\ ~NoSlotLeft
    /\ ~CanPrecode(memory, spc)
    /\ cacheLength' = LengthAfterAlloc
    /\ phase' = "busy" /\ spc' = 0
    /\ UNCHANGED <<guest, spcToTpc, owner, cache, grown, ip>>
ReprecodeFails ==
    /\ phase = "reprecode"
    /\ ~NoSlotLeft
    /\ ~CanPrecode(memory, spc)
    /\ spcToTpc' = [spcToTpc EXCEPT ![spc] = NO_TPC]
    /\ cacheLength' = LengthAfterAlloc
    /\ phase' = "busy" /\ spc' = 0
    /\ UNCHANGED <<guest, owner, cache, grown, ip>>

ReprecodeFull ==
    /\ phase = "reprecode"
    /\ NoSlotLeft
    /\ phase' = "busy" /\ spc' = 0
    /\ UNCHANGED <<guest, directory, grown, ip>>

-----------------------------------------------------------------------------
Done == phase \in {"halted", "exited"} /\ UNCHANGED vars

Next ==
    \/ BatchStep \/ BatchEnd \/ Start \/ Resume
    \/ Execute \/ Store \/ Retire
    \/ Reprecode \/ ReprecodeFails \/ ReprecodeFull
    \/ Done

Spec == Init /\ [][Next]_vars

(* The engine is one thread of native code: it always takes its next step. *)
FairSpec == Spec /\ WF_vars(Next)

-----------------------------------------------------------------------------
(* Properties.  The first three speak of a cache that has not overflowed:  *)
(* past its capacity the engine writes over slots that are in use.         *)

WithinCapacity == cacheLength <= CODE_CACHE_CAPACITY

(* No two addresses share a slot, and no slot from cache_length on is in   *)
(* use: translating an instruction again in place, or a new one, changes   *)
(* the translation of no other address.                                    *)
SlotsDistinct ==
    WithinCapacity =>
        \A a \in Address : Mapped(a) =>
            /\ spcToTpc[a] < cacheLength
            /\ \A b \in Address : Mapped(b) /\ spcToTpc[a] = spcToTpc[b] => a = b

Owns(a, len) == \A b \in Span(a, len) : b \in Address /\ owner[b] = a

(* The address whose translation threaded_code_write is about to redo.     *)
Pending(a) == phase = "reprecode" /\ a = spc

(* A cached instruction is the one memory holds, as long as its address    *)
(* owns all of its bytes: this is what translating after a write is for.   *)
(* The last address is left out, because it is the number that says that   *)
(* nobody owns a byte.                                                     *)
OwnedIsCurrent ==
    WithinCapacity =>
        \A a \in Address \ {NO_OWNER} :
            LET cached == cache[spcToTpc[a]]
            IN  Mapped(a) /\ ~Pending(a) /\ Owns(a, cached.len) =>
                    CanPrecode(memory, a) /\ cached = Precoded(memory, a)

(* A handler is never entered through a slot nothing was translated into,  *)
(* even when the cache has overflowed.                                     *)
NeverEmpty == phase \in {"exec", "busy", "reprecode"} => cache[ip] # NoInstr

(* A batch that starts with room in the cache ends, even over memory that  *)
(* holds nothing but valid opcodes and is gone through again and again:    *)
(* cache_length meets the capacity exactly, the only place the == of       *)
(* precode_batch stops at.                                                 *)
InBatch == phase \in {"boot", "batch"}
BatchEnds == InBatch /\ cacheLength < CODE_CACHE_CAPACITY ~> ~InBatch

(* A guest write ends: threaded_code_write's sweep over the instructions   *)
(* after the one written to comes to an address that owns itself.          *)
SweepEnds == phase = "reprecode" ~> phase # "reprecode"

(* The instruction about to be executed is the one memory holds at pc.     *)
ExecIsCurrent ==
    phase = "exec" => CanPrecode(memory, pc) /\ cache[ip] = Precoded(memory, pc)

(* Translation never takes over: again and again a handler is entered, or  *)
(* the run is over.                                                        *)
Progress == []<>(phase \in {"exec", "halted", "exited"})

-----------------------------------------------------------------------------
(* The engine implements the interpreter.  A handler's exit on an address  *)
(* it cannot translate stands for the null call the interpreter makes      *)
(* there, and the interpreter has already counted pc on when a JMP to      *)
(* itself ends the run.                                                    *)
Linear == INSTANCE Interpreter WITH
    pc <- IF phase = "halted" THEN Advance(pc, 1) ELSE pc,
    status <- CASE phase = "halted" -> "halted"
                [] phase = "exited" -> "crashed"
                [] phase \in {"busy", "reprecode"} -> "busy"
                [] OTHER -> "fetch"

(* Every run of the engine is a run of the interpreter: the same           *)
(* instructions, the same writes and the same program counters.            *)
ImplementsLinear == Linear!Spec
=============================================================================
