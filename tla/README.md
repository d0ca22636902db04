# TLA+ development of the mos6502 emulator

The repository emulates a MOS 6502 and is on its way from an interpreter to a
binary translator. One guest program can be run by three engines, which must
not be told apart by the guest: an interpreter that decodes every instruction
when it runs it, a direct threaded engine that translates instructions into a
code cache, and a block engine that translates runs of instructions up to the
next branch. The two translating engines keep redundant copies of guest code,
and a 6502 program may write to its own code. Nearly everything that is hard
about this program follows from these two facts; it is what the modules here
are about.

Paths below are relative to the repository: `cpu.c` is `src/mos6502/cpu.c`,
`threaded.h`, `block.h` and `ops.h` are in `include/mos6502/engines/`.

## Inventory

| Component | State | Operations | Talks to |
|---|---|---|---|
| Launcher (`src/emulator.c`, `main.c`) | configuration, mode | parse arguments and environment, clear the chosen engine's state, load, reset, run | `cpu_init`, `load_program`, `cpu_reset`, `cpu_run` |
| Linear engine (`cpu_step_linear`, `linear.c`) | the chip: registers, program counter, 64 KiB of memory | one instruction per call | called by `cpu_run` and, for branches and jumps, by the block engine's dispatcher |
| Direct threaded engine (`threaded.h`, `cpu.c`) | directory (`spc_to_tpc`, `instruction_owner`), `code_cache`, `cache_length` | `precode_batch`, `THREADED_NEXT`/`JUMP`, `threaded_code_write`, `reprecode_instruction` | handlers of `ops.h` call back on every guest write |
| Block engine (`block.h`, `cpu.c`) | directory, blocks, instruction arena, `cache_length`, `arena_head` | `DISPATCHER`, `precode_block`, `BLOCK_NEXT`, `block_code_write` | same handlers; linear engine for block terminators |
| Opcode tables (`isa.h`, `DECODE_TABLE_CONTENT`, `opcode_table`) | constant | kind, length, validity, handler and mode of an opcode | read by all engines |
| Instruction semantics (`ops.h`, `linear.c`) | the chip | each instruction, written twice | the handlers of the engines |
| x86-64 emitter (`src/x86_64/emitter`) | none: a descriptor in, up to 15 bytes or an error out | encodes moves, ALU operations, shifts, `lea`, flag instructions | no engine yet |
| Trace (`trace.h`) | none | prints the registers before an instruction | all engines |
| Diagnostics (`tools/generate_execution_diagnostics.py`) | none | compares traces with a reference emulator | runs the launcher |

Everything runs in one thread; there is no I/O while a guest runs but tracing.
What is hard is therefore not concurrency but *redundancy*: the directory, the
owners, the cache and the guest's memory must agree after any sequence of guest
instructions, each of which may change the code that is about to run.

* Code is written while it is translated, including the instruction being
  executed and bytes that belong to two overlapping instructions.
* A slot or block is reused in place, or dropped while control is in it.
* A write may turn an instruction into no instruction, or change its length, so
  that the instructions after it are different ones.
* Caches and the arena fill up; counters of different widths wrap; one 16-bit
  value, 0xFFFF, is at once a slot, an address and the word for "none".
* Translation can fail halfway.

What makes each component correct:

* *threaded engine*: slots are never shared; no handler is entered through an
  empty slot; a translation whose bytes nobody took from it is what memory
  holds; a write's sweep over the following instructions ends; and the engine
  implements the interpreter;
* *block engine*: blocks never share arena entries; an address in the directory
  always has a block that may be entered; control stays within the block it
  entered; blocks hold what memory holds; the arena wraps only for blocks of at
  least as many instructions as a flush keeps entries free; the engine works without executing anything only
  where there is nothing to execute; and it implements the interpreter;
* *linear engine*: it is the meaning of a guest program, and fails only where the
  program does;
* *tables and semantics*: all copies agree for every opcode and operand;
* *emitter*: what it encodes decodes to the instruction it was asked for, and it
  refuses nothing that can be encoded.

## Modules

| Module | Models |
|---|---|
| `Guest` | what all engines share: memory, opcode tables, `precode_instruction`, `instruction_owner` |
| `Interpreter` | the linear engine; also the abstract specification of the other two |
| `Threaded` | the direct threaded engine |
| `Block` | the block engine |
| `Bytes` | bytes as numbers and as sets of bits, the status register |
| `Alu`, `LinearAlu` | what an instruction computes, in `ops.h` and in `linear.c` |
| `Addressing`, `LinearAddressing` | where an instruction finds its operand, the stack and its successor, in `ops.h` and in `linear.c` |
| `OpcodeTables` | the five tables over the 256 opcodes, and each engine's way through the ones it uses |
| `Emitter` | every `emit_` function of the x86-64 emitter |
| `X86` | external: the instructions the emitter writes and how a processor reads them from bytes |
| `ThreadedGuest`, `BlockGuest` | the rules a guest keeps for which `Threaded` and `Block` implement the interpreter |
| `GuestProofs`, `ThreadedProofs`, `BlockProofs`, `AluProofs`, `AddressingProofs`, `EmitterProofs` | theorems about the modules of these names, for all values of the constants |
| `ThreadedRefinement`, `BlockRefinement` | theorems: the two engines implement the interpreter for every guest that keeps the rules |
| `MCThreaded`, `MCThreadedImplements`, `MCBlock`, `MCBlockImplements`, `MCLinear` | small guests for TLC |
| `MCAlu`, `MCAddressing`, `MCEmitter` | the inputs of the instructions and of the emitter for TLC |
| `MCTables` | the tables for TLC, and `Guest` instantiated with them: its assumptions hold for the real opcodes |

`Threaded` and `Block` extend `Guest` and instantiate `Interpreter` as `Linear`;
`ImplementsLinear` is the statement that every behaviour of the engine is one of
the interpreter under the mapping given there.

### From the code to the model

*Data.* An opcode is a model value with a validity, a length, a number of bytes
it writes, the pairs of address and byte it may write, and one of four ways to
leave its address (`next`, `branch`, `jump`, `jmp`). Registers and flags are left
out: an effective address, a stored byte, the outcome of a branch and the target
of a jump are any the opcode allows. This only adds behaviours, so what holds of
the model holds of the code. For the refinement it means that the interpreter is
compared with the engines on the instructions executed (opcode and operand
bytes), the bytes written and the program counters, not on the arithmetic, which
the engines do not influence.

*Memory and sizes.* `MEMORY_SIZE` and `CODE_CACHE_CAPACITY` are both 65536 in the
code. They are separate constants here; TLC gives them small values, the proofs
hold for all. Addresses wrap at `MEMORY_SIZE` as `uint16_t` does, slots at
`CODE_CACHE_CAPACITY`. `NO_TPC` and `NO_OWNER` are, as in the code, the number of
the last slot and of the last address: a slot or an address with that number is
not distinguishable from none, and the models keep that.

*Control.* One action is one handler or one turn of a loop, so that the long
loops (`precode_batch`, `precode_block`, the sweep in `threaded_code_write`) are
visible step by step:

| Code | Actions of `Threaded` |
|---|---|
| `precode_batch` | `BatchStep`, `BatchEnd`; phase `boot` for the call in `cpu_run`, `batch` for the calls in `THREADED_NEXT` and `THREADED_JUMP` |
| `cpu_run`, start | `Start` |
| a handler | `Execute` (it reads its cached instruction), `Store` for each byte it writes with `HANDLE_SMC_WRITE`, `Retire` for `THREADED_NEXT`/`JUMP` |
| after a batch | `Resume` |
| `threaded_code_write`, `reprecode_instruction` | `Reprecode`, `ReprecodeFails`, `ReprecodeFull` |

| Code | Actions of `Block` |
|---|---|
| `DISPATCHER` and `cpu_step_linear` | `FetchTerminator`, `Push`, `RetireTerminator`, `EnterBlock` |
| `precode_block` | `BeginBlock` (with the flush), `PrecodeInstruction`, `EndAtTerminator`, `EndAtFailure` |
| handlers and `BLOCK_NEXT` | `Execute`, `Store` (with `block_code_write`), `Retire`; `Return` is the entry whose handler is the dispatcher, `Crash` an empty entry or the end of the arena |

In `Interpreter`, `Fetch` is the opcode and operand fetch, `Store` one byte
written, `Retire` the new program counter, `Crash` the call through an empty
entry of `opcode_table`, `FallThrough` the way `cpu_run` leaves its loop.

Details of the code that are kept because properties depend on them: the length
that `THREADED_NEXT` adds is read from the slot *after* the handler's writes may
have translated it again; the batch compares the length with the capacity only
after counting; a slot is counted before translation can fail;
`invalidate_instruction_ownership` clears the unbroken run of owned bytes from
the instruction's start only; `block_code_write` leaves the entries of a dropped
block in the arena; the flush resets the counters and the directory and nothing
else; the pushes of JSR and BRK in the block engine do not pass through
`block_code_write`; the linear engine's test for a jump to itself reads past the
end of memory at 0xFFFE and may come out either way there.

`Block` has two history variables, `source` (the address an arena entry was made
for) and `wrapped` (`arena_head` has passed 0xFFFF since the last flush). No
guard reads them.

*Instructions.* The engines' modules leave the arithmetic out because they do not
influence it; it is written twice in the code, and the two copies are compared by
themselves. `Alu` and `LinearAlu` execute one instruction from every state of one
register (A, X or Y, whichever the instruction is about), one byte (from memory,
the stack or the register that is shifted) and the status register. Bytes and the
status are also sets of bits, so that the masks of the code are set operations.
`Addressing` and `LinearAddressing` execute one instruction from a whole chip
whose bytes have `PAGE` values and whose memory has `PAGE` pages; 256 is one value
of `PAGE`. A load and a store stand for all instructions with a memory operand,
as all of them use the same addresses. `BreakBits` and `InterruptBit` are the
masks `| 0x30` and `| 0x04`, any functions on bytes as far as the proofs go.

*Tables.* `OpcodeTables` writes the tables out entry by entry: `DECODE_TABLE` and
`opcode_table` give for an operation and an addressing mode its opcode, read from
the handlers and modes of `DECODE_TABLE_CONTENT` and from the names of the
functions in `opcode_table`. One opcode goes through one engine: `Step` is
`cpu_step_linear` (also as the block engine's way to run a terminator), `Precode`
is `precode_instruction` and `Handle` the switch over the mode in the handler,
which ends the run in a mode it has no case for. `FetchedBytes` is what the
addressing functions of `linear.c` take from the program counter, and so the
length an instruction has there.

*Emitter.* A call is one action with any parameters; `asked` is the instruction
the function's name and parameters describe, `result` what it answers. Functions
that differ only in opcode and digit are one action with a table
(`alu_opcode`, `group_digit`, `condition_opcode`). An immediate or displacement
is its bytes: the shifts and masks that take a number apart are the one
conversion left out. `X86` reads the bytes as a processor in 64-bit mode does and
was written from the encoding rules, not from the emitter; it knows nothing of
descriptors. What the emitter is known to encode wrongly is `Misencoded`, one
named condition each:

| Condition | In the code |
|---|---|
| `BaseNeedsMore` | a base rsp or r12 needs a SIB byte, rbp or r13 with mod 00 is no base; only `emit_lea_sib` sees to it (`helpers.h:54`, `lea.c:122`) |
| `WidenedByBase` | REX.W follows the wider of both registers, also when that is a 64-bit base (`helpers.h:23-26`): `mov eax, [rbx]` loads 64 bits |
| `BaseTooWide` | `emit_lea_reg_disp` takes a 32-bit base and writes no 67h (`lea.c:89-96`) |
| `IndexIsNone` | rsp as an index means no index (`lea.c:29`) |
| `DisplacementLost` | `disp32` has eight bits (`emitter.h:137`) |
| `HighLost` | ah, bh, ch or dh together with a REX prefix is spl to dil; `is_high` is never read |
| `ImmediateTooShort` | B8 with REX.W takes eight bytes, four are written (`mov.c:58-82`) |
| `ZeroExtendsToByte` | `emit_movzx_reg_reg` takes a byte as destination (`mov.c:144`) |
| `WrongCondition` | `sete` and `setne` write the opcode of `setnc` (`flags.c:42-48`) |

`DecodesAsAsked` is an equivalence: outside the list the bytes are the
instruction asked for, inside it they never are, so the list hides nothing else.
No engine calls the emitter yet, so that none of this affects a guest today.

### Bounds

* `cacheLength` of `Threaded` is folded above twice the capacity (`Bump`). Only its
  comparison with the capacity and its value modulo the capacity are ever used,
  so nothing is lost, and the overflowed engine has finitely many states.
* A block's length in `Block` is counted up to the capacity; it is only compared
  with zero and used while the arena has not wrapped.
* `WithinCapacity` is a premise of the properties of `Threaded` that have no
  meaning once the cache has overflowed and slots in use are written over;
  `threaded` explores those states all the same, for `NeverEmpty`, `SweepEnds`
  and `TypeOK`. That slots handed out again past the capacity
  (`(uint16_t)cache_length`, `cpu.c:202`) mix up two addresses' translations is
  therefore not something a property forbids. `threaded_stale` is constrained to it, so that what it shows has
  another cause.
* `ArenaFits` constrains `block` and `block_runoff` to an arena that has not
  wrapped; the step that wraps it is still taken, and `ReserveSuffices` is about
  that step. `RESERVE` is the 32 of `cpu.c:224`, 2 and 3 in the runs. In `block`
  the arena does wrap in both of the ways `ReserveSuffices` allows, also with the
  dispatcher entry of a block of exactly `RESERVE` instructions.
* `alu` takes all 256 bytes and the 144 register values named in `MCAlu`: all
  decimal numbers, and the digits 0, 9, 10 and 15 in every row of sixteen, which
  are the values at which a nibble, a sign or a carry changes.
* `addressing` has pages of four bytes and instructions at the start of memory,
  in the stack page, across a page and at the end, with every operand, register
  and stack pointer. The proofs hold for pages of every size.
* `tables` is complete: all 256 opcodes, with one to four bytes left in memory.
* `emitter` has registers of every size from the families whose encodings differ
  (low numbers, 4 and 5, their counterparts 12 and 13, the first that needs REX),
  two high bytes and an invalid one, every scale and one impossible one, and the
  boundaries of signed and unsigned bytes. The families left out encode as one of
  those does but for their number; the proofs hold for all of them.
* Memory has four bytes in the runs over all programs: enough for
  instructions of length one to three that overlap in every way, wrap round the
  end of memory, follow each other and write to each other. The two refinement
  runs have eight and eleven bytes and a choice of programs that keep to the
  guests' rules below.

### Fairness

The engines are single-threaded native code, so `FairSpec` is `WF_vars(Next)`: the
program takes its next step as long as there is one. Nothing else is assumed; in
particular no fairness between the outcomes of a branch. `SweepEnds`, `BatchEnds`,
`Progress` and `StallsOnlyWithoutCode` are checked under it. The last says when the
block engine makes no progress although it takes steps: at an address it cannot
translate (`NothingToRun`, where the dispatcher spins, `cpu.c:373`), and in a memory
in which every instruction falls through to another (`NoBlockEnds`, where
`precode_block` goes round for ever, `cpu.c:235`); the guests of `block_implements`
can reach both.

## Runs

| Run | Module | Shows |
|---|---|---|
| `threaded` | `MCThreaded` | `TypeOK`, `SlotsDistinct`, `OwnedIsCurrent`, `NeverEmpty`, `SweepEnds`, `BatchEnds` for every program over four addresses, past the end of the cache |
| `threaded_implements` | `MCThreadedImplements` | `ImplementsLinear`, `ExecIsCurrent`, `Progress` |
| `block` | `MCBlock` | `TypeOK`, `BlocksDistinct`, `MappedIsRunnable`, `OwnedIsCurrent`, `ReserveSuffices` for every program over four addresses, through flushes |
| `block_implements` | `MCBlockImplements` | `ImplementsLinear`, `StaysInBlock`, `ShortBlocksFit`, `StallsOnlyWithoutCode` |
| `alu` | `MCAlu` | `ImplementsLinear` for every instruction that computes; `DecimalArithmetic`, `OverflowIsSigned`, `SubtractUndoesAdd`, `CompareIsSubtract`, `RotatesInvert`: that what both copies do is 6502 arithmetic |
| `addressing` | `MCAddressing` | `ImplementsLinear` for addresses, stack and program counter; `ReturnsToCaller` |
| `tables` | `MCTables` | `EnginesAgree`: every opcode is the same instruction of the same length to all engines; `NoneMissing`; `BlocksAreStraight`: blocks end at exactly the instructions that do not fall through |
| `emitter` | `MCEmitter` | `DecodesAsAsked`, `RefusesNothingPossible` |
| `emitter_base` | `MCEmitter` | a violation: `MemoryOperandIsBase` |
| `threaded_stale` | `MCThreaded` | a violation: `ExecIsCurrent`, for guests without the rules below |
| `block_runoff` | `MCBlock` | a violation: `StaysInBlock`, for guests without the rules below |
| `linear_exit` | `MCLinear` | a violation: `CrashOnlyOnInvalid` |

The two refinements do not hold for every guest. The rules a guest must keep are
assumptions of `ThreadedGuest` and `BlockGuest`, which TLC evaluates for the guests
of the two runs and which the theorems of the next section rest on:

* `ThreadedGuest`: code has a layout. `Size` gives for every address where an
  instruction may start its length (0 where there is never an opcode);
  instructions do not overlap, a write replaces an opcode only by one of the same
  length, control goes only to where an instruction starts, and none starts at the
  last address, whose number means that nobody owns a byte.
* `BlockGuest`: a program says what its memory may become, where the dispatcher may
  come to (`starts`) and which instructions the block at a start may have
  (`members`). A block that is not empty ends at a branch or jump; a byte that is
  written to and may be code is code of one block only, is not written by that
  block and not pushed to. `Programs` is a set because not all images of
  `block_implements` keep to the same layout: one of them has no branch at all.

The violations show that these rules are needed:

* `threaded_stale`: control jumps into an operand; the overlapping instruction
  takes the bytes it shares (`cpu.c:104-113`); a write to them translates that
  instruction again and not the one around it, which is then executed as it was.
  The block engine has the same rule for its blocks (`cpu.c:253-255`): a write
  drops only the newest of those that share a byte. In both engines
  `OwnedIsCurrent` is about translations that still own their bytes and does not
  cover this.
* `block_runoff`: a block that ends at an invalid opcode or the end of memory gets
  no entry that returns to the dispatcher (`cpu.c:259-262`), and execution goes on
  in the next arena entry, with whatever is there.
* `linear_exit`: `break` at `cpu.c:347` leaves the switch, not the function: the
  first handler runs with a null instruction.
* `emitter_base`: a load through rsp or r12 is written without the SIB byte these
  bases need, one through rbp or r13 without the displacement.

Further rules are excluded from the equivalence and recorded as hazards: a store
into the running block, pushes into code, and the dispatcher that spins at an
address it cannot translate.

## Proofs

`ThreadedProofs` proves four invariants of `Threaded!Spec` from the assumptions in
`Guest` (sizes are naturals, at least 4 and 2; tables have their ranges; programs
store and jump within memory) and nothing else, so they hold for the real sizes
and for every guest.

* `TypeCorrect`. `TypeOK` is not inductive: a handler reads the opcode tables at the
  instruction it executes, so `TypeInv` adds that this is a valid instruction
  while one is being executed. `BumpType`, `PrecodedType`, `ClaimType` and
  `NextPcsType` say what the operators return.
* `NeverEmptyCorrect`. `FillInv` adds that whatever is in the directory points to a
  filled slot, and that while a batch runs, growth of the cache means that the
  address the batch began with was translated: this is the fact `THREADED_NEXT`
  relies on when it looks a handler up without testing it. It holds because
  memory does not change during a batch, so a wrapped batch cannot find that
  address untranslatable. It needs no bound on the cache.
* `SlotsDistinctCorrect`. Every action that writes to the directory is shown to set
  one entry, to nothing, to the slot it has, or to the next free slot, which is
  then counted (`WritersSetSlot`); `SetsSlotDistinct` does the rest.
* `OwnedIsCurrentCorrect`. By `SlotsDistinct` a translation is the only one changed
  when it is made (`CacheInstructionCurrent`); a write to a byte of an instruction
  that owns it makes that instruction pending (`StoreCurrent`), and the turn of
  the sweep that follows translates it again or takes it out of the directory.

`AddressingProofs` proves three properties of `Addressing` from the assumptions that a
page has at least four bytes and that the chips and masks have their types.

* `TypeCorrect`: what an effective address, a pull, a branch or a return computes
  lies in memory, the stack pointer in its page (`EAType`, `PulledType`,
  `BranchType`, `CallType`). `TypeOK` is inductive here.
* `ImplementsLinearCorrect`: every step of the handlers is one of `linear.c`. An
  instruction that was precoded does not run past the end of memory, so the bytes
  fetched with a wrapping counter are the bytes of the operand (`OperandByte`,
  `OperandWord`); `SameAddress` goes through the modes; `ModShift` shows that it
  makes no difference whether a counter wraps before or after an addition, which
  is what branches and return addresses differ in.
* `ReturnsToCallerCorrect`: `StackRoundTrip` shows that three bytes pushed lie at
  three addresses and are found by pulling, wherever the stack wraps; the rest is
  `WordParts`, that two bytes make up the word they were taken from.

`BlockProofs` proves five properties of `Block!Spec` from the assumptions in `Guest`
and `RESERVE \in 1 .. CODE_CACHE_CAPACITY - 1`, for every guest. Each of them but the
first speaks of an arena that has not wrapped.

* `TypeCorrect`: as for `Threaded`; in addition only `ip` may be one past its array,
  and not while an instruction executes.
* `BlocksDistinctCorrect`, with `ArenaInv`: the block in the making lies behind every
  translated one, starts with more than `RESERVE` entries left and reaches exactly
  up to `arena_head`; and there are never more blocks than entries, so slots do not
  run out first. A flush is harmless because it empties the directory
  (`BeginEffect`), a finished block because it is added behind the others
  (`DistinctAdds`), a dropped one because the rest stays as it is (`DistinctKeeps`).
  `ReserveSufficesCorrect` follows from the same invariant (`WrapsLate`): the arena
  wraps with an instruction of a block of more than `RESERVE` or with the
  dispatcher entry of a block of at least `RESERVE`, never with a shorter block.
  `FullBlockWraps` says that this is exact. Without a flush a block has at least 33
  entries before the end of the arena; 32 instructions begun at
  `CODE_CACHE_CAPACITY - 33` and the dispatcher entry use all of them
  (`cpu.c:242`), `arena_head` becomes 0, and the next block, whatever its length, is
  translated without a flush over blocks that are still in the directory.
* `MappedIsRunnableCorrect`, with `ChainInv`: in the block in the making each entry is
  made for the address behind the entry before, and `spc` is the address behind the
  last. `KeptOrMade` reduces every step to two cases: a block in the directory was
  there before, entry for entry, or it is the one just made.
* `OwnedIsCurrentCorrect`, with `CurrencyInv`: what is in the making is what memory
  holds, since nothing is written meanwhile; afterwards no step gives a byte to an
  older block (`OwnersKept`), and a write to an owned byte drops its owner
  (`GuardedBytesKept`).

`ThreadedRefinement` proves `ImplementsLinearCorrect`: under the assumptions of
`ThreadedGuest`, every behaviour of the engine in which the cache always has room
(`HasRoom`) is one of the interpreter. The premise is needed: the cache is never
flushed, a self-modifying guest may make the engine translate without end, and the
slot with the number of `NO_TPC` is not distinguishable from none. The invariant is
`OwnedIsCurrent` and two more. `LayoutInv`: what is in the directory is an
instruction of the layout, with its length, and *owns all of its bytes*, which is
the premise of `OwnedIsCurrent`; instructions that do not overlap cannot take bytes
from each other. `DispatchInv`: a handler is entered through the slot of the
instruction at the program counter, and that slot keeps its length while the
handler's own writes have it translated again, so `THREADED_NEXT` advances by the
right one; an exit after a batch means that there is no opcode. `StepSimulates`
then goes through the actions: translation steps stutter. `ExecIsCurrentCorrect` is
the property that `threaded_stale` violates for guests without the rules.

`BlockRefinement` proves the same of `Block` under the assumptions of `BlockGuest`,
as long as the arena does not wrap. `OwnedIsCurrent` is not enough there, because
blocks share bytes that nobody writes to, and only the newest owns them. `BlockInv`
says instead that every entry of a translated block is current and that the block
owns those of its bytes that may be written (`Whole`, `Translated`), and that the
block ends with the entry that goes back to the dispatcher, at a start. `OwnerInv`
bounds what a block can own by the code it may have, so that no write from a block
drops that block itself (`RunningStays`), and `RunInv` says that control is in a
translated block, at the entry made for the program counter: from it follow
`StaysInBlockCorrect` and the simulation of `Execute`, `Retire` and `Return`, and
that `Crash` cannot happen. `ShortBlocksFitCorrect` removes the premise on the arena:
if every block has fewer than `RESERVE` instructions (`Short`: a place in the block
that grows from instruction to instruction stays below `RESERVE`), the arena never
wraps, because the block in the making is never longer than the place it has come
to (`LengthInv`). `ShortProgramsCorrect` puts the two together.

`AluProofs` proves all properties of `Alu` from the assumption that registers and
bytes are bytes and a status is a set of flags. The run `alu` enumerates them for
144 register values; here the operands are arbitrary.

* The masks of the code work on sets of bits. `SumOfBits` and `BitsOfSum` say that a
  byte is the sum of its bits, hence `ValueOf` and `Bits` are inverse (`ValueOfIs`,
  `BitsAre`), and a bit is a quotient and a remainder, which the solver can reckon
  with. `TypeCorrect` has one lemma per kind of instruction.
* `AdcLeaves`, `SbcLeaves`, `CmpLeaves`, `RolLeaves` and `RorLeaves` state once what
  register and flags an instruction leaves. `OverflowIsSignedCorrect` rests on
  `AddOverflowIs` and `SubOverflowIs` (the sign masks of `ops.h` against a sum of
  signed numbers), `DecimalArithmeticCorrect` on `AdcDecimal` and `SbcDecimal`, a
  case for each way the two nibbles are corrected; `SubtractUndoesAddCorrect` uses
  the latter for decimal mode, since decimal numbers with the same value are the
  same byte (`DecimalIsOne`). `CompareIsSubtractCorrect` and
  `RotatesInvertCorrect` follow from the lemmas of their instructions.
* `ImplementsLinearCorrect`: the functions of `linear.c` are equal to those of
  `ops.h`, group by group (`SameShifts`, `SameLogic`, `SameAdc`, `SameSbc`,
  `SameCmp`, `SameBranch`, `SameSteps`), although they test a ninth bit where the
  handlers compare (`NinthBit`) and set the flags in another order
  (`CarryCommutes`); hence so are the steps.

`EmitterProofs` proves all three properties of `Emitter` from the ranges of its
constants, so for every register, scale and byte. The first two follow from the
inductive invariant `Good(asked, result)`: the answer is an error or at most
`MAX_INSTRUCTION_SIZE` bytes, and an error means that the instruction asked for does
not exist. The third is inductive as it stands, since a call looks at nothing but its
parameters; the work is in reading the bytes back.

* `TypeCorrect`: `Encoded` adds up the parts `emit_encode` writes: at most 15 bytes
  with the end marker, for every descriptor the functions fill in (`Encodable`: not
  more than two bytes of opcode and four of immediate, a register or a digit and not
  both, without which the ModRM byte could exceed a byte).
* `RefusesNothingPossibleCorrect`: `CheckedTwice` and `CheckedThrice` are the shape all
  functions have, checks one after another and an encoding; for each function it
  remains to show that what it checks follows from there being such an instruction
  (`ImmediateSizes`, `MovzxSizes`, `LeaSizes`, `SizesDiffer`, `NotAddressable`).
* `DecodesAsAskedCorrect`: for every descriptor, `OpenedIs` shows that `X86` finds the
  prefixes and the opcode where `emit_encode` put them (an opcode is never taken for
  a prefix), `FieldedIs` that it finds mode, register or digit and r/m in the ModRM
  byte, `RexTellsIs` what the REX prefix adds to them. `DirectIs`, `IndirectIs`, `SibIs`
  and `BareIs` put together what is read of the four forms a descriptor has, how many
  bytes the processor takes included. `RegisterInfo` and `GeneralIs` turn numbers back
  into registers. For each form of call one lemma (`...Judged`) compares what is read
  with what was asked, in both directions: it differs if and only if a condition of
  `Misencoded` applies; and one (`...Decodes`) shows that each function is such a call.
  So the table of faults above is complete, and each entry of it is a fault whenever
  its condition holds.

TLC found the inductive invariants to hold on the runs' instances before they were
proved.

Only model-checked: liveness (`SweepEnds`, `BatchEnds`, `Progress`,
`StallsOnlyWithoutCode`), which is out of the proof system's reach under fairness;
the properties of `OpcodeTables`, a finite question which the run `tables` answers
completely, for all 256 opcodes; and the violations. The
rules of `ThreadedGuest` and `BlockGuest` are sufficient, not necessary.

## Plan

1. `Guest`, `Interpreter`, `Threaded`, `Block`, their runs, `ThreadedProofs`: done.
2. `Alu`, `Addressing` and their linear counterparts, `AddressingProofs`: done.
3. `BlockProofs`: done.
4. `ThreadedRefinement`, `BlockRefinement`: done.
5. `OpcodeTables`, `X86`, `Emitter`: done.
6. `AluProofs`, type correctness of `Addressing`, `EmitterProofs`: done.
7. `DecodesAsAsked` for all registers, in `EmitterProofs`: done. What stays with TLC
   is named at the end of the proofs; what has no model follows.

## Not modelled

* The launcher's command line, environment and messages: they run once, before any
  engine, and leave a path and a mode. What `initialize_emulator`, `load_program`
  and `cpu_reset` leave is the `Init` of each engine.
* The trace, the diagnostics script and the build: they hold no state of the
  emulator. What a trace shows of two engines is what `ImplementsLinear` compares.
* `instruction_type_by_opcode` but for the kinds that end a block, and the
  enumeration in `x86_64/isa.h`: nothing looks at them.
* Time: cycles are not counted by the code either.
