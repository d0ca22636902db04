----------------------------- MODULE BlockProofs -----------------------------
(***************************************************************************)
(* What the block engine guarantees for every guest, memory size, arena    *)
(* and reserve.                                                            *)
(***************************************************************************)
EXTENDS Block, GuestProofs

(* Type correctness.  TypeOK alone is not inductive: what executes an      *)
(* instruction looks up the tables of isa.h at ins.op, and only an         *)
(* instruction pointer inside the arena may be counted on.                 *)
TypeInv ==
    /\ TypeOK
    /\ phase \in {"terminator", "busy"} => ins \in Instr
    /\ phase = "terminator" => Flow[ins.op] # "next"
    /\ phase = "busy" => ip \in Slot

(* The first arena entry of the block precode_block is working on.         *)
Begun == blocks[cacheLength].first

Precoding == phase = "precode" /\ ~wrapped

(* Where blocks lie.  The block in the making is the last one: it begins   *)
(* behind every translated block, with RESERVE entries left, and reaches   *)
(* up to arena_head.  Every block has an entry, so slots cannot run out    *)
(* before entries do.                                                      *)
ArenaInv ==
    /\ BlocksDistinct
    /\ ~wrapped => cacheLength <= arenaHead
    /\ Precoding =>
           /\ ~Mapped(pc)
           /\ cacheLength <= Begun
           /\ Begun < CODE_CACHE_CAPACITY - RESERVE
           /\ Begun + BlockLength = arenaHead
           /\ \A a \in Address : Mapped(a) =>
                  \A i \in Extent(spcToTpc[a]) : i < Begun

(* How a block runs: from the address it was asked for, each entry made    *)
(* for the address behind the entry before.                                *)
Linked(i) == source[i + 1] = Advance(source[i], arena[i].len)

ChainInv ==
    /\ MappedIsRunnable
    /\ Precoding =>
           IF BlockLength = 0 THEN spc = pc
           ELSE /\ source[Begun] = pc
                /\ spc = Advance(source[arenaHead - 1], arena[arenaHead - 1].len)
                /\ \A i \in Begun .. arenaHead - 2 : Linked(i)

(* An arena entry is the instruction memory holds.                         *)
Current(i) ==
    /\ CanPrecode(memory, source[i])
    /\ arena[i] = Precoded(memory, source[i])

CurrencyInv ==
    /\ OwnedIsCurrent
    /\ Precoding => \A i \in Begun .. arenaHead - 1 : Current(i)

-----------------------------------------------------------------------------
(* Types.                                                                  *)
LEMMA EntryType ==
    /\ Instr \subseteq Entries /\ NoInstr \in Entries /\ Dispatcher \in Entries
    /\ NoInstr \notin Instr /\ Dispatcher \notin Instr
BY DEF Entries, NoInstr, Dispatcher, Instr

LEMMA ReserveType == RESERVE \in Nat /\ RESERVE >= 1 /\ RESERVE < CODE_CACHE_CAPACITY
BY ReserveAssumption, SizeAssumption

LEMMA WrapType ==
    ASSUME NEW n \in Slot
    PROVE  /\ (n + 1) % CODE_CACHE_CAPACITY \in Slot
           /\ n + 1 < CODE_CACHE_CAPACITY => (n + 1) % CODE_CACHE_CAPACITY = n + 1
BY SizeAssumption DEF Slot

LEMMA AppendType ==
    ASSUME TypeOK, NEW entry \in Entries, AppendEntry(entry)
    PROVE  /\ arena' \in [Slot -> Entries]
           /\ arenaHead' \in Slot
           /\ source' \in [Slot -> Address]
           /\ wrapped' \in BOOLEAN
BY WrapType DEF AppendEntry, TypeOK

(* The three ways an entry of code_cache changes.                          *)
LEMMA BlockStarts ==
    ASSUME NEW b \in [Slot -> TranslationBlock], NEW t \in Slot, NEW head \in Slot
    PROVE  LET new == [b EXCEPT ![t].first = head, ![t].length = 0]
           IN  /\ new \in [Slot -> TranslationBlock]
               /\ new[t].first = head /\ new[t].length = 0
               /\ \A u \in Slot \ {t} : new[u] = b[u]
<1>1. b[t] \in TranslationBlock /\ 0 \in 0 .. CODE_CACHE_CAPACITY
  BY SizeAssumption
<1>2. [b[t] EXCEPT !.first = head] \in TranslationBlock
  BY <1>1 DEF TranslationBlock
<1>3. [b[t] EXCEPT !.first = head, !.length = 0] \in TranslationBlock
  BY <1>1, <1>2 DEF TranslationBlock
<1>4. [b EXCEPT ![t].first = head, ![t].length = 0]
          = [b EXCEPT ![t] = [b[t] EXCEPT !.first = head, !.length = 0]]
  OBVIOUS
<1> QED
  BY <1>1, <1>3, <1>4 DEF TranslationBlock

LEMMA BlockValid ==
    ASSUME NEW b \in [Slot -> TranslationBlock], NEW t \in Slot, NEW v \in BOOLEAN
    PROVE  LET new == [b EXCEPT ![t].valid = v]
           IN  /\ new \in [Slot -> TranslationBlock]
               /\ new[t].first = b[t].first /\ new[t].length = b[t].length
               /\ new[t].valid = v
               /\ \A u \in Slot \ {t} : new[u] = b[u]
<1>1. b[t] \in TranslationBlock
  OBVIOUS
<1> QED
  BY <1>1 DEF TranslationBlock

LEMMA BlockLengthened ==
    ASSUME NEW b \in [Slot -> TranslationBlock], NEW t \in Slot
    PROVE  LET new == [b EXCEPT ![t].length =
                           IF @ < CODE_CACHE_CAPACITY THEN @ + 1 ELSE @]
           IN  /\ new \in [Slot -> TranslationBlock]
               /\ new[t].first = b[t].first
               /\ b[t].length < CODE_CACHE_CAPACITY =>
                      new[t].length = b[t].length + 1
               /\ \A u \in Slot \ {t} : new[u] = b[u]
<1> DEFINE n == IF b[t].length < CODE_CACHE_CAPACITY
                THEN b[t].length + 1 ELSE b[t].length
<1>1. b[t] \in TranslationBlock
  OBVIOUS
<1>2. n \in 0 .. CODE_CACHE_CAPACITY
  BY <1>1, SizeAssumption DEF TranslationBlock
<1>3. [b EXCEPT ![t].length = IF @ < CODE_CACHE_CAPACITY THEN @ + 1 ELSE @]
          = [b EXCEPT ![t].length = n]
  OBVIOUS
<1>4. b[t].length < CODE_CACHE_CAPACITY => n = b[t].length + 1
  OBVIOUS
<1> HIDE DEF n
<1> QED
  BY <1>1, <1>2, <1>3, <1>4 DEF TranslationBlock

LEMMA FinishType ==
    ASSUME TypeOK, phase = "precode", FinishBlock
    PROVE  /\ blocks' \in [Slot -> TranslationBlock]
           /\ spcToTpc' \in [Address -> Slot]
           /\ cacheLength' \in Slot
           /\ ip' \in 0 .. CODE_CACHE_CAPACITY
           /\ phase' \in {"exec", "dispatch"}
           /\ spc' \in Address
           /\ UNCHANGED <<guest, owner>>
<1>1. blocks[cacheLength] \in TranslationBlock
  BY DEF TypeOK
<1>2. [blocks EXCEPT ![cacheLength].valid = TRUE] \in [Slot -> TranslationBlock]
  BY BlockValid DEF TypeOK
<1>3. blocks[cacheLength].first \in 0 .. CODE_CACHE_CAPACITY
  BY <1>1, SizeAssumption DEF TranslationBlock, Slot
<1>4. (cacheLength + 1) % CODE_CACHE_CAPACITY \in Slot
  BY WrapType DEF TypeOK
<1> QED
  BY <1>2, <1>3, <1>4, ZeroType DEF FinishBlock, TypeOK

(* block_code_write: what a write in a block does to the directory.        *)
Drops(start) ==
    /\ start # NO_OWNER /\ Mapped(start)
    /\ blocks' = [blocks EXCEPT ![spcToTpc[start]].valid = FALSE]
    /\ spcToTpc' = [spcToTpc EXCEPT ![start] = NO_TPC]
    /\ owner' = InvalidateOwnership(owner, start)

Wrote(s) ==
    /\ memory' = [memory EXCEPT ![s[1]] = s[2]]
    /\ \/ Drops(owner[s[1]])
       \/ /\ owner[s[1]] = NO_OWNER \/ ~Mapped(owner[s[1]])
          /\ UNCHANGED <<blocks, spcToTpc, owner>>

LEMMA StoreEffect ==
    ASSUME Store
    PROVE  \E s \in Stores[ins.op] : Wrote(s)
BY DEF Store, Wrote, Drops

LEMMA TypeInvInit == Init => TypeInv
<1> SUFFICES ASSUME Init
             PROVE  TypeInv
  OBVIOUS
<1>1. 0 \in 0 .. CODE_CACHE_CAPACITY /\ Entry \in Address
  BY SizeAssumption
<1>2. memory \in [Address -> Byte]
  BY ProgramAssumption DEF Init
<1>3. /\ spcToTpc \in [Address -> Slot]
      /\ owner \in [Address -> Address]
      /\ source \in [Slot -> Address]
  BY SlotType, ZeroType DEF Init
<1>4. arena \in [Slot -> Entries]
  BY EntryType DEF Init
<1>5. blocks \in [Slot -> TranslationBlock]
  <2>1. [first |-> 0, length |-> 0, valid |-> FALSE] \in TranslationBlock
    BY <1>1, ZeroType DEF TranslationBlock
  <2> QED
    BY <2>1 DEF Init
<1>6. phase = "dispatch" /\ wrapped \in BOOLEAN
  BY DEF Init
<1>7. spc \in Address /\ cacheLength \in Slot /\ arenaHead \in Slot
  BY ZeroType DEF Init
<1> QED
  BY <1>1, <1>2, <1>3, <1>4, <1>5, <1>6, <1>7 DEF Init, TypeInv, TypeOK, Phases

LEMMA TypeInvStep == TypeInv /\ [Next]_vars => TypeInv'
<1> SUFFICES ASSUME TypeInv, [Next]_vars
             PROVE  TypeInv'
  OBVIOUS
<1> USE DEF TypeInv
<1>1. CASE FetchTerminator
  <2>1. /\ Fetched(memory, pc) \in Instr
        /\ Flow[Fetched(memory, pc).op] # "next"
        /\ Writes[memory[pc]] \in 0 .. 3
    BY <1>1, FetchedType DEF FetchTerminator, Terminator, TypeOK
  <2> QED
    BY <1>1, <2>1 DEF FetchTerminator, TypeOK, Phases, cacheVars, arenaVars
<1>2. CASE Push
  <2>1. memory' \in [Address -> Byte]
    BY <1>2, StoresType DEF Push, TypeOK, Instr
  <2>2. todo' \in 0 .. 3
    BY <1>2 DEF Push, TypeOK
  <2> QED
    BY <1>2, <2>1, <2>2 DEF Push, TypeOK, cacheVars, arenaVars
<1>3. CASE RetireTerminator
  <2>1. ins.len \in 0 .. 3
    BY <1>3 DEF RetireTerminator, Instr
  <2>2. /\ NextPcs(Flow[ins.op], pc, ins.len) \subseteq Address
        /\ Advance(pc, 1) \in Address
    BY <2>1, NextPcsType, AdvanceType DEF TypeOK
  <2>3. pc' \in Address /\ phase' \in {"halted", "dispatch"}
    BY <1>3, <2>2 DEF RetireTerminator
  <2> QED
    BY <1>3, <2>3 DEF RetireTerminator, TypeOK, Phases, cacheVars, arenaVars
<1>4. CASE EnterBlock
  <2>1. blocks[spcToTpc[pc]].first \in 0 .. CODE_CACHE_CAPACITY
    BY SizeAssumption DEF TypeOK, TranslationBlock, Slot
  <2>2. ip' \in 0 .. CODE_CACHE_CAPACITY /\ phase' \in {"dispatch", "exec"}
    BY <1>4, <2>1 DEF EnterBlock, TypeOK
  <2> QED
    BY <1>4, <2>2 DEF EnterBlock, TypeOK, Phases, guest, cacheVars, arenaVars
<1>5. CASE BeginBlock
  <2>1. PICK slot \in Slot, head \in Slot :
          /\ cacheLength' = slot /\ arenaHead' = head
          /\ blocks' = [blocks EXCEPT ![slot].first = head, ![slot].length = 0]
    BY <1>5, ZeroType DEF BeginBlock, TypeOK
  <2>2. blocks' \in [Slot -> TranslationBlock]
    BY <2>1, BlockStarts DEF TypeOK
  <2>3. spcToTpc' \in [Address -> Slot] /\ owner' \in [Address -> Address]
    BY <1>5, SlotType DEF BeginBlock, TypeOK
  <2>4. wrapped' \in BOOLEAN
    BY <1>5 DEF BeginBlock, TypeOK
  <2> QED
    BY <1>5, <2>1, <2>2, <2>3, <2>4 DEF BeginBlock, TypeOK, Phases, guest
<1>6. CASE PrecodeInstruction
  <2>1. /\ Precoded(memory, spc) \in Instr
        /\ Length[memory[spc]] \in 0 .. 3
    BY <1>6, PrecodedType DEF PrecodeInstruction, TypeOK
  <2>2. AppendEntry(Precoded(memory, spc))
    BY <1>6 DEF PrecodeInstruction
  <2>3. /\ arena' \in [Slot -> Entries]
        /\ arenaHead' \in Slot
        /\ source' \in [Slot -> Address]
        /\ wrapped' \in BOOLEAN
    BY <2>1, <2>2, AppendType, EntryType
  <2>4. spc' \in Address
    BY <1>6, <2>1, AdvanceType DEF PrecodeInstruction, TypeOK
  <2>5. owner' \in [Address -> Address]
    BY <1>6 DEF PrecodeInstruction, TypeOK
  <2>6. blocks' \in [Slot -> TranslationBlock]
    BY <1>6, BlockLengthened DEF PrecodeInstruction, TypeOK
  <2> QED
    BY <1>6, <2>3, <2>4, <2>5, <2>6 DEF PrecodeInstruction, TypeOK, Phases, guest
<1>7. CASE EndAtTerminator
  <2>1. /\ arena' \in [Slot -> Entries]
        /\ arenaHead' \in Slot
        /\ source' \in [Slot -> Address]
        /\ wrapped' \in BOOLEAN
    BY <1>7, AppendType, EntryType DEF EndAtTerminator, arenaVars, TypeOK
  <2> QED
    BY <1>7, <2>1, FinishType DEF EndAtTerminator, TypeOK, Phases, guest
<1>8. CASE EndAtFailure
  BY <1>8, FinishType DEF EndAtFailure, TypeOK, Phases, guest, arenaVars
<1>9. CASE Execute
  <2>1. arena[ip] \in Instr /\ ip \in Slot
    BY <1>9 DEF Execute, AtInstruction
  <2>2. Writes[arena[ip].op] \in 0 .. 3
    BY <2>1, OpcodeAssumption DEF Instr
  <2> QED
    BY <1>9, <2>1, <2>2 DEF Execute, TypeOK, Phases, cacheVars, arenaVars
<1>10. CASE Return
  BY <1>10, SizeAssumption DEF Return, TypeOK, Phases, guest, cacheVars, arenaVars
<1>11. CASE Crash
  BY <1>11 DEF Crash, TypeOK, Phases, guest, cacheVars, arenaVars
<1>12. CASE Store
  <2>1. PICK s \in Stores[ins.op] : Wrote(s)
    BY <1>12, StoreEffect
  <2>2. memory' \in [Address -> Byte] /\ owner[s[1]] \in Address
    BY <1>12, <2>1, StoresType DEF Wrote, Store, TypeOK, Instr
  <2>3. /\ spcToTpc' \in [Address -> Slot]
        /\ owner' \in [Address -> Address]
        /\ blocks' \in [Slot -> TranslationBlock]
    <3> DEFINE start == owner[s[1]]
    <3>1. start \in Address /\ spcToTpc[start] \in Slot
      BY <2>2 DEF TypeOK
    <3> HIDE DEF start
    <3>2. CASE Drops(start)
      BY <3>1, <3>2, SlotType, InvalidateType, BlockValid DEF Drops, TypeOK
    <3>3. CASE UNCHANGED <<blocks, spcToTpc, owner>>
      BY <3>3 DEF TypeOK
    <3> QED
      BY <2>1, <3>2, <3>3 DEF Wrote, start
  <2>5. todo' \in 0 .. 3
    BY <1>12 DEF Store, TypeOK
  <2> QED
    BY <1>12, <2>2, <2>3, <2>5 DEF Store, TypeOK, arenaVars
<1>13. CASE Retire
  <2>1. ins.len \in 0 .. 3 /\ ip \in Slot
    BY <1>13 DEF Retire, Instr
  <2>2. pc' \in Address
    BY <1>13, <2>1, AdvanceType DEF Retire, TypeOK
  <2>3. ip' \in 0 .. CODE_CACHE_CAPACITY
    BY <1>13, <2>1, SizeAssumption DEF Retire, Slot
  <2> QED
    BY <1>13, <2>2, <2>3 DEF Retire, TypeOK, Phases, cacheVars, arenaVars
<1>14. CASE UNCHANGED vars
  BY <1>14 DEF TypeOK, vars, guest, cacheVars, arenaVars
<1> QED
  BY <1>1, <1>2, <1>3, <1>4, <1>5, <1>6, <1>7, <1>8, <1>9, <1>10, <1>11, <1>12,
     <1>13, <1>14 DEF Next, Done

(* Every run of the engine stays within its types: no index but the        *)
(* instruction pointer leaves its array, and that one by at most one.      *)
THEOREM TypeCorrect == Spec => []TypeOK
<1>1. TypeInv => TypeOK
  BY DEF TypeInv
<1> QED
  BY <1>1, TypeInvInit, TypeInvStep, PTL DEF Spec

-----------------------------------------------------------------------------
(* What the actions that touch the directory and the arena do to them as   *)
(* long as the arena does not wrap.                                        *)
LEMMA NumberTypes ==
    ASSUME TypeOK
    PROVE  /\ CODE_CACHE_CAPACITY \in Nat
           /\ cacheLength \in Nat /\ cacheLength < CODE_CACHE_CAPACITY
           /\ arenaHead \in Nat /\ arenaHead < CODE_CACHE_CAPACITY
           /\ Begun \in Nat /\ BlockLength \in Nat
           /\ \A a \in Address : spcToTpc[a] \in Slot /\ spcToTpc[a] \in Nat
           /\ \A t \in Slot : blocks[t].first \in Nat /\ blocks[t].length \in Nat
<1>1. Slot \subseteq Nat /\ CODE_CACHE_CAPACITY \in Nat
  BY SizeAssumption DEF Slot
<1>2. \A t \in Slot : blocks[t].first \in Nat /\ blocks[t].length \in Nat
  <2> TAKE t \in Slot
  <2>1. blocks[t] \in TranslationBlock
    BY DEF TypeOK
  <2>2. blocks[t].first \in Slot /\ blocks[t].length \in 0 .. CODE_CACHE_CAPACITY
    BY <2>1 DEF TranslationBlock
  <2>3. blocks[t].first \in Nat
    BY <1>1, <2>2
  <2>4. blocks[t].length \in Nat
    BY <1>1, <2>2
  <2> QED
    BY <2>3, <2>4
<1>3. \A t \in Slot : t < CODE_CACHE_CAPACITY
  BY SizeAssumption DEF Slot
<1> QED
  BY <1>1, <1>2, <1>3 DEF TypeOK, Begun, BlockLength

LEMMA AppendEffect ==
    ASSUME TypeOK, NEW entry, AppendEntry(entry), ~wrapped'
    PROVE  /\ ~wrapped /\ arenaHead' = arenaHead + 1
           /\ arena'[arenaHead] = entry /\ source'[arenaHead] = spc
           /\ \A i \in Slot \ {arenaHead} :
                  arena'[i] = arena[i] /\ source'[i] = source[i]
<1>1. ~wrapped /\ arenaHead + 1 # CODE_CACHE_CAPACITY
  BY DEF AppendEntry, TypeOK
<1>2. arenaHead' = arenaHead + 1
  <2>1. arenaHead + 1 < CODE_CACHE_CAPACITY
    BY <1>1, NumberTypes
  <2> QED
    BY <2>1, WrapType DEF AppendEntry, TypeOK
<1> QED
  BY <1>1, <1>2 DEF AppendEntry, TypeOK

(* A new block: behind the others, or after a flush.                       *)
LEMMA BeginEffect ==
    ASSUME TypeInv, ArenaInv, BeginBlock, ~wrapped'
    PROVE  /\ UNCHANGED <<memory, pc, arena, source>>
           /\ phase' = "precode" /\ spc' = pc
           /\ cacheLength' <= arenaHead' /\ ~Mapped(pc)'
           /\ Begun' = arenaHead' /\ BlockLength' = 0
           /\ arenaHead' < CODE_CACHE_CAPACITY - RESERVE
           /\ \A a \in Address : Mapped(a)' =>
                  /\ ~wrapped /\ Mapped(a) /\ spcToTpc'[a] = spcToTpc[a]
                  /\ UNCHANGED <<owner, cacheLength, arenaHead>>
                  /\ spcToTpc[a] < cacheLength
                  /\ blocks'[spcToTpc[a]] = blocks[spcToTpc[a]]
<1> DEFINE slot == IF NearlyFull THEN 0 ELSE cacheLength
           head == IF NearlyFull THEN 0 ELSE arenaHead
<1>1. /\ slot \in Slot /\ head \in Slot
      /\ cacheLength' = slot /\ arenaHead' = head
      /\ blocks' = [blocks EXCEPT ![slot].first = head, ![slot].length = 0]
  BY ZeroType DEF BeginBlock, TypeInv, TypeOK
<1>2. /\ blocks'[slot].first = head /\ blocks'[slot].length = 0
      /\ \A t \in Slot \ {slot} : blocks'[t] = blocks[t]
  BY <1>1, BlockStarts DEF TypeInv, TypeOK
<1>3. UNCHANGED <<memory, pc, arena, source>> /\ phase' = "precode" /\ spc' = pc
  BY DEF BeginBlock, guest
<1>4. CASE NearlyFull
  <2>1. \A a \in Address : spcToTpc'[a] = NO_TPC
    BY <1>4 DEF BeginBlock
  <2> QED
    BY <1>1, <1>2, <1>3, <1>4, <2>1, ReserveType, SizeAssumption
    DEF Mapped, Begun, BlockLength, TypeInv, TypeOK
<1>5. CASE ~NearlyFull
  <2>1. /\ ~wrapped /\ UNCHANGED <<spcToTpc, owner, cacheLength, arenaHead>>
        /\ ~Mapped(pc)
    BY <1>1, <1>5 DEF BeginBlock
  <2>2. arenaHead < CODE_CACHE_CAPACITY - RESERVE
    BY <1>5, ReserveType, SizeAssumption DEF NearlyFull, TypeInv, TypeOK, Slot
  <2>3. cacheLength <= arenaHead
    BY <2>1 DEF ArenaInv
  <2>4. \A a \in Address : Mapped(a) =>
            spcToTpc[a] \in Slot \ {cacheLength} /\ spcToTpc[a] < cacheLength
    BY <2>1 DEF ArenaInv, BlocksDistinct, TypeInv, TypeOK, Slot
  <2> QED
    BY <1>1, <1>2, <1>3, <1>5, <2>1, <2>2, <2>3, <2>4 DEF Mapped, Begun, BlockLength
<1> QED
  BY <1>4, <1>5

(* One more entry of the block in the making; no other block changes.      *)
LEMMA PrecodeEffect ==
    ASSUME TypeInv, ArenaInv, PrecodeInstruction, ~wrapped'
    PROVE  /\ Precoding /\ phase' = "precode"
           /\ UNCHANGED <<memory, pc, spcToTpc, cacheLength>>
           /\ CanPrecode(memory, spc) /\ spc \in Address
           /\ arenaHead \in Slot /\ arenaHead' = arenaHead + 1
           /\ arena'[arenaHead] = Precoded(memory, spc)
           /\ source'[arenaHead] = spc
           /\ \A i \in Slot \ {arenaHead} :
                  arena'[i] = arena[i] /\ source'[i] = source[i]
           /\ spc' = Advance(spc, Length[memory[spc]])
           /\ Begun' = Begun /\ BlockLength' = BlockLength + 1
           /\ \A a \in Address : Mapped(a) =>
                  /\ spcToTpc[a] < cacheLength /\ a # pc
                  /\ blocks'[spcToTpc[a]] = blocks[spcToTpc[a]]
           /\ \A a \in Address \ {pc} : \A b \in Address :
                  owner'[b] = a => owner[b] = a
<1>1. /\ AppendEntry(Precoded(memory, spc))
      /\ phase = "precode" /\ phase' = "precode"
      /\ UNCHANGED <<memory, pc, spcToTpc, cacheLength>>
      /\ CanPrecode(memory, spc)
      /\ spc' = Advance(spc, Length[memory[spc]])
      /\ blocks' = [blocks EXCEPT ![cacheLength].length =
                        IF @ < CODE_CACHE_CAPACITY THEN @ + 1 ELSE @]
  BY DEF PrecodeInstruction, guest
<1>2. /\ ~wrapped /\ arenaHead' = arenaHead + 1
      /\ arena'[arenaHead] = Precoded(memory, spc)
      /\ source'[arenaHead] = spc
      /\ \A i \in Slot \ {arenaHead} :
             arena'[i] = arena[i] /\ source'[i] = source[i]
  BY <1>1, AppendEffect DEF TypeInv
<1>3. BlockLength < CODE_CACHE_CAPACITY
  <2>1. Begun + BlockLength = arenaHead
    BY <1>1, <1>2 DEF ArenaInv, Precoding
  <2> QED
    BY <2>1, NumberTypes DEF TypeInv
<1>4. /\ Begun' = Begun /\ BlockLength' = BlockLength + 1
      /\ \A t \in Slot \ {cacheLength} : blocks'[t] = blocks[t]
  BY <1>1, <1>3, BlockLengthened DEF Begun, BlockLength, TypeInv, TypeOK
<1>5. \A a \in Address : Mapped(a) =>
          /\ spcToTpc[a] \in Slot \ {cacheLength} /\ spcToTpc[a] < cacheLength
          /\ a # pc
  <2>1. /\ ~Mapped(pc)
        /\ \A a \in Address : Mapped(a) => spcToTpc[a] < cacheLength
    BY <1>1, <1>2 DEF ArenaInv, Precoding, BlocksDistinct
  <2> QED
    BY <2>1, NumberTypes DEF TypeInv
<1>6. \A a \in Address \ {pc} : \A b \in Address : owner'[b] = a => owner[b] = a
  BY DEF PrecodeInstruction
<1> QED
  BY <1>1, <1>2, <1>4, <1>5, <1>6 DEF Precoding, TypeInv, TypeOK

(* The block in the making is translated, or nothing was.                  *)
Registers ==
    /\ cacheLength # NO_TPC
    /\ spcToTpc' = [spcToTpc EXCEPT ![pc] = cacheLength]
    /\ cacheLength' = cacheLength + 1 /\ cacheLength' <= arenaHead'
    /\ Begun + BlockLength = arenaHead /\ arenaHead' \in {arenaHead, arenaHead + 1}
    /\ blocks'[cacheLength].first = Begun
    /\ blocks'[cacheLength].length = BlockLength
    /\ blocks'[cacheLength].valid
    /\ \A t \in Slot \ {cacheLength} : blocks'[t] = blocks[t]

LEMMA EndEffect ==
    ASSUME TypeInv, ArenaInv, EndAtTerminator \/ EndAtFailure, ~wrapped'
    PROVE  /\ Precoding /\ phase' # "precode"
           /\ UNCHANGED <<memory, pc, owner>>
           /\ \A i \in Slot : i < arenaHead =>
                  arena'[i] = arena[i] /\ source'[i] = source[i]
           /\ \/ BlockLength = 0 /\ UNCHANGED <<spcToTpc, blocks, cacheLength, arenaHead>>
              \/ BlockLength > 0 /\ Registers
<1>1. /\ FinishBlock /\ phase = "precode"
      /\ \/ AppendEntry(Dispatcher) /\ BlockLength > 0
         \/ UNCHANGED arenaVars
  BY DEF EndAtTerminator, EndAtFailure
<1>2. /\ ~wrapped /\ arenaHead' \in {arenaHead, arenaHead + 1}
      /\ BlockLength = 0 => arenaHead' = arenaHead
      /\ \A i \in Slot : i < arenaHead => arena'[i] = arena[i] /\ source'[i] = source[i]
  <2>1. CASE AppendEntry(Dispatcher) /\ BlockLength > 0
    <3>1. /\ ~wrapped /\ arenaHead' = arenaHead + 1
          /\ \A i \in Slot \ {arenaHead} :
                 arena'[i] = arena[i] /\ source'[i] = source[i]
      BY <2>1, AppendEffect DEF TypeInv
    <3> QED
      BY <2>1, <3>1, NumberTypes DEF TypeInv
  <2>2. CASE UNCHANGED arenaVars
    BY <2>2 DEF arenaVars
  <2> QED
    BY <1>1, <2>1, <2>2
<1>3. phase' # "precode" /\ UNCHANGED <<memory, pc, owner>>
  BY <1>1 DEF FinishBlock, guest
<1>4. /\ cacheLength <= Begun /\ Begun < CODE_CACHE_CAPACITY - RESERVE
      /\ Begun + BlockLength = arenaHead
  BY <1>1, <1>2 DEF ArenaInv, Precoding
<1>5. /\ cacheLength \in Nat /\ Begun \in Nat /\ BlockLength \in Nat /\ arenaHead \in Nat
      /\ arenaHead < CODE_CACHE_CAPACITY
  BY NumberTypes DEF TypeInv
<1>6. CASE BlockLength = 0
  BY <1>1, <1>2, <1>3, <1>6 DEF FinishBlock, Precoding
<1>7. CASE BlockLength > 0
  <2>1. /\ blocks' = [blocks EXCEPT ![cacheLength].valid = TRUE]
        /\ spcToTpc' = [spcToTpc EXCEPT ![pc] = cacheLength]
        /\ cacheLength' = (cacheLength + 1) % CODE_CACHE_CAPACITY
    BY <1>1, <1>7 DEF FinishBlock
  <2>2. cacheLength + 1 < CODE_CACHE_CAPACITY
    BY <1>4, <1>5, ReserveType, SizeAssumption
  <2>3. cacheLength' = cacheLength + 1 /\ cacheLength # NO_TPC
    <3>1. cacheLength \in Slot
      BY DEF TypeInv, TypeOK
    <3> QED
      BY <1>5, <2>1, <2>2, <3>1, WrapType, SizeAssumption DEF NO_TPC
  <2>4. cacheLength' <= arenaHead'
    BY <1>2, <1>4, <1>5, <1>7, <2>3
  <2>5. /\ blocks'[cacheLength].first = Begun
        /\ blocks'[cacheLength].length = BlockLength
        /\ blocks'[cacheLength].valid
        /\ \A t \in Slot \ {cacheLength} : blocks'[t] = blocks[t]
    BY <2>1, BlockValid DEF Begun, BlockLength, TypeInv, TypeOK
  <2> QED
    BY <1>1, <1>2, <1>3, <1>4, <1>7, <2>1, <2>3, <2>4, <2>5 DEF Registers, Precoding
<1> QED
  BY <1>5, <1>6, <1>7

(* A write drops at most one block, and none that is still translated owns *)
(* the byte: the other translations do not change.                         *)
LEMMA StoreKeeps ==
    ASSUME TypeInv, ArenaInv, Store, ~wrapped
    PROVE  /\ phase' # "precode" /\ UNCHANGED <<arenaVars, cacheLength>>
           /\ \A a \in Address : Mapped(a)' =>
                  /\ Mapped(a) /\ spcToTpc'[a] = spcToTpc[a]
                  /\ blocks'[spcToTpc[a]] = blocks[spcToTpc[a]]
           /\ \E s \in Address \X Byte :
                  /\ memory' \in [Address -> Byte]
                  /\ \A b \in Address \ {s[1]} : memory'[b] = memory[b]
                  /\ \A a \in Address \ {NO_OWNER} : Mapped(a)' =>
                         /\ owner[s[1]] # a
                         /\ \A b \in Address : owner'[b] = a => owner[b] = a
<1>1. phase' # "precode" /\ UNCHANGED <<arenaVars, cacheLength>> /\ ins \in Instr
  BY DEF Store, TypeInv
<1>2. PICK s \in Stores[ins.op] : Wrote(s)
  BY StoreEffect
<1>3. /\ s \in Address \X Byte /\ memory' \in [Address -> Byte]
      /\ \A b \in Address \ {s[1]} : memory'[b] = memory[b]
  BY <1>1, <1>2, StoresType, OpcodeAssumption DEF Wrote, TypeInv, TypeOK, Instr
<1> DEFINE start == owner[s[1]]
<1>4. start \in Address /\ spcToTpc[start] \in Slot
  BY <1>3 DEF TypeInv, TypeOK
<1>5. /\ Drops(start) \/ UNCHANGED <<blocks, spcToTpc, owner>>
      /\ ~Drops(start) => start = NO_OWNER \/ ~Mapped(start)
  BY <1>2 DEF Wrote
<1> HIDE DEF start
<1>6. CASE Drops(start)
  <2>1. /\ spcToTpc'[start] = NO_TPC
        /\ \A a \in Address \ {start} : spcToTpc'[a] = spcToTpc[a]
        /\ \A t \in Slot \ {spcToTpc[start]} : blocks'[t] = blocks[t]
    BY <1>4, <1>6, BlockValid DEF Drops, TypeInv, TypeOK
  <2>2. \A a \in Address : Mapped(a)' => a # start /\ Mapped(a)
    BY <2>1 DEF Mapped
  <2>3. \A a \in Address : Mapped(a)' => spcToTpc[a] \in Slot \ {spcToTpc[start]}
    BY <1>4, <1>6, <2>2 DEF Drops, ArenaInv, BlocksDistinct, TypeInv, TypeOK
  <2>4. \A a \in Address \ {NO_OWNER} : \A b \in Address : owner'[b] = a => owner[b] = a
    BY <1>6 DEF Drops, InvalidateOwnership
  <2> QED
    BY <1>1, <1>3, <2>1, <2>2, <2>3, <2>4 DEF start
<1>7. CASE UNCHANGED <<blocks, spcToTpc, owner>> /\ ~Drops(start)
  BY <1>1, <1>3, <1>5, <1>7 DEF Mapped, start
<1> QED
  BY <1>5, <1>6, <1>7

(* All other steps leave the directory and the arena alone, and take place *)
(* outside precode_block.                                                  *)
Translates ==
    BeginBlock \/ PrecodeInstruction \/ EndAtTerminator \/ EndAtFailure

LEMMA OthersKeepCache ==
    ASSUME [Next]_vars, ~Translates, ~Store
    PROVE  /\ UNCHANGED <<cacheVars, arenaVars>>
           /\ phase' = "precode" => UNCHANGED vars
           /\ Push \/ memory' = memory
BY DEF Next, Translates, FetchTerminator, Push, RetireTerminator, EnterBlock,
       Execute, Return, Crash, Retire, Done, vars, guest, cacheVars, arenaVars

-----------------------------------------------------------------------------
(* Where blocks lie.  BlocksDistinct is a statement about the directory m, *)
(* the blocks bs, their number n and the arena's head h.                   *)
Reach(block) == block.first .. block.first + block.length - 1

Distinct(m, bs, n, h) ==
    \A a \in Address : m[a] # NO_TPC =>
        /\ m[a] < n
        /\ \A i \in Reach(bs[m[a]]) : i < h
        /\ \A b \in Address : m[b] # NO_TPC /\ a # b =>
               m[a] # m[b] /\ Reach(bs[m[a]]) \cap Reach(bs[m[b]]) = {}

LEMMA DistinctIsBlocksDistinct ==
    /\ BlocksDistinct <=>
           (~wrapped => Distinct(spcToTpc, blocks, cacheLength, arenaHead))
    /\ BlocksDistinct' <=>
           (~wrapped' => Distinct(spcToTpc', blocks', cacheLength', arenaHead'))
BY DEF BlocksDistinct, Distinct, Mapped, Extent, Reach

LEMMA ReachType ==
    ASSUME NEW block \in TranslationBlock
    PROVE  Reach(block) \subseteq Nat
<1>1. block.first \in Slot /\ block.length \in 0 .. CODE_CACHE_CAPACITY
  BY DEF TranslationBlock
<1>2. block.first \in Nat
  BY <1>1, SizeAssumption DEF Slot
<1>3. block.length \in Nat
  BY <1>1, SizeAssumption
<1> QED
  BY <1>2, <1>3 DEF Reach

(* Translations may be dropped and others left as they are.                *)
LEMMA DistinctKeeps ==
    ASSUME NEW m \in [Address -> Slot], NEW bs \in [Slot -> TranslationBlock],
           NEW n \in Nat, NEW h \in Nat, Distinct(m, bs, n, h),
           NEW m2, NEW bs2, NEW n2 \in Nat, NEW h2 \in Nat,
           \A a \in Address : m2[a] # NO_TPC =>
               /\ m[a] # NO_TPC /\ m2[a] = m[a]
               /\ Reach(bs2[m[a]]) = Reach(bs[m[a]])
               /\ n <= n2 /\ h <= h2
    PROVE  Distinct(m2, bs2, n2, h2)
<1> SUFFICES ASSUME NEW a \in Address, m2[a] # NO_TPC
             PROVE  /\ m2[a] < n2
                    /\ \A i \in Reach(bs2[m2[a]]) : i < h2
                    /\ \A b \in Address : m2[b] # NO_TPC /\ a # b =>
                           /\ m2[a] # m2[b]
                           /\ Reach(bs2[m2[a]]) \cap Reach(bs2[m2[b]]) = {}
  BY DEF Distinct
<1>1. /\ m[a] < n /\ n <= n2 /\ h <= h2
      /\ \A i \in Reach(bs[m[a]]) : i < h
      /\ \A b \in Address : m[b] # NO_TPC /\ a # b =>
             m[a] # m[b] /\ Reach(bs[m[a]]) \cap Reach(bs[m[b]]) = {}
  BY DEF Distinct
<1>2. m[a] \in Nat
  BY SizeAssumption DEF Slot
<1>3. \A i \in Reach(bs[m[a]]) : i \in Nat
  BY ReachType
<1>4. \A i \in Reach(bs[m[a]]) : i < h2
  BY <1>1, <1>3
<1> QED
  BY <1>1, <1>2, <1>4

(* A block behind all others may be added.                                 *)
LEMMA DistinctAdds ==
    ASSUME NEW m \in [Address -> Slot], NEW bs \in [Slot -> TranslationBlock],
           NEW n \in Slot, NEW h \in Nat, Distinct(m, bs, n, h),
           NEW p \in Address, NEW bs2, NEW h2 \in Nat, h <= h2,
           \A t \in Slot \ {n} : bs2[t] = bs[t],
           NEW f \in Nat, Reach(bs2[n]) = f .. h - 1,
           \A a \in Address : m[a] # NO_TPC => \A i \in Reach(bs[m[a]]) : i < f
    PROVE  Distinct([m EXCEPT ![p] = n], bs2, n + 1, h2)
<1> DEFINE m2 == [m EXCEPT ![p] = n]
<1>1. n \in Nat /\ \A a \in Address : m[a] \in Nat
  BY SizeAssumption DEF Slot
<1>2. /\ m2[p] = n
      /\ \A a \in Address \ {p} : m2[a] = m[a]
  OBVIOUS
<1> HIDE DEF m2
<1>3. \A a \in Address \ {p} : m2[a] # NO_TPC =>
          /\ m[a] # NO_TPC /\ m[a] < n
          /\ bs2[m2[a]] = bs[m[a]]
          /\ \A i \in Reach(bs[m[a]]) : i < f /\ i < h /\ i \in Nat
  BY <1>1, <1>2, ReachType DEF Distinct
<1>4. \A a \in Address : m2[a] # NO_TPC => m2[a] < n + 1
  BY <1>1, <1>2, <1>3
<1>5. \A a \in Address : m2[a] # NO_TPC => \A i \in Reach(bs2[m2[a]]) : i < h2
  <2>1. \A i \in Reach(bs2[n]) : i < h2
    <3>1. \A i \in f .. h - 1 : i < h2
      OBVIOUS
    <3> QED
      BY <3>1
  <2>2. \A a \in Address \ {p} : m2[a] # NO_TPC => \A i \in Reach(bs2[m2[a]]) : i < h2
    <3> SUFFICES ASSUME NEW a \in Address \ {p}, m2[a] # NO_TPC,
                        NEW i \in Reach(bs[m[a]])
                 PROVE  i < h2
      BY <1>3
    <3>1. i < h /\ i \in Nat
      BY <1>3
    <3> QED
      BY <3>1
  <2> QED
    BY <1>2, <2>1, <2>2
<1>6. \A a \in Address \ {p} : m2[a] # NO_TPC =>
          m2[a] # n /\ Reach(bs2[m2[a]]) \cap Reach(bs2[n]) = {}
  BY <1>1, <1>2, <1>3
<1>7. \A a, b \in Address \ {p} : m2[a] # NO_TPC /\ m2[b] # NO_TPC /\ a # b =>
          m2[a] # m2[b] /\ Reach(bs2[m2[a]]) \cap Reach(bs2[m2[b]]) = {}
  <2>1. \A a, b \in Address : m[a] # NO_TPC /\ m[b] # NO_TPC /\ a # b =>
            m[a] # m[b] /\ Reach(bs[m[a]]) \cap Reach(bs[m[b]]) = {}
    BY DEF Distinct
  <2> QED
    BY <1>2, <1>3, <2>1
<1>8. \A a, b \in Address : m2[a] # NO_TPC /\ m2[b] # NO_TPC /\ a # b =>
          m2[a] # m2[b] /\ Reach(bs2[m2[a]]) \cap Reach(bs2[m2[b]]) = {}
  BY <1>2, <1>6, <1>7
<1> QED
  BY <1>4, <1>5, <1>8 DEF Distinct, m2

LEMMA ArenaInvInit == Init => ArenaInv
BY DEF Init, ArenaInv, BlocksDistinct, Precoding, Mapped

LEMMA ArenaInvStep == TypeInv /\ ArenaInv /\ [Next]_vars => ArenaInv'
<1> SUFFICES ASSUME TypeInv, ArenaInv, [Next]_vars, ~wrapped'
             PROVE  ArenaInv'
  BY DEF ArenaInv, BlocksDistinct, Precoding
<1>0. /\ spcToTpc \in [Address -> Slot] /\ blocks \in [Slot -> TranslationBlock]
      /\ cacheLength \in Slot /\ cacheLength \in Nat /\ cacheLength' \in Nat
      /\ arenaHead \in Nat /\ arenaHead' \in Nat /\ Begun \in Nat /\ BlockLength \in Nat
      /\ pc \in Address
  <2>1. TypeInv'
    BY TypeInvStep
  <2>2. cacheLength' \in Nat /\ arenaHead' \in Nat
    BY <2>1, SizeAssumption DEF TypeInv, TypeOK, Slot
  <2>3. /\ spcToTpc \in [Address -> Slot] /\ blocks \in [Slot -> TranslationBlock]
        /\ cacheLength \in Slot /\ pc \in Address
    BY DEF TypeInv, TypeOK
  <2> QED
    BY <2>2, <2>3, NumberTypes DEF TypeInv
<1>1. CASE BeginBlock
  <2>1. /\ phase' = "precode"
        /\ cacheLength' <= arenaHead' /\ ~Mapped(pc)' /\ pc' = pc
        /\ Begun' = arenaHead' /\ BlockLength' = 0
        /\ arenaHead' < CODE_CACHE_CAPACITY - RESERVE
        /\ \A a \in Address : Mapped(a)' =>
               /\ ~wrapped /\ Mapped(a) /\ spcToTpc'[a] = spcToTpc[a]
               /\ UNCHANGED <<owner, cacheLength, arenaHead>>
               /\ blocks'[spcToTpc[a]] = blocks[spcToTpc[a]]
    BY <1>1, BeginEffect
  <2>2. Distinct(spcToTpc', blocks', cacheLength', arenaHead')
    <3>1. CASE ~wrapped
      <4>1. Distinct(spcToTpc, blocks, cacheLength, arenaHead)
        BY <3>1, DistinctIsBlocksDistinct DEF ArenaInv
      <4>2. \A a \in Address : spcToTpc'[a] # NO_TPC =>
                /\ spcToTpc[a] # NO_TPC /\ spcToTpc'[a] = spcToTpc[a]
                /\ Reach(blocks'[spcToTpc[a]]) = Reach(blocks[spcToTpc[a]])
                /\ cacheLength <= cacheLength' /\ arenaHead <= arenaHead'
        BY <1>0, <2>1 DEF Mapped
      <4> QED
        BY <1>0, <4>1, <4>2, DistinctKeeps
    <3>2. CASE wrapped
      BY <2>1, <3>2 DEF Distinct, Mapped
    <3> QED
      BY <3>1, <3>2
  <2>3. \A a \in Address : Mapped(a)' => \A i \in Extent(spcToTpc[a])' : i < Begun'
    BY <2>1, <2>2 DEF Distinct, Mapped, Extent, Reach
  <2> QED
    BY <1>0, <2>1, <2>2, <2>3, DistinctIsBlocksDistinct DEF ArenaInv, Precoding
<1>2. CASE PrecodeInstruction
  <2>1. /\ phase = "precode" /\ ~wrapped /\ phase' = "precode"
        /\ UNCHANGED <<pc, spcToTpc, cacheLength>>
        /\ arenaHead' = arenaHead + 1
        /\ Begun' = Begun /\ BlockLength' = BlockLength + 1
        /\ \A a \in Address : Mapped(a) =>
               blocks'[spcToTpc[a]] = blocks[spcToTpc[a]]
    BY <1>2, PrecodeEffect DEF Precoding
  <2>2. Distinct(spcToTpc', blocks', cacheLength', arenaHead')
    <3>1. Distinct(spcToTpc, blocks, cacheLength, arenaHead)
      BY <2>1, DistinctIsBlocksDistinct DEF ArenaInv
    <3>2. \A a \in Address : spcToTpc'[a] # NO_TPC =>
              /\ spcToTpc[a] # NO_TPC /\ spcToTpc'[a] = spcToTpc[a]
              /\ Reach(blocks'[spcToTpc[a]]) = Reach(blocks[spcToTpc[a]])
              /\ cacheLength <= cacheLength' /\ arenaHead <= arenaHead'
      BY <1>0, <2>1 DEF Mapped
    <3> QED
      BY <1>0, <3>1, <3>2, DistinctKeeps
  <2>3. /\ ~Mapped(pc)
        /\ cacheLength <= Begun
        /\ Begun < CODE_CACHE_CAPACITY - RESERVE
        /\ Begun + BlockLength = arenaHead
        /\ \A a \in Address : Mapped(a) => \A i \in Extent(spcToTpc[a]) : i < Begun
    BY <2>1 DEF ArenaInv, Precoding
  <2>4. \A a \in Address : Mapped(a)' => \A i \in Extent(spcToTpc[a])' : i < Begun'
    BY <2>1, <2>3 DEF Mapped, Extent
  <2>5. cacheLength <= arenaHead' /\ Begun + BlockLength' = arenaHead'
    BY <1>0, <2>1, <2>3
  <2> QED
    BY <2>1, <2>2, <2>3, <2>4, <2>5, DistinctIsBlocksDistinct
    DEF ArenaInv, Precoding, Mapped
<1>3. CASE EndAtTerminator \/ EndAtFailure
  <2>1. /\ phase = "precode" /\ ~wrapped /\ phase' # "precode"
        /\ \/ BlockLength = 0 /\ UNCHANGED <<spcToTpc, blocks, cacheLength, arenaHead>>
           \/ Registers
    BY <1>3, EndEffect DEF Precoding
  <2>2. Distinct(spcToTpc, blocks, cacheLength, arenaHead) /\ cacheLength <= arenaHead
    BY <2>1, DistinctIsBlocksDistinct DEF ArenaInv
  <2>3. CASE UNCHANGED <<spcToTpc, blocks, cacheLength, arenaHead>>
    BY <2>1, <2>2, <2>3, DistinctIsBlocksDistinct DEF ArenaInv, Precoding
  <2>4. CASE Registers
    <3>1. Reach(blocks'[cacheLength]) = Begun .. arenaHead - 1
      BY <1>0, <2>4 DEF Registers, Reach
    <3>2. \A a \in Address : spcToTpc[a] # NO_TPC =>
              \A i \in Reach(blocks[spcToTpc[a]]) : i < Begun
      BY <2>1 DEF ArenaInv, Precoding, Mapped, Extent, Reach
    <3>3. arenaHead <= arenaHead' /\ \A t \in Slot \ {cacheLength} : blocks'[t] = blocks[t]
      BY <1>0, <2>4 DEF Registers
    <3>4. Distinct([spcToTpc EXCEPT ![pc] = cacheLength], blocks', cacheLength + 1, arenaHead')
      BY <1>0, <2>2, <3>1, <3>2, <3>3, DistinctAdds
    <3>5. Distinct(spcToTpc', blocks', cacheLength', arenaHead')
      BY <2>4, <3>4 DEF Registers
    <3> QED
      BY <2>1, <2>4, <3>5, DistinctIsBlocksDistinct DEF ArenaInv, Precoding, Registers
  <2> QED
    BY <2>1, <2>3, <2>4
<1>4. CASE Store
  <2>1. ~wrapped
    BY <1>4 DEF Store, arenaVars
  <2>2. /\ phase' # "precode" /\ UNCHANGED <<arenaHead, cacheLength>>
        /\ \A a \in Address : Mapped(a)' =>
               /\ Mapped(a) /\ spcToTpc'[a] = spcToTpc[a]
               /\ blocks'[spcToTpc[a]] = blocks[spcToTpc[a]]
    BY <1>4, <2>1, StoreKeeps DEF arenaVars
  <2>3. Distinct(spcToTpc, blocks, cacheLength, arenaHead) /\ cacheLength <= arenaHead
    BY <2>1, DistinctIsBlocksDistinct DEF ArenaInv
  <2>4. \A a \in Address : spcToTpc'[a] # NO_TPC =>
            /\ spcToTpc[a] # NO_TPC /\ spcToTpc'[a] = spcToTpc[a]
            /\ Reach(blocks'[spcToTpc[a]]) = Reach(blocks[spcToTpc[a]])
            /\ cacheLength <= cacheLength' /\ arenaHead <= arenaHead'
    BY <1>0, <2>2 DEF Mapped
  <2>5. Distinct(spcToTpc', blocks', cacheLength', arenaHead')
    BY <1>0, <2>3, <2>4, DistinctKeeps
  <2> QED
    BY <2>2, <2>3, <2>5, DistinctIsBlocksDistinct DEF ArenaInv, Precoding
<1>5. CASE ~Translates /\ ~Store
  <2>1. /\ UNCHANGED <<cacheVars, arenaVars>>
        /\ phase' = "precode" => UNCHANGED vars
    BY <1>5, OthersKeepCache
  <2> QED
    BY <2>1 DEF ArenaInv, BlocksDistinct, Precoding, Mapped, Extent, Begun,
       BlockLength, vars, guest, cacheVars, arenaVars
<1> QED
  BY <1>1, <1>2, <1>3, <1>4, <1>5 DEF Translates

(* Until arena_head wraps, translating a block overwrites no slot and no   *)
(* arena entry of another, whatever was translated, dropped or flushed     *)
(* before.                                                                 *)
THEOREM BlocksDistinctCorrect == Spec => []BlocksDistinct
<1>1. ArenaInv => BlocksDistinct
  BY DEF ArenaInv
<1> QED
  BY <1>1, TypeInvInit, TypeInvStep, ArenaInvInit, ArenaInvStep, PTL DEF Spec

(* The arena wraps in precode_block only, and only while it works on a     *)
(* block of at least RESERVE instructions.                                 *)
LEMMA WrapsLate ==
    ASSUME TypeInv, ArenaInv, [Next]_vars, ~wrapped, wrapped'
    PROVE  /\ phase = "precode" /\ BlockLength >= RESERVE
           /\ \/ PrecodeInstruction /\ BlockLength' = BlockLength + 1
              \/ EndAtTerminator
<1>1. /\ phase = "precode" /\ arenaHead + 1 = CODE_CACHE_CAPACITY
      /\ PrecodeInstruction \/ EndAtTerminator
  <2>1. PrecodeInstruction \/ EndAtTerminator
    <3>1. UNCHANGED wrapped => PrecodeInstruction \/ EndAtTerminator
      OBVIOUS
    <3>2. BeginBlock \/ EndAtFailure \/ Store => wrapped' = wrapped \/ ~wrapped'
      BY DEF BeginBlock, EndAtFailure, Store, arenaVars
    <3> QED
      BY <3>1, <3>2, OthersKeepCache DEF Translates, arenaVars
  <2> QED
    BY <2>1 DEF PrecodeInstruction, EndAtTerminator, AppendEntry, arenaVars
<1>2. Begun < CODE_CACHE_CAPACITY - RESERVE /\ Begun + BlockLength = arenaHead
  BY <1>1 DEF ArenaInv, Precoding
<1>3. BlockLength >= RESERVE /\ BlockLength < CODE_CACHE_CAPACITY
  BY <1>1, <1>2, NumberTypes, ReserveType DEF TypeInv
<1>4. ASSUME PrecodeInstruction
      PROVE  BlockLength' = BlockLength + 1
  <2>1. /\ blocks' = [blocks EXCEPT ![cacheLength].length =
                          IF @ < CODE_CACHE_CAPACITY THEN @ + 1 ELSE @]
        /\ cacheLength' = cacheLength
    BY <1>4 DEF PrecodeInstruction
  <2> QED
    BY <1>3, <2>1, BlockLengthened DEF BlockLength, TypeInv, TypeOK
<1> QED
  BY <1>1, <1>3, <1>4

(* Until it has wrapped, arena_head wraps in two cases only: with an       *)
(* instruction of a block that has more than RESERVE, or with the          *)
(* dispatcher entry of a block that has at least RESERVE.  Blocks of fewer *)
(* instructions always fit in what a flush keeps free.                     *)
THEOREM ReserveSufficesCorrect == Spec => ReserveSuffices
<1> DEFINE Late == \/ PrecodeInstruction /\ BlockLength' > RESERVE
                   \/ EndAtTerminator /\ BlockLength >= RESERVE
<1>1. TypeInv /\ ArenaInv /\ [Next]_vars => [~wrapped /\ wrapped' => Late]_vars
  <2> SUFFICES ASSUME TypeInv, ArenaInv, [Next]_vars, ~wrapped, wrapped'
               PROVE  Late
    OBVIOUS
  <2>1. /\ BlockLength >= RESERVE
        /\ \/ PrecodeInstruction /\ BlockLength' = BlockLength + 1
           \/ EndAtTerminator
    BY WrapsLate
  <2>2. BlockLength \in Nat /\ RESERVE \in Nat
    BY NumberTypes, ReserveType DEF TypeInv
  <2>3. BlockLength + 1 > RESERVE
    BY <2>1, <2>2
  <2> QED
    BY <2>1, <2>3
<1> QED
  BY <1>1, TypeInvInit, TypeInvStep, ArenaInvInit, ArenaInvStep, PTL
  DEF Spec, ReserveSuffices

(* RESERVE instructions are one too many: a block of exactly as many that  *)
(* begins on the last entry at which precode_block does not flush takes    *)
(* the last entry of the arena for the way back to the dispatcher.         *)
(* arena_head is then 0, all other blocks are still in the directory, and  *)
(* the next block is begun there without a flush.                          *)
THEOREM FullBlockWraps ==
    Spec => [][/\ EndAtTerminator /\ ~wrapped
               /\ Begun = CODE_CACHE_CAPACITY - RESERVE - 1 /\ BlockLength = RESERVE
               => /\ wrapped' /\ arenaHead' = 0 /\ ~NearlyFull'
                  /\ \A a \in Address \ {pc} : spcToTpc'[a] = spcToTpc[a]]_vars
<1> DEFINE Full == /\ EndAtTerminator /\ ~wrapped
                   /\ Begun = CODE_CACHE_CAPACITY - RESERVE - 1 /\ BlockLength = RESERVE
           Over == /\ wrapped' /\ arenaHead' = 0 /\ ~NearlyFull'
                   /\ \A a \in Address \ {pc} : spcToTpc'[a] = spcToTpc[a]
<1>1. TypeInv /\ ArenaInv /\ [Next]_vars => [Full => Over]_vars
  <2> SUFFICES ASSUME TypeInv, ArenaInv, Full
               PROVE  Over
    OBVIOUS
  <2>1. phase = "precode" /\ BlockLength > 0 /\ AppendEntry(Dispatcher) /\ FinishBlock
    BY ReserveType DEF EndAtTerminator
  <2>2. Begun + BlockLength = arenaHead
    BY <2>1 DEF ArenaInv, Precoding
  <2>3. arenaHead + 1 = CODE_CACHE_CAPACITY
    BY <2>2, NumberTypes, ReserveType DEF TypeInv
  <2>4. wrapped' /\ arenaHead' = (arenaHead + 1) % CODE_CACHE_CAPACITY
    BY <2>1, <2>3 DEF AppendEntry
  <2>5. arenaHead' = 0
    BY <2>3, <2>4, SizeAssumption
  <2>6. ~NearlyFull'
    BY <2>5, ReserveType, SizeAssumption DEF NearlyFull
  <2>7. \A a \in Address \ {pc} : spcToTpc'[a] = spcToTpc[a]
    BY <2>1 DEF FinishBlock, TypeInv, TypeOK
  <2> QED
    BY <2>4, <2>5, <2>6, <2>7
<1> QED
  BY <1>1, TypeInvInit, TypeInvStep, ArenaInvInit, ArenaInvStep, PTL DEF Spec

-----------------------------------------------------------------------------
(* A translation there is after a step was there before, entry for entry,  *)
(* unless the step is the one that ends the making of its block.           *)
Kept(a) ==
    /\ Mapped(a) /\ spcToTpc'[a] = spcToTpc[a]
    /\ blocks'[spcToTpc[a]] = blocks[spcToTpc[a]]
    /\ \A i \in Extent(spcToTpc[a]) :
           i \in Slot /\ arena'[i] = arena[i] /\ source'[i] = source[i]

Made(a) ==
    /\ a = pc /\ Precoding /\ Registers /\ BlockLength > 0
    /\ UNCHANGED <<memory, pc, owner>>
    /\ \A i \in Slot : i < arenaHead => arena'[i] = arena[i] /\ source'[i] = source[i]

LEMMA ExtentBelowHead ==
    ASSUME TypeInv, ArenaInv, ~wrapped, NEW a \in Address, Mapped(a)
    PROVE  \A i \in Extent(spcToTpc[a]) : i \in Slot /\ i < arenaHead
<1>1. \A i \in Extent(spcToTpc[a]) : i < arenaHead
  BY DEF ArenaInv, BlocksDistinct
<1>2. \A i \in Extent(spcToTpc[a]) : i \in Nat
  BY NumberTypes DEF Extent, TypeInv
<1> QED
  BY <1>1, <1>2, NumberTypes DEF TypeInv, Slot

LEMMA KeptOrMade ==
    ASSUME TypeInv, ArenaInv, [Next]_vars, ~wrapped', NEW a \in Address, Mapped(a)'
    PROVE  ~wrapped /\ (Kept(a) \/ Made(a))
<1>1. CASE BeginBlock
  <2>1. /\ ~wrapped /\ Mapped(a) /\ spcToTpc'[a] = spcToTpc[a]
        /\ blocks'[spcToTpc[a]] = blocks[spcToTpc[a]]
        /\ UNCHANGED <<arena, source>>
    BY <1>1, BeginEffect
  <2> QED
    BY <2>1, ExtentBelowHead DEF Kept
<1>2. CASE PrecodeInstruction
  <2>1. /\ ~wrapped /\ UNCHANGED spcToTpc
        /\ \A i \in Slot \ {arenaHead} : arena'[i] = arena[i] /\ source'[i] = source[i]
        /\ Mapped(a) => blocks'[spcToTpc[a]] = blocks[spcToTpc[a]]
    BY <1>2, PrecodeEffect DEF Precoding
  <2>2. Mapped(a)
    BY <2>1 DEF Mapped
  <2>3. \A i \in Extent(spcToTpc[a]) : i \in Slot \ {arenaHead}
    BY <2>1, <2>2, ExtentBelowHead, NumberTypes DEF TypeInv
  <2> QED
    BY <2>1, <2>2, <2>3 DEF Kept
<1>3. CASE EndAtTerminator \/ EndAtFailure
  <2>1. /\ Precoding /\ ~wrapped /\ UNCHANGED <<memory, pc, owner>>
        /\ \A i \in Slot : i < arenaHead =>
               arena'[i] = arena[i] /\ source'[i] = source[i]
        /\ \/ BlockLength = 0 /\ UNCHANGED <<spcToTpc, blocks, cacheLength, arenaHead>>
           \/ BlockLength > 0 /\ Registers
    BY <1>3, EndEffect DEF Precoding
  <2>2. CASE UNCHANGED <<spcToTpc, blocks, cacheLength, arenaHead>>
    BY <2>1, <2>2, ExtentBelowHead DEF Kept, Mapped
  <2>3. CASE BlockLength > 0 /\ Registers /\ a = pc
    BY <2>1, <2>3 DEF Made
  <2>4. CASE Registers /\ a # pc
    <3>1. spcToTpc'[a] = spcToTpc[a] /\ Mapped(a)
      BY <2>4 DEF Registers, Mapped, TypeInv, TypeOK
    <3>2. spcToTpc[a] < cacheLength
      BY <2>1, <3>1 DEF ArenaInv, BlocksDistinct
    <3>3. spcToTpc[a] \in Slot \ {cacheLength}
      BY <3>2, NumberTypes DEF TypeInv
    <3>4. blocks'[spcToTpc[a]] = blocks[spcToTpc[a]]
      BY <2>4, <3>3 DEF Registers
    <3> QED
      BY <2>1, <3>1, <3>4, ExtentBelowHead DEF Kept
  <2> QED
    BY <2>1, <2>2, <2>3, <2>4
<1>4. CASE Store
  <2>1. ~wrapped /\ UNCHANGED <<arena, source>>
    BY <1>4 DEF Store, arenaVars
  <2>2. /\ Mapped(a) /\ spcToTpc'[a] = spcToTpc[a]
        /\ blocks'[spcToTpc[a]] = blocks[spcToTpc[a]]
    BY <1>4, <2>1, StoreKeeps
  <2> QED
    BY <2>1, <2>2, ExtentBelowHead DEF Kept
<1>5. CASE ~Translates /\ ~Store
  <2>1. UNCHANGED <<cacheVars, arenaVars>>
    BY <1>5, OthersKeepCache
  <2>2. ~wrapped /\ Mapped(a)
    BY <2>1 DEF cacheVars, arenaVars, Mapped
  <2> QED
    BY <2>1, <2>2, ExtentBelowHead DEF Kept, cacheVars, arenaVars
<1> QED
  BY <1>1, <1>2, <1>3, <1>4, <1>5 DEF Translates

(* The extent of a block just made is what precode_block has filled.       *)
LEMMA MadeExtent ==
    ASSUME TypeInv, ArenaInv, NEW a \in Address, Made(a)
    PROVE  /\ spcToTpc'[a] = cacheLength
           /\ Extent(spcToTpc[a])' = Begun .. arenaHead - 1
           /\ blocks'[spcToTpc'[a]].first = Begun
           /\ blocks'[spcToTpc'[a]].length > 0
           /\ blocks'[spcToTpc'[a]].valid
           /\ Begun \in Nat /\ arenaHead \in Nat /\ Begun < arenaHead
           /\ \A i \in Begun .. arenaHead - 1 :
                  i \in Slot /\ arena'[i] = arena[i] /\ source'[i] = source[i]
<1>1. spcToTpc'[a] = cacheLength
  BY DEF Made, Registers, TypeInv, TypeOK
<1>2. /\ blocks'[cacheLength].first = Begun
      /\ blocks'[cacheLength].length = BlockLength
      /\ blocks'[cacheLength].valid
      /\ Begun + BlockLength = arenaHead /\ BlockLength > 0
  BY DEF Made, Registers
<1>3. /\ Begun \in Nat /\ BlockLength \in Nat /\ arenaHead \in Nat
      /\ arenaHead < CODE_CACHE_CAPACITY
  BY NumberTypes DEF TypeInv
<1>4. Begun + BlockLength - 1 = arenaHead - 1 /\ Begun < arenaHead
  BY <1>2, <1>3
<1>5. Extent(spcToTpc[a])' = Begun .. arenaHead - 1
  BY <1>1, <1>2, <1>4 DEF Extent
<1>6. \A i \in Begun .. arenaHead - 1 : i \in Slot /\ i < arenaHead
  BY <1>3, SizeAssumption DEF Slot
<1> QED
  BY <1>1, <1>2, <1>3, <1>4, <1>5, <1>6 DEF Made

-----------------------------------------------------------------------------
(* How blocks run.                                                         *)
Runnable(a) ==
    LET block == blocks[spcToTpc[a]]
    IN  /\ block.valid /\ block.length > 0
        /\ source[block.first] = a
        /\ \A i \in Extent(spcToTpc[a]) : i + 1 \in Extent(spcToTpc[a]) => Linked(i)

LEMMA RunnableKept ==
    ASSUME TypeInv, NEW a \in Address, Kept(a), Runnable(a)
    PROVE  Runnable(a)'
<1>1. blocks[spcToTpc[a]].first \in Extent(spcToTpc[a])
  BY NumberTypes DEF Runnable, Extent, TypeInv
<1>2. Extent(spcToTpc[a])' = Extent(spcToTpc[a])
  BY DEF Kept, Extent
<1> QED
  BY <1>1, <1>2 DEF Kept, Runnable, Linked

LEMMA RunnableMade ==
    ASSUME TypeInv, ArenaInv, ChainInv, NEW a \in Address, Made(a)
    PROVE  Runnable(a)'
<1>1. /\ Extent(spcToTpc[a])' = Begun .. arenaHead - 1
      /\ blocks'[spcToTpc'[a]].first = Begun
      /\ blocks'[spcToTpc'[a]].length > 0
      /\ blocks'[spcToTpc'[a]].valid
      /\ Begun \in Nat /\ arenaHead \in Nat /\ Begun < arenaHead
      /\ \A i \in Begun .. arenaHead - 1 :
             i \in Slot /\ arena'[i] = arena[i] /\ source'[i] = source[i]
  BY MadeExtent
<1>2. /\ source[Begun] = a
      /\ \A i \in Begun .. arenaHead - 2 : Linked(i)
  BY DEF Made, ChainInv
<1>3. source'[Begun] = a
  BY <1>1, <1>2
<1>4. ASSUME NEW i \in Begun .. arenaHead - 1, i + 1 \in Begun .. arenaHead - 1
      PROVE  Linked(i)'
  <2>1. i \in Begun .. arenaHead - 2
    BY <1>1, <1>4
  <2> QED
    BY <1>1, <1>2, <1>4, <2>1 DEF Linked
<1> QED
  BY <1>1, <1>3, <1>4 DEF Runnable

LEMMA ChainInvInit == Init => ChainInv
BY DEF Init, ChainInv, MappedIsRunnable, Precoding, Mapped

LEMMA ChainInvStep == TypeInv /\ ArenaInv /\ ChainInv /\ [Next]_vars => ChainInv'
<1> SUFFICES ASSUME TypeInv, ArenaInv, ChainInv, [Next]_vars, ~wrapped'
             PROVE  ChainInv'
  BY DEF ChainInv, MappedIsRunnable, Precoding
<1>1. MappedIsRunnable'
  <2>1. ASSUME NEW a \in Address, Mapped(a)'
        PROVE  Runnable(a)'
    <3>1. CASE Kept(a)
      <4>1. Runnable(a)
        BY <2>1, <3>1, KeptOrMade DEF ChainInv, MappedIsRunnable, Runnable, Linked, Kept
      <4> QED
        BY <3>1, <4>1, RunnableKept
    <3> QED
      BY <2>1, <3>1, KeptOrMade, RunnableMade
  <2> QED
    BY <2>1 DEF MappedIsRunnable, Runnable, Linked
<1>2. CASE BeginBlock
  BY <1>1, <1>2, BeginEffect DEF ChainInv
<1>3. CASE PrecodeInstruction
  <2>1. /\ Precoding /\ UNCHANGED pc
        /\ CanPrecode(memory, spc) /\ spc \in Address
        /\ arenaHead \in Slot /\ arenaHead' = arenaHead + 1
        /\ arena'[arenaHead] = Precoded(memory, spc)
        /\ source'[arenaHead] = spc
        /\ \A i \in Slot \ {arenaHead} :
               arena'[i] = arena[i] /\ source'[i] = source[i]
        /\ spc' = Advance(spc, Length[memory[spc]])
        /\ Begun' = Begun /\ BlockLength' = BlockLength + 1
    BY <1>3, PrecodeEffect
  <2>2. /\ Begun \in Nat /\ BlockLength \in Nat /\ arenaHead \in Nat
        /\ arenaHead < CODE_CACHE_CAPACITY /\ Begun + BlockLength = arenaHead
    BY <2>1, NumberTypes DEF TypeInv, ArenaInv
  <2>3. arenaHead' - 1 = arenaHead /\ BlockLength' # 0
    BY <2>1, <2>2
  <2>4. spc' = Advance(source'[arenaHead], arena'[arenaHead].len)
    BY <2>1, PrecodedType DEF TypeInv, TypeOK
  <2>5. \A i \in Begun .. arenaHead - 1 : i \in Slot \ {arenaHead}
    BY <2>2, SizeAssumption DEF Slot
  <2>6. CASE BlockLength = 0
    <3>1. Begun = arenaHead /\ spc = pc
      BY <2>1, <2>2, <2>6 DEF ChainInv
    <3>2. Begun' .. arenaHead' - 2 = {}
      BY <2>1, <2>2, <3>1
    <3> QED
      BY <1>1, <2>1, <2>3, <2>4, <3>1, <3>2 DEF ChainInv
  <2>7. CASE BlockLength # 0
    <3>1. /\ source[Begun] = pc
          /\ spc = Advance(source[arenaHead - 1], arena[arenaHead - 1].len)
          /\ \A i \in Begun .. arenaHead - 2 : Linked(i)
      BY <2>1, <2>7 DEF ChainInv
    <3>2. Begun \in Begun .. arenaHead - 1 /\ arenaHead - 1 \in Begun .. arenaHead - 1
      BY <2>2, <2>7
    <3>3. source'[Begun] = pc
      BY <2>1, <2>5, <3>1, <3>2
    <3>4. ASSUME NEW i \in Begun .. arenaHead - 1
          PROVE  Linked(i)'
      <4>1. arena'[i] = arena[i] /\ source'[i] = source[i]
        BY <2>1, <2>5
      <4>2. CASE i = arenaHead - 1
        BY <2>1, <2>2, <3>1, <4>1, <4>2 DEF Linked
      <4>3. CASE i # arenaHead - 1
        <5>1. i \in Begun .. arenaHead - 2 /\ i + 1 \in Begun .. arenaHead - 1
          BY <2>2, <4>3
        <5> QED
          BY <2>1, <2>5, <3>1, <4>1, <5>1 DEF Linked
      <4> QED
        BY <4>2, <4>3
    <3>5. Begun' .. arenaHead' - 2 = Begun .. arenaHead - 1
      BY <2>1, <2>2
    <3> QED
      BY <1>1, <2>1, <2>3, <2>4, <3>3, <3>4, <3>5 DEF ChainInv
  <2> QED
    BY <2>6, <2>7
<1>4. CASE EndAtTerminator \/ EndAtFailure
  BY <1>1, <1>4, EndEffect DEF ChainInv, Precoding
<1>5. CASE Store
  BY <1>1, <1>5, StoreKeeps DEF ChainInv, Precoding, Store, arenaVars
<1>6. CASE ~Translates /\ ~Store
  <2>1. phase' = "precode" => UNCHANGED vars
    BY <1>6, OthersKeepCache
  <2> QED
    BY <1>1, <2>1 DEF ChainInv, Precoding, BlockLength, Begun, Linked,
       vars, guest, cacheVars, arenaVars
<1> QED
  BY <1>2, <1>3, <1>4, <1>5, <1>6 DEF Translates

(* Until the arena wraps the dispatcher finds a valid block behind every   *)
(* translated address, and the block is the instructions from there on, in *)
(* their order: it neither spins nor enters a block in the middle.         *)
THEOREM MappedIsRunnableCorrect == Spec => []MappedIsRunnable
<1>1. ChainInv => MappedIsRunnable
  BY DEF ChainInv
<1> QED
  BY <1>1, TypeInvInit, TypeInvStep, ArenaInvInit, ArenaInvStep, ChainInvInit,
     ChainInvStep, PTL DEF Spec

-----------------------------------------------------------------------------
(* Currency.  The premise of OwnedIsCurrent: every byte of an instruction  *)
(* belongs to the block, and none can be pushed to.                        *)
Guarded(a, i) ==
    \A b \in Span(source[i], arena[i].len) :
        b \in Address /\ owner[b] = a /\ b \notin Pushable

LEMMA OwnedAsCurrent ==
    OwnedIsCurrent <=>
        (~wrapped => \A a \in Address \ {NO_OWNER} : Mapped(a) =>
            \A i \in Extent(spcToTpc[a]) : Guarded(a, i) => Current(i))
BY DEF OwnedIsCurrent, Guarded, Current

(* No step gives a byte to a block that was there before.                  *)
LEMMA OwnersKept ==
    ASSUME TypeInv, ArenaInv, [Next]_vars, ~wrapped', ~wrapped,
           NEW a \in Address \ {NO_OWNER}, Mapped(a)', Kept(a)
    PROVE  \A b \in Address : owner'[b] = a => owner[b] = a
<1>1. CASE BeginBlock
  BY <1>1, BeginEffect
<1>2. CASE PrecodeInstruction
  BY <1>2, PrecodeEffect DEF Kept
<1>3. CASE EndAtTerminator \/ EndAtFailure
  BY <1>3, EndEffect
<1>4. CASE Store
  BY <1>4, StoreKeeps
<1>5. CASE ~Translates /\ ~Store
  BY <1>5, OthersKeepCache DEF cacheVars
<1> QED
  BY <1>1, <1>2, <1>3, <1>4, <1>5 DEF Translates

(* No step changes a byte of a guarded instruction of a block that is      *)
(* still translated afterwards.                                            *)
LEMMA GuardedBytesKept ==
    ASSUME TypeInv, ArenaInv, [Next]_vars, ~wrapped', ~wrapped,
           NEW a \in Address \ {NO_OWNER}, Mapped(a)',
           NEW i, Guarded(a, i)
    PROVE  /\ memory' \in [Address -> Byte]
           /\ \A b \in Span(source[i], arena[i].len) : memory'[b] = memory[b]
<1>1. memory' \in [Address -> Byte]
  BY TypeInvStep DEF TypeInv, TypeOK
<1>2. CASE Push
  <2>1. PICK s \in Stores[ins.op] : memory' = [memory EXCEPT ![s[1]] = s[2]]
    BY <1>2 DEF Push
  <2>2. ins.op \in Valid /\ Flow[ins.op] # "next"
    BY <1>2 DEF Push, TypeInv, Instr
  <2>3. s[1] \in Pushable
    BY <2>1, <2>2 DEF Pushable
  <2> QED
    BY <1>1, <2>1, <2>2, <2>3, StoresType DEF Guarded, TypeInv, TypeOK
<1>3. CASE Store
  <2>1. PICK s \in Address \X Byte :
          /\ \A b \in Address \ {s[1]} : memory'[b] = memory[b]
          /\ owner[s[1]] # a
    BY <1>3, StoreKeeps
  <2> QED
    BY <1>1, <2>1 DEF Guarded
<1>4. CASE ~Push /\ ~Store
  <2>1. memory' = memory
    BY <1>4, OthersKeepCache
    DEF Translates, BeginBlock, PrecodeInstruction, EndAtTerminator, EndAtFailure,
        FinishBlock, guest
  <2> QED
    BY <1>1, <2>1
<1> QED
  BY <1>2, <1>3, <1>4

LEMMA CurrencyInvInit == Init => CurrencyInv
BY DEF Init, CurrencyInv, OwnedIsCurrent, Precoding, Mapped

LEMMA CurrencyInvStep ==
    TypeInv /\ ArenaInv /\ CurrencyInv /\ [Next]_vars => CurrencyInv'
<1> SUFFICES ASSUME TypeInv, ArenaInv, CurrencyInv, [Next]_vars, ~wrapped'
             PROVE  CurrencyInv'
  BY DEF CurrencyInv, OwnedIsCurrent, Precoding
<1>1. OwnedIsCurrent'
  <2>1. ASSUME NEW a \in Address \ {NO_OWNER}, Mapped(a)',
               NEW i \in Extent(spcToTpc[a])', Guarded(a, i)'
        PROVE  Current(i)'
    <3>1. CASE Kept(a)
      <4>1. /\ ~wrapped /\ Mapped(a) /\ i \in Extent(spcToTpc[a])
            /\ i \in Slot /\ arena'[i] = arena[i] /\ source'[i] = source[i]
        BY <2>1, <3>1, KeptOrMade DEF Kept, Extent
      <4>2. Guarded(a, i)
        BY <2>1, <3>1, <4>1, OwnersKept DEF Guarded
      <4>3. Current(i)
        BY <4>1, <4>2, OwnedAsCurrent DEF CurrencyInv
      <4>4. /\ memory' \in [Address -> Byte]
            /\ \A b \in Span(source[i], arena[i].len) : memory'[b] = memory[b]
        BY <2>1, <4>1, <4>2, GuardedBytesKept
      <4>5. source[i] \in Address /\ memory \in [Address -> Byte]
        BY <4>1 DEF TypeInv, TypeOK
      <4>6. arena[i].len = Length[memory[source[i]]]
        BY <4>3, <4>5, PrecodedType DEF Current
      <4> QED
        BY <4>1, <4>3, <4>4, <4>5, <4>6, PrecodedAgree DEF Current
    <3>2. CASE Made(a)
      <4>1. /\ i \in Begun .. arenaHead - 1
            /\ arena'[i] = arena[i] /\ source'[i] = source[i]
        BY <2>1, <3>2, MadeExtent
      <4>2. Current(i)
        BY <3>2, <4>1 DEF Made, CurrencyInv
      <4> QED
        BY <3>2, <4>1, <4>2 DEF Made, Current
    <3> QED
      BY <2>1, <3>1, <3>2, KeptOrMade
  <2> QED
    BY <2>1 DEF OwnedIsCurrent, Guarded, Current
<1>2. CASE BeginBlock
  <2>1. Begun' .. arenaHead' - 1 = {}
    <3>1. TypeInv'
      BY TypeInvStep
    <3>2. arenaHead' \in Int
      BY <3>1, SizeAssumption DEF TypeInv, TypeOK, Slot
    <3>3. Begun' = arenaHead'
      BY <1>2, BeginEffect
    <3>4. \A i \in Int : i .. i - 1 = {}
      OBVIOUS
    <3> QED
      BY <3>2, <3>3, <3>4
  <2> QED
    BY <1>1, <2>1 DEF CurrencyInv
<1>3. CASE PrecodeInstruction
  <2>1. /\ Precoding /\ UNCHANGED memory
        /\ CanPrecode(memory, spc)
        /\ arenaHead' = arenaHead + 1
        /\ arena'[arenaHead] = Precoded(memory, spc)
        /\ source'[arenaHead] = spc
        /\ \A i \in Slot \ {arenaHead} :
               arena'[i] = arena[i] /\ source'[i] = source[i]
        /\ Begun' = Begun
    BY <1>3, PrecodeEffect
  <2>2. /\ Begun \in Nat /\ arenaHead \in Nat /\ arenaHead < CODE_CACHE_CAPACITY
    BY NumberTypes DEF TypeInv
  <2>3. ASSUME NEW i \in Begun .. arenaHead
        PROVE  Current(i)'
    <3>1. CASE i = arenaHead
      BY <2>1, <3>1 DEF Current
    <3>2. CASE i # arenaHead
      <4>1. i \in Begun .. arenaHead - 1 /\ i \in Slot \ {arenaHead}
        BY <2>2, <3>2, SizeAssumption DEF Slot
      <4> QED
        BY <2>1, <4>1 DEF Current, CurrencyInv
    <3> QED
      BY <3>1, <3>2
  <2>4. Begun' .. arenaHead' - 1 = Begun .. arenaHead
    BY <2>1, <2>2
  <2> QED
    BY <1>1, <2>3, <2>4 DEF CurrencyInv
<1>4. CASE EndAtTerminator \/ EndAtFailure
  BY <1>1, <1>4, EndEffect DEF CurrencyInv, Precoding
<1>5. CASE Store
  BY <1>1, <1>5, StoreKeeps DEF CurrencyInv, Precoding, Store, arenaVars
<1>6. CASE ~Translates /\ ~Store
  <2>1. phase' = "precode" => UNCHANGED vars
    BY <1>6, OthersKeepCache
  <2> QED
    BY <1>1, <2>1 DEF CurrencyInv, Precoding, Begun, Current,
       vars, guest, cacheVars, arenaVars
<1> QED
  BY <1>2, <1>3, <1>4, <1>5, <1>6 DEF Translates

(* Until the arena wraps an instruction of a translated block is the one   *)
(* memory holds, as long as the block owns its bytes and no branch or jump *)
(* pushes to them: block_code_write misses no other write.                 *)
THEOREM OwnedIsCurrentCorrect == Spec => []OwnedIsCurrent
<1>1. CurrencyInv => OwnedIsCurrent
  BY DEF CurrencyInv
<1> QED
  BY <1>1, TypeInvInit, TypeInvStep, ArenaInvInit, ArenaInvStep, CurrencyInvInit,
     CurrencyInvStep, PTL DEF Spec
=============================================================================
