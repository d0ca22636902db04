--------------------------- MODULE ThreadedProofs ---------------------------
(***************************************************************************)
(* What the threaded engine guarantees for every guest, memory size and    *)
(* cache capacity.                                                         *)
(***************************************************************************)
EXTENDS Threaded, GuestProofs

LEMMA BumpType ==
    ASSUME NEW n \in 0 .. 2 * CODE_CACHE_CAPACITY
    PROVE  /\ Bump(n) \in 0 .. 2 * CODE_CACHE_CAPACITY
           /\ n % CODE_CACHE_CAPACITY \in Slot
           /\ n < CODE_CACHE_CAPACITY => n % CODE_CACHE_CAPACITY = n /\ Bump(n) = n + 1
           /\ n >= CODE_CACHE_CAPACITY => Bump(n) > CODE_CACHE_CAPACITY
BY SizeAssumption DEF Bump, Slot

-----------------------------------------------------------------------------
(* Type correctness.  TypeOK alone is not inductive: a handler that writes *)
(* or leaves looks up the tables of isa.h at ins.op.                       *)
TypeInv ==
    /\ TypeOK
    /\ phase \in {"busy", "reprecode"} => ins \in Instr

LEMMA CacheInstructionType ==
    ASSUME TypeOK, NEW s \in Address, NEW tpc \in Slot,
           CanPrecode(memory, s), CacheInstruction(s, tpc)
    PROVE  /\ cache' \in [Slot -> Instr \cup {NoInstr}]
           /\ owner' \in [Address -> Address]
           /\ spcToTpc' \in [Address -> Slot]
           /\ Length[memory[s]] \in 1 .. 3
<1>1. /\ Precoded(memory, s) \in Instr
      /\ Length[memory[s]] \in 1 .. 3
  BY PrecodedType DEF TypeOK
<1>2. ClaimOwnership(owner, s, Length[memory[s]]) \in [Address -> Address]
  BY <1>1, ClaimType DEF TypeOK
<1> QED
  BY <1>1, <1>2 DEF CacheInstruction, TypeOK

LEMMA TypeInvStep == TypeInv /\ [Next]_vars => TypeInv'
<1> SUFFICES ASSUME TypeInv, [Next]_vars
             PROVE  TypeInv'
  OBVIOUS
<1> USE DEF TypeInv
<1>1. CASE BatchStep
  <2>1. FreeSlot \in Slot /\ Bump(cacheLength) \in 0 .. 2 * CODE_CACHE_CAPACITY
    BY BumpType DEF FreeSlot, TypeOK
  <2>2. /\ cache' \in [Slot -> Instr \cup {NoInstr}]
        /\ owner' \in [Address -> Address]
        /\ spcToTpc' \in [Address -> Slot]
        /\ Length[memory[spc]] \in 1 .. 3
    BY <1>1, <2>1, CacheInstructionType DEF BatchStep, BatchFull, TypeOK
  <2>3. spc' \in Address
    BY <1>1, <2>2, AdvanceType DEF BatchStep, BatchFull, TypeOK
  <2> QED
    BY <1>1, <2>1, <2>2, <2>3 DEF BatchStep, BatchFull, TypeOK, Phases, guest
<1>2. CASE BatchEnd
  BY <1>2, SlotType DEF BatchEnd, TypeOK, Phases, guest
<1>3. CASE Start
  BY <1>3, ZeroType DEF Start, Dispatch, TypeOK, Phases, guest, directory
<1>4. CASE Resume
  BY <1>4, ZeroType DEF Resume, Dispatch, TypeOK, Phases, guest, directory
<1>5. CASE Execute
  <2>1. cache[ip] \in Instr
    BY <1>5 DEF Execute, TypeOK
  <2>2. Writes[cache[ip].op] \in 0 .. 3
    BY <2>1, OpcodeAssumption DEF Instr
  <2> QED
    BY <1>5, <2>1, <2>2 DEF Execute, TypeOK, Phases, directory
<1>6. CASE Store
  <2>1. PICK s \in Stores[ins.op] :
          /\ memory' = [memory EXCEPT ![s[1]] = s[2]]
          /\ IF owner[s[1]] = NO_OWNER
             THEN UNCHANGED <<phase, spc>>
             ELSE phase' = "reprecode" /\ spc' = owner[s[1]]
    BY <1>6 DEF Store
  <2>2. s[1] \in Address /\ s[2] \in Byte
    BY <1>6, OpcodeAssumption DEF Store, Instr
  <2>3. memory' \in [Address -> Byte] /\ spc' \in Address
    BY <2>1, <2>2 DEF TypeOK
  <2> QED
    BY <1>6, <2>1, <2>3 DEF Store, TypeOK, Phases, directory
<1>7. CASE Retire
  <2>1. cache[ip].len \in 0 .. 3
    BY DEF TypeOK, Instr, NoInstr
  <2>2. NextPcs(Flow[ins.op], pc, cache[ip].len) \subseteq Address
    BY <2>1, NextPcsType DEF TypeOK
  <2> QED
    BY <1>7, <2>2 DEF Retire, TypeOK, Phases, directory
<1>8. CASE Reprecode
  <2>1. /\ ReprecodeSlot \in Slot
        /\ LengthAfterAlloc \in 0 .. 2 * CODE_CACHE_CAPACITY
    BY BumpType DEF ReprecodeSlot, LengthAfterAlloc, FreeSlot, TypeOK
  <2>2. /\ cache' \in [Slot -> Instr \cup {NoInstr}]
        /\ owner' \in [Address -> Address]
        /\ spcToTpc' \in [Address -> Slot]
        /\ Length[memory[spc]] \in 1 .. 3
    BY <1>8, <2>1, CacheInstructionType DEF Reprecode, TypeOK
  <2>3. Advance(spc, Length[memory[spc]]) \in Address
    BY <2>2, AdvanceType DEF TypeOK
  <2> QED
    BY <1>8, <2>1, <2>2, <2>3, ZeroType DEF Reprecode, TypeOK, Phases, guest
<1>9. CASE ReprecodeFails
  <2>1. LengthAfterAlloc \in 0 .. 2 * CODE_CACHE_CAPACITY
    BY BumpType DEF LengthAfterAlloc, TypeOK
  <2> QED
    BY <1>9, <2>1, SlotType, ZeroType DEF ReprecodeFails, TypeOK, Phases, guest
<1>10. CASE ReprecodeFull
  BY <1>10, ZeroType DEF ReprecodeFull, TypeOK, Phases, guest, directory
<1>11. CASE Done
  BY <1>11 DEF Done, TypeOK, vars, guest, directory
<1>12. CASE UNCHANGED vars
  BY <1>12 DEF TypeOK, vars, guest, directory
<1> QED
  BY <1>1, <1>2, <1>3, <1>4, <1>5, <1>6, <1>7, <1>8, <1>9, <1>10, <1>11, <1>12
  DEF Next

LEMMA TypeInvInit == Init => TypeInv
<1>1. 0 \in Slot /\ Entry \in Address /\ 0 \in 0 .. 2 * CODE_CACHE_CAPACITY
  BY SizeAssumption DEF Slot
<1>2. memory \in Images => memory \in [Address -> Byte]
  BY ProgramAssumption
<1> SUFFICES ASSUME Init
             PROVE  TypeInv
  OBVIOUS
<1>3. /\ spcToTpc \in [Address -> Slot]
      /\ owner \in [Address -> Address]
      /\ cache \in [Slot -> Instr \cup {NoInstr}]
  BY SlotType DEF Init
<1>4. phase \in Phases /\ grown \in BOOLEAN
  BY DEF Init, Phases
<1>5. phase \notin {"busy", "reprecode"}
  BY DEF Init
<1> QED
  BY <1>1, <1>2, <1>3, <1>4, <1>5 DEF Init, TypeInv, TypeOK

(* Every run of the engine stays within its types: no counter or index     *)
(* leaves its array, and a handler only ever reads the tables at valid     *)
(* opcodes.                                                                *)
THEOREM TypeCorrect == Spec => []TypeOK
<1>1. TypeInv => TypeOK
  BY DEF TypeInv
<1> QED
  BY <1>1, TypeInvInit, TypeInvStep, PTL DEF Spec

-----------------------------------------------------------------------------
(* No handler is entered through an empty slot.  While precode_batch runs  *)
(* the address it started from has been translated as soon as cache_length *)
(* has grown, and it stays translated: memory does not change meanwhile.   *)
Batching == phase \in {"boot", "booted", "batch", "batched"}

FillInv ==
    /\ \A a \in Address : Mapped(a) => cache[spcToTpc[a]] # NoInstr
    /\ ~Batching => ~grown
    /\ Batching /\ ~grown /\ phase \in {"boot", "batch"} => spc = pc
    /\ Batching /\ grown => CanPrecode(memory, pc) /\ cache[spcToTpc[pc]] # NoInstr
    /\ NeverEmpty

LEMMA CacheInstructionFills ==
    ASSUME TypeOK, NEW s \in Address, NEW tpc \in Slot,
           CanPrecode(memory, s), CacheInstruction(s, tpc)
    PROVE  /\ \A t \in Slot : cache[t] # NoInstr => cache'[t] # NoInstr
           /\ cache'[tpc] # NoInstr
           /\ \A t \in Slot \ {tpc} : cache'[t] = cache[t]
           /\ cache'[tpc] = Precoded(memory, s)
           /\ spcToTpc'[s] = tpc
           /\ \A a \in Address \ {s} : spcToTpc'[a] = spcToTpc[a]
<1>1. Precoded(memory, s) # NoInstr
  BY PrecodedType, NoInstrType DEF TypeOK
<1> QED
  BY <1>1 DEF CacheInstruction, TypeOK

LEMMA FillInvInit == Init => FillInv
BY DEF Init, FillInv, NeverEmpty, Mapped, Batching

LEMMA FillInvStep == TypeInv /\ FillInv /\ [Next]_vars => FillInv'
<1> SUFFICES ASSUME TypeInv, FillInv, [Next]_vars
             PROVE  FillInv'
  OBVIOUS
<1> USE DEF TypeInv
<1>1. CASE BatchStep
  <2>1. FreeSlot \in Slot
    BY BumpType DEF FreeSlot, TypeOK
  <2>2. CanPrecode(memory, spc) /\ CacheInstruction(spc, FreeSlot) /\ spc \in Address
    BY <1>1 DEF BatchStep, BatchFull, TypeOK
  <2>3. /\ \A t \in Slot : cache[t] # NoInstr => cache'[t] # NoInstr
        /\ cache'[FreeSlot] # NoInstr
        /\ spcToTpc'[spc] = FreeSlot
        /\ \A a \in Address \ {spc} : spcToTpc'[a] = spcToTpc[a]
    BY <2>1, <2>2, CacheInstructionFills
  <2>4. (\A a \in Address : Mapped(a) => cache[spcToTpc[a]] # NoInstr)'
    BY <2>3 DEF Mapped, FillInv, TypeOK
  <2>5. /\ phase \in {"boot", "batch"} /\ Batching /\ Batching'
        /\ grown' = TRUE /\ UNCHANGED <<memory, pc>>
    BY <1>1 DEF BatchStep, BatchFull, Batching, guest
  <2>6. CanPrecode(memory, pc) /\ cache'[spcToTpc'[pc]] # NoInstr
    <3>1. CASE pc = spc
      BY <3>1, <2>2, <2>3
    <3>2. CASE pc # spc
      BY <3>2, <2>3, <2>5 DEF FillInv, TypeOK
    <3> QED
      BY <3>1, <3>2
  <2>7. NeverEmpty'
    BY <2>5 DEF NeverEmpty, Batching
  <2> QED
    BY <2>4, <2>5, <2>6, <2>7 DEF FillInv, CanPrecode
<1>2. CASE BatchEnd
  <2>1. grown => pc # spc
    BY <1>2 DEF BatchEnd, FillInv, Batching
  <2>2. /\ Batching /\ Batching' /\ phase' \notin {"boot", "batch"}
        /\ grown' = grown /\ UNCHANGED <<memory, pc, cache>>
        /\ \A a \in Address \ {spc} : spcToTpc'[a] = spcToTpc[a]
        /\ spcToTpc'[spc] = NO_TPC
    BY <1>2 DEF BatchEnd, Batching, guest, TypeOK
  <2> QED
    BY <2>1, <2>2 DEF FillInv, NeverEmpty, Batching, Mapped, TypeOK, CanPrecode
<1>3. CASE Start
  <2>1. /\ UNCHANGED <<guest, directory>> /\ ~Batching' /\ grown' = FALSE
        /\ phase' \in {"exec", "busy", "reprecode"} =>
               Mapped(pc) /\ ip' = spcToTpc[pc]
    BY <1>3 DEF Start, Dispatch, Batching
  <2> QED
    BY <2>1 DEF FillInv, NeverEmpty, Mapped, TypeOK, guest, directory
<1>4. CASE Resume
  <2>1. /\ UNCHANGED <<guest, directory>> /\ ~Batching' /\ grown' = FALSE
        /\ phase' \in {"exec", "busy", "reprecode"} => grown /\ ip' = spcToTpc[pc]
        /\ Batching
    BY <1>4 DEF Resume, Dispatch, Batching
  <2> QED
    BY <2>1 DEF FillInv, NeverEmpty, Mapped, TypeOK, guest, directory
<1>5. CASE Execute
  BY <1>5 DEF Execute, FillInv, NeverEmpty, Mapped, Batching, directory
<1>6. CASE Store
  <2>1. /\ phase = "busy" /\ phase' \in {"busy", "reprecode"}
        /\ UNCHANGED <<directory, grown, ip>>
    BY <1>6 DEF Store
  <2> QED
    BY <2>1 DEF FillInv, NeverEmpty, Mapped, Batching, directory
<1>7. CASE Retire
  <2>1. /\ phase = "busy" /\ ~grown /\ grown' = grown /\ UNCHANGED directory
        /\ \/ phase' = "halted"
           \/ phase' = "batch" /\ spc' = pc'
           \/ phase' = "exec" /\ ip' = spcToTpc[pc'] /\ spcToTpc[pc'] # NO_TPC
    BY <1>7 DEF Retire, FillInv, Batching
  <2>2. pc' \in Address
    BY TypeInvStep DEF TypeOK
  <2> QED
    BY <2>1, <2>2 DEF FillInv, NeverEmpty, Mapped, Batching, directory
<1>8. CASE Reprecode
  <2>1. ReprecodeSlot \in Slot
    BY BumpType DEF ReprecodeSlot, FreeSlot, TypeOK
  <2>2. CanPrecode(memory, spc) /\ CacheInstruction(spc, ReprecodeSlot) /\ spc \in Address
    BY <1>8 DEF Reprecode, TypeOK
  <2>3. /\ \A t \in Slot : cache[t] # NoInstr => cache'[t] # NoInstr
        /\ cache'[ReprecodeSlot] # NoInstr
        /\ spcToTpc'[spc] = ReprecodeSlot
        /\ \A a \in Address \ {spc} : spcToTpc'[a] = spcToTpc[a]
    BY <2>1, <2>2, CacheInstructionFills
  <2>4. /\ phase = "reprecode" /\ phase' \in {"busy", "reprecode"}
        /\ UNCHANGED <<grown, ip>>
    BY <1>8 DEF Reprecode
  <2> QED
    BY <2>3, <2>4 DEF FillInv, NeverEmpty, Mapped, Batching, TypeOK
<1>9. CASE ReprecodeFails
  <2>1. /\ phase = "reprecode" /\ phase' = "busy" /\ UNCHANGED <<cache, grown, ip>>
        /\ \A a \in Address \ {spc} : spcToTpc'[a] = spcToTpc[a]
        /\ spcToTpc'[spc] = NO_TPC
    BY <1>9 DEF ReprecodeFails, TypeOK
  <2> QED
    BY <2>1 DEF FillInv, NeverEmpty, Mapped, Batching, TypeOK
<1>10. CASE ReprecodeFull
  BY <1>10 DEF ReprecodeFull, FillInv, NeverEmpty, Mapped, Batching, directory
<1>11. CASE UNCHANGED vars
  BY <1>11 DEF FillInv, NeverEmpty, Mapped, Batching, vars, guest, directory
<1> QED
  BY <1>1, <1>2, <1>3, <1>4, <1>5, <1>6, <1>7, <1>8, <1>9, <1>10, <1>11
  DEF Next, Done

(* No handler is ever entered through a slot nothing was translated into,  *)
(* overflow of the cache or not.                                           *)
THEOREM NeverEmptyCorrect == Spec => []NeverEmpty
<1>1. FillInv => NeverEmpty
  BY DEF FillInv
<1> QED
  BY <1>1, TypeInvInit, TypeInvStep, FillInvInit, FillInvStep, PTL DEF Spec

-----------------------------------------------------------------------------
(* Slots.  As long as the cache has not overflowed, one entry of the       *)
(* directory changes at a time, in one of three ways: it is cleared, keeps *)
(* its slot, or takes the slot cache_length stands for, which is counted.  *)
SetsSlot(s, t) ==
    /\ spcToTpc' = [spcToTpc EXCEPT ![s] = t]
    /\ \/ t = NO_TPC /\ cacheLength' \in {cacheLength, Bump(cacheLength)}
       \/ t = spcToTpc[s] /\ Mapped(s) /\ cacheLength' = cacheLength
       \/ t = FreeSlot /\ cacheLength' = Bump(cacheLength)

LEMMA SetsSlotDistinct ==
    ASSUME TypeOK, SlotsDistinct, NEW s \in Address, NEW t \in Slot,
           SetsSlot(s, t), WithinCapacity'
    PROVE  /\ WithinCapacity
           /\ SlotsDistinct'
           /\ \A a \in Address \ {s} :
                  Mapped(a) /\ t # NO_TPC => spcToTpc[a] # t
<1>1. cacheLength \in Nat /\ CODE_CACHE_CAPACITY \in Nat
  BY SizeAssumption DEF TypeOK
<1>2. /\ WithinCapacity
      /\ cacheLength' \in Nat /\ cacheLength' >= cacheLength
      /\ cacheLength' = Bump(cacheLength) =>
             FreeSlot = cacheLength /\ cacheLength' = cacheLength + 1
  BY <1>1, BumpType DEF SetsSlot, WithinCapacity, FreeSlot, TypeOK
<1>3. \A a \in Address : Mapped(a) => spcToTpc[a] \in Nat /\ spcToTpc[a] < cacheLength
  BY <1>2 DEF SlotsDistinct, TypeOK, Slot
<1>4. \A a, b \in Address : Mapped(a) /\ Mapped(b) /\ spcToTpc[a] = spcToTpc[b] => a = b
  BY <1>2 DEF SlotsDistinct
<1>5. \A a \in Address \ {s} : Mapped(a) /\ t # NO_TPC => spcToTpc[a] # t
  <2>1. CASE t = spcToTpc[s] /\ Mapped(s)
    BY <1>4, <2>1
  <2>2. CASE t = FreeSlot /\ cacheLength' = Bump(cacheLength)
    BY <1>1, <1>2, <1>3, <2>2
  <2>3. \/ t = NO_TPC
        \/ t = spcToTpc[s] /\ Mapped(s)
        \/ t = FreeSlot /\ cacheLength' = Bump(cacheLength)
    BY DEF SetsSlot
  <2> QED
    BY <2>1, <2>2, <2>3
<1>6. /\ \A a \in Address \ {s} : spcToTpc'[a] = spcToTpc[a]
      /\ spcToTpc'[s] = t
  BY DEF SetsSlot, TypeOK
<1>7. t # NO_TPC => t < cacheLength'
  BY <1>1, <1>2, <1>3 DEF SetsSlot
<1>8. \A a \in Address : spcToTpc'[a] # NO_TPC => spcToTpc'[a] < cacheLength'
  <2>1. \A a \in Address \ {s} : Mapped(a) => spcToTpc[a] < cacheLength'
    BY <1>1, <1>2, <1>3
  <2> QED
    BY <2>1, <1>6, <1>7 DEF Mapped
<1>9. \A a, b \in Address :
          spcToTpc'[a] # NO_TPC /\ spcToTpc'[b] # NO_TPC
          /\ spcToTpc'[a] = spcToTpc'[b] => a = b
  BY <1>4, <1>5, <1>6 DEF Mapped
<1> QED
  BY <1>2, <1>5, <1>8, <1>9 DEF SlotsDistinct, Mapped

(* The four actions that write to the directory, seen that way.            *)
Writers == BatchStep \/ BatchEnd \/ Reprecode \/ ReprecodeFails

LEMMA WritersSetSlot ==
    ASSUME TypeOK, Writers
    PROVE  \E t \in Slot : SetsSlot(spc, t)
<1>1. FreeSlot \in Slot /\ NO_TPC \in Slot /\ spcToTpc[spc] \in Slot
  BY BumpType, SlotType DEF FreeSlot, TypeOK
<1>2. CASE BatchStep
  BY <1>1, <1>2 DEF BatchStep, BatchFull, CacheInstruction, SetsSlot
<1>3. CASE BatchEnd
  BY <1>1, <1>3 DEF BatchEnd, SetsSlot
<1>4. CASE Reprecode
  BY <1>1, <1>4 DEF Reprecode, CacheInstruction, ReprecodeSlot, LengthAfterAlloc, SetsSlot
<1>5. CASE ReprecodeFails
  BY <1>1, <1>5 DEF ReprecodeFails, LengthAfterAlloc, SetsSlot
<1> QED
  BY <1>2, <1>3, <1>4, <1>5 DEF Writers

LEMMA OthersKeepDirectory ==
    ASSUME [Next]_vars, ~Writers
    PROVE  UNCHANGED directory
BY DEF Next, Writers, Start, Resume, Execute, Store, Retire, ReprecodeFull, Done,
       vars, directory

LEMMA SlotsDistinctStep == TypeInv /\ SlotsDistinct /\ [Next]_vars => SlotsDistinct'
<1> SUFFICES ASSUME TypeInv, SlotsDistinct, [Next]_vars
             PROVE  SlotsDistinct'
  OBVIOUS
<1>1. CASE Writers
  <2>1. spc \in Address /\ \E t \in Slot : SetsSlot(spc, t)
    BY <1>1, WritersSetSlot DEF TypeInv, TypeOK
  <2> QED
    BY <2>1, SetsSlotDistinct DEF TypeInv, SlotsDistinct
<1>2. CASE ~Writers
  BY <1>2, OthersKeepDirectory DEF directory, SlotsDistinct, Mapped, WithinCapacity
<1> QED
  BY <1>1, <1>2

(* Until the cache overflows no two addresses share a slot, and the next   *)
(* slot to be handed out is in nobody's use.                               *)
THEOREM SlotsDistinctCorrect == Spec => []SlotsDistinct
<1>1. Init => SlotsDistinct
  BY DEF Init, SlotsDistinct, Mapped
<1> QED
  BY <1>1, TypeInvInit, TypeInvStep, SlotsDistinctStep, PTL DEF Spec

-----------------------------------------------------------------------------
(* Currency.                                                               *)

(* The translation of a is sound unless a is about to be translated again. *)
Current(a) ==
    Mapped(a) /\ Owns(a, cache[spcToTpc[a]].len) =>
        /\ CanPrecode(memory, a)
        /\ cache[spcToTpc[a]] = Precoded(memory, a)

LEMMA OwnedAsCurrent ==
    OwnedIsCurrent <=>
        (WithinCapacity =>
            \A a \in Address \ {NO_OWNER} : Pending(a) \/ Current(a))
BY DEF OwnedIsCurrent, Current

(* Translating s leaves the translation of s sound, and that of every      *)
(* other address as it was.                                                *)
LEMMA CacheInstructionCurrent ==
    ASSUME TypeOK, NEW s \in Address, NEW t \in Slot,
           CanPrecode(memory, s), CacheInstruction(s, t), memory' = memory,
           NEW a \in Address \ {NO_OWNER},
           a # s => Current(a) /\ (Mapped(a) => spcToTpc[a] # t)
    PROVE  Current(a)'
<1>1. /\ Precoded(memory, s).len = Length[memory[s]]
      /\ Length[memory[s]] \in 1 .. 3
  BY PrecodedType DEF TypeOK
<1>2. /\ \A u \in Slot \ {t} : cache'[u] = cache[u]
      /\ cache'[t] = Precoded(memory, s)
      /\ spcToTpc'[s] = t
      /\ \A b \in Address \ {s} : spcToTpc'[b] = spcToTpc[b]
  BY CacheInstructionFills
<1>3. CASE a = s
  BY <1>2, <1>3 DEF Current
<1>4. CASE a # s
  <2> SUFFICES ASSUME Mapped(a)', Owns(a, cache[spcToTpc[a]].len)'
               PROVE  /\ CanPrecode(memory, a)
                      /\ cache'[spcToTpc'[a]] = Precoded(memory, a)
    BY DEF Current
  <2>1. Mapped(a) /\ cache'[spcToTpc'[a]] = cache[spcToTpc[a]]
    BY <1>2, <1>4 DEF Mapped, TypeOK
  <2>2. \A b \in Address : owner'[b] = a => owner[b] = a
    BY <1>1, <1>4, ClaimGivesNothing DEF CacheInstruction, TypeOK
  <2>3. Owns(a, cache[spcToTpc[a]].len)
    BY <2>1, <2>2 DEF Owns
  <2> QED
    BY <1>4, <2>1, <2>3 DEF Current
<1> QED
  BY <1>3, <1>4

(* So do the steps that clear the directory's entry for s.                 *)
LEMMA ClearedCurrent ==
    ASSUME TypeOK, NEW s \in Address, spcToTpc' = [spcToTpc EXCEPT ![s] = NO_TPC],
           UNCHANGED <<memory, owner, cache>>,
           NEW a \in Address, a # s => Current(a)
    PROVE  Current(a)'
BY DEF Current, Mapped, Owns, TypeOK

(* A write to a byte of an instruction that owns it makes that instruction *)
(* pending; no other instruction that owns its bytes has changed.          *)
LEMMA StoreCurrent ==
    ASSUME TypeInv, Store, NEW a \in Address \ {NO_OWNER}, Current(a)
    PROVE  (Pending(a) \/ Current(a))'
<1> SUFFICES ASSUME ~Pending(a)', Mapped(a)', Owns(a, cache[spcToTpc[a]].len)'
             PROVE  CanPrecode(memory', a) /\ cache'[spcToTpc'[a]] = Precoded(memory', a)
  BY DEF Current
<1>1. PICK s \in Stores[ins.op] :
        /\ memory' = [memory EXCEPT ![s[1]] = s[2]]
        /\ IF owner[s[1]] = NO_OWNER
           THEN UNCHANGED <<phase, spc>>
           ELSE phase' = "reprecode" /\ spc' = owner[s[1]]
  BY DEF Store
<1>2. s[1] \in Address /\ s[2] \in Byte
  BY OpcodeAssumption DEF TypeInv, Store, Instr
<1>3. /\ UNCHANGED <<spcToTpc, owner, cache>>
      /\ memory' \in [Address -> Byte]
      /\ \A b \in Address : b # s[1] => memory'[b] = memory[b]
  BY <1>1, <1>2 DEF Store, directory, TypeInv, TypeOK
<1>4. owner[s[1]] # a
  BY <1>1 DEF Pending
<1>5. CanPrecode(memory, a) /\ cache[spcToTpc[a]] = Precoded(memory, a)
  BY <1>3 DEF Current, Mapped, Owns
<1>6. cache[spcToTpc[a]].len = Length[memory[a]]
  BY <1>5, PrecodedType DEF TypeInv, TypeOK
<1>7. \A b \in Span(a, Length[memory[a]]) : memory'[b] = memory[b]
  BY <1>3, <1>4, <1>6 DEF Owns
<1>8. memory \in [Address -> Byte]
  BY DEF TypeInv, TypeOK
<1> QED
  BY <1>3, <1>5, <1>7, <1>8, PrecodedAgree

LEMMA OwnedIsCurrentStep ==
    TypeInv /\ SlotsDistinct /\ OwnedIsCurrent /\ [Next]_vars => OwnedIsCurrent'
<1> SUFFICES ASSUME TypeInv, SlotsDistinct, OwnedIsCurrent, [Next]_vars,
                    WithinCapacity', NEW a \in Address \ {NO_OWNER}
             PROVE  (Pending(a) \/ Current(a))'
  BY DEF OwnedIsCurrent, Current
<1> USE DEF TypeInv
<1>1. CASE Writers
  <2>1. PICK t \in Slot : SetsSlot(spc, t)
    BY <1>1, WritersSetSlot
  <2>2. spc \in Address /\ t = spcToTpc'[spc]
    BY <2>1 DEF SetsSlot, TypeOK
  <2>3. /\ WithinCapacity
        /\ a # spc /\ Mapped(a) /\ t # NO_TPC => spcToTpc[a] # t
    BY <2>1, <2>2, SetsSlotDistinct
  <2>4. a # spc => Current(a)
    BY <2>3, OwnedAsCurrent DEF Pending
  <2>5. memory' = memory
    BY <1>1 DEF Writers, BatchStep, BatchEnd, Reprecode, ReprecodeFails, guest
  <2>6. CASE BatchStep \/ Reprecode
    <3>1. CanPrecode(memory, spc) /\ CacheInstruction(spc, t)
      BY <2>2, <2>6 DEF BatchStep, BatchFull, Reprecode, CacheInstruction, TypeOK
    <3> QED
      <4>1. a # spc => Current(a) /\ (Mapped(a) => spcToTpc[a] # t)
        BY <2>3, <2>4 DEF Mapped
      <4> QED
        BY <2>1, <2>2, <2>5, <3>1, <4>1, CacheInstructionCurrent
  <2>7. CASE BatchEnd \/ ReprecodeFails
    BY <2>2, <2>4, <2>5, <2>7, ClearedCurrent DEF BatchEnd, ReprecodeFails
  <2> QED
    BY <1>1, <2>6, <2>7 DEF Writers
<1>2. CASE ~Writers
  <2>1. UNCHANGED directory
    BY <1>2, OthersKeepDirectory
  <2>2. WithinCapacity
    BY <2>1 DEF WithinCapacity, directory
  <2>3. CASE Store
    <3>1. Current(a)
      BY <2>2, <2>3, OwnedAsCurrent DEF Store, Pending
    <3> QED
      BY <2>3, <3>1, StoreCurrent
  <2>4. CASE ~Store
    <3>1. memory' = memory /\ (Pending(a) => Pending(a)' \/ ~Mapped(a))
      BY <1>2, <2>4 DEF Next, Writers, Start, Resume, Execute, Retire, ReprecodeFull,
         NoSlotLeft, Done, vars, guest, Pending
    <3> QED
      BY <2>1, <2>2, <3>1, OwnedAsCurrent DEF Current, Mapped, Owns, directory
  <2> QED
    BY <2>3, <2>4
<1> QED
  BY <1>1, <1>2

(* Until the cache overflows, the cached form of every instruction that    *)
(* owns all of its bytes is the one memory holds, whatever the guest       *)
(* writes: the engine sees every write that it can see.                    *)
THEOREM OwnedIsCurrentCorrect == Spec => []OwnedIsCurrent
<1>1. Init => OwnedIsCurrent
  BY DEF Init, OwnedIsCurrent, Mapped
<1> QED
  BY <1>1, TypeInvInit, TypeInvStep, SlotsDistinctCorrect, OwnedIsCurrentStep, PTL
  DEF Spec
=============================================================================
