------------------------- MODULE ThreadedRefinement -------------------------
(***************************************************************************)
(* The threaded engine implements the interpreter, for every guest that    *)
(* keeps the layout of its code and as long as the cache has room.         *)
(***************************************************************************)
EXTENDS ThreadedGuest, ThreadedProofs

(* What the translations say of the code: they are those of instructions   *)
(* of the layout, each owns all of its bytes, and the handler that runs is *)
(* the one of the instruction at pc.                                       *)
LayoutInv ==
    HasRoom =>
        /\ FitsLayout(memory)
        /\ pc \in Starts
        /\ Batching \/ phase = "reprecode" => spc \in Starts
        /\ \A b \in Address : owner[b] \in Starts \cup {NO_OWNER}
        /\ \A a \in Address : Mapped(a) =>
               /\ a \in Starts
               /\ cache[spcToTpc[a]].len = Size[a]
               /\ Owns(a, Size[a])

DispatchInv ==
    HasRoom =>
        /\ Batching /\ grown => Mapped(pc)
        /\ phase \in {"booted", "batched"} /\ ~grown => ~CanPrecode(memory, pc)
        /\ phase = "exec" => Mapped(pc) /\ ip = spcToTpc[pc]
        /\ phase \in {"busy", "reprecode"} =>
               /\ ins.len = Size[pc] /\ cache[ip].len = Size[pc]
               /\ ip < cacheLength
               /\ \A a \in Address : Mapped(a) /\ spcToTpc[a] = ip => a = pc

-----------------------------------------------------------------------------
(* The layout.                                                             *)
LEMMA LayoutFacts ==
    ASSUME NEW m \in [Address -> Byte], FitsLayout(m), NEW s \in Starts
    PROVE  /\ s \in Address /\ s # NO_OWNER
           /\ CanPrecode(m, s) <=> m[s] \in Valid
           /\ CanPrecode(m, s) =>
                  /\ Length[m[s]] = Size[s] /\ Size[s] \in 1 .. 3
                  /\ Advance(s, Size[s]) \in Starts
<1>1. s \in Address /\ s # NO_OWNER
  BY LayoutAssumption
<1>2. ASSUME m[s] \in Valid
      PROVE  /\ Length[m[s]] = Size[s] /\ Size[s] \in 1 .. 3
             /\ s + Size[s] <= MEMORY_SIZE /\ Advance(s, Size[s]) \in Starts
  <2>1. Length[m[s]] = Size[s] /\ Length[m[s]] \in 1 .. 3
    BY <1>2, OpcodeAssumption DEF FitsLayout
  <2> QED
    BY <2>1, LayoutAssumption
<1>3. m[s] \in Valid => s <= MEMORY_SIZE - Length[m[s]]
  BY <1>1, <1>2, SizeAssumption DEF Address
<1> QED
  BY <1>1, <1>2, <1>3 DEF CanPrecode

LEMMA SpansApart ==
    ASSUME NEW s \in Starts, NEW t \in Starts, s # t, NEW b \in Span(s, Size[s])
    PROVE  b \notin Span(t, Size[t])
BY LayoutAssumption

LEMMA SizeType == \A s \in Starts : s \in Nat /\ Size[s] \in 0 .. 3
BY LayoutAssumption DEF Address

(* Room in the cache was there before, and a slot handed out is the one    *)
(* cache_length stands for and not NO_TPC.                                 *)
LEMMA RoomKept ==
    ASSUME TypeInv, [Next]_vars, HasRoom'
    PROVE  /\ HasRoom /\ WithinCapacity /\ WithinCapacity'
           /\ cacheLength \in Nat /\ cacheLength' \in Nat /\ cacheLength <= cacheLength'
           /\ cacheLength' = Bump(cacheLength) =>
                  /\ FreeSlot = cacheLength /\ cacheLength' = cacheLength + 1
                  /\ FreeSlot # NO_TPC
<1>1. /\ CODE_CACHE_CAPACITY \in Nat /\ CODE_CACHE_CAPACITY >= 2
      /\ cacheLength \in 0 .. 2 * CODE_CACHE_CAPACITY
  BY SizeAssumption DEF TypeInv, TypeOK
<1>2. cacheLength' \in {cacheLength, Bump(cacheLength)}
  <2>1. CASE Writers
    BY <2>1, WritersSetSlot DEF SetsSlot, TypeInv
  <2>2. CASE ~Writers
    BY <2>2, OthersKeepDirectory DEF directory
  <2> QED
    BY <2>1, <2>2
<1>3. cacheLength < CODE_CACHE_CAPACITY
  BY <1>1, <1>2 DEF HasRoom, Bump
<1>4. Bump(cacheLength) = cacheLength + 1 /\ FreeSlot = cacheLength
  BY <1>1, <1>3, BumpType DEF FreeSlot
<1> QED
  BY <1>1, <1>2, <1>3, <1>4 DEF HasRoom, WithinCapacity, NO_TPC

(* Translating an instruction of the layout takes no byte from another.    *)
LEMMA TranslationKeepsLayout ==
    ASSUME TypeInv, SlotsDistinct, LayoutInv, HasRoom, HasRoom', [Next]_vars,
           BatchStep \/ Reprecode
    PROVE  /\ \A b \in Address : owner'[b] \in Starts \cup {NO_OWNER}
           /\ \A a \in Address : Mapped(a)' =>
                  /\ a \in Starts
                  /\ cache'[spcToTpc'[a]].len = Size[a]
                  /\ \A b \in Span(a, Size[a]) : b \in Address /\ owner'[b] = a
<1>1. PICK t \in Slot : SetsSlot(spc, t)
  BY WritersSetSlot DEF Writers, TypeInv
<1>2. spc \in Address /\ t = spcToTpc'[spc]
  BY <1>1 DEF SetsSlot, TypeInv, TypeOK
<1>3. CanPrecode(memory, spc) /\ CacheInstruction(spc, t)
  BY <1>2 DEF BatchStep, BatchFull, Reprecode, CacheInstruction, TypeInv, TypeOK
<1>4. /\ spc \in Starts /\ Length[memory[spc]] = Size[spc]
      /\ Size[spc] \in 1 .. 3 /\ spc \in Nat
  <2>1. spc \in Starts /\ FitsLayout(memory)
    BY DEF LayoutInv, BatchStep, Reprecode, Batching
  <2> QED
    BY <1>3, <2>1, LayoutFacts, SizeType DEF TypeInv, TypeOK
<1>5. /\ cache'[t] = Precoded(memory, spc)
      /\ \A u \in Slot \ {t} : cache'[u] = cache[u]
      /\ spcToTpc'[spc] = t
      /\ \A a \in Address \ {spc} : spcToTpc'[a] = spcToTpc[a]
  BY <1>2, <1>3, CacheInstructionFills DEF TypeInv
<1>6. owner' = ClaimOwnership(owner, spc, Size[spc])
  BY <1>3, <1>4 DEF CacheInstruction
<1>7. \A b \in Address : owner'[b] \in Starts \cup {NO_OWNER}
  <2>1. \A b \in Address : owner[b] \in Starts \cup {NO_OWNER}
    BY DEF LayoutInv
  <2> QED
    BY <1>4, <1>6, <2>1 DEF ClaimOwnership, InvalidateOwnership
<1>8. cache'[spcToTpc'[spc]].len = Size[spc]
  BY <1>3, <1>4, <1>5, PrecodedType DEF TypeInv, TypeOK
<1>9. \A b \in Span(spc, Size[spc]) : b \in Address /\ owner'[b] = spc
  <2>1. \A b \in Span(spc, Size[spc]) : b \in Address
    BY <1>3, <1>4, SizeAssumption DEF CanPrecode, Span, Address
  <2> QED
    BY <1>6, <2>1 DEF ClaimOwnership
<1>10. ASSUME NEW a \in Address \ {spc}, Mapped(a)'
       PROVE  /\ a \in Starts
              /\ cache'[spcToTpc'[a]].len = Size[a]
              /\ \A b \in Span(a, Size[a]) : b \in Address /\ owner'[b] = a
  <2>1. Mapped(a) /\ spcToTpc'[a] = spcToTpc[a]
    BY <1>5, <1>10 DEF Mapped
  <2>2. /\ a \in Starts /\ cache[spcToTpc[a]].len = Size[a]
        /\ \A b \in Span(a, Size[a]) : b \in Address /\ owner[b] = a
    BY <2>1 DEF LayoutInv, Owns
  <2>3. spcToTpc[a] \in Slot
    BY DEF TypeInv, TypeOK
  <2>4. spcToTpc[a] # t
    <3>1. t # NO_TPC
      <4>1. CASE t = spcToTpc[spc] /\ Mapped(spc)
        BY <4>1 DEF Mapped
      <4>2. CASE t = FreeSlot /\ cacheLength' = Bump(cacheLength)
        BY <4>2, RoomKept
      <4>3. \/ t = spcToTpc[spc] /\ Mapped(spc)
            \/ t = FreeSlot /\ cacheLength' = Bump(cacheLength)
        BY <1>2 DEF BatchStep, BatchFull, Reprecode, CacheInstruction,
           ReprecodeSlot, LengthAfterAlloc, TypeInv, TypeOK
      <4> QED
        BY <4>1, <4>2, <4>3
    <3> QED
      BY <1>1, <1>2, <2>1, <3>1, RoomKept, SetsSlotDistinct DEF TypeInv
  <2>5. \A b \in Span(a, Size[a]) : b \notin Span(spc, Size[spc])
    BY <1>4, <2>2, SpansApart
  <2>6. \A b \in Span(a, Size[a]) : owner'[b] = a
    <3> TAKE b \in Span(a, Size[a])
    <3>1. b \in Address /\ owner[b] = a /\ b \notin Span(spc, Size[spc])
      BY <2>2, <2>5
    <3>2. owner \in [Address -> Address]
      BY DEF TypeInv, TypeOK
    <3>3. owner[b] # spc
      BY <3>1
    <3>4. ClaimOwnership(owner, spc, Size[spc])[b] = owner[b]
      BY <1>2, <1>4, <3>1, <3>2, <3>3, ClaimKeeps
    <3> QED
      BY <1>6, <3>1, <3>4
  <2> QED
    BY <1>5, <2>1, <2>2, <2>3, <2>4, <2>6
<1> QED
  BY <1>2, <1>4, <1>7, <1>8, <1>9, <1>10

LEMMA LayoutInvInit == Init => LayoutInv
<1> SUFFICES ASSUME Init
             PROVE  LayoutInv
  OBVIOUS
<1>1. FitsLayout(memory) /\ Entry \in Starts
  BY GuestAssumption DEF Init
<1> QED
  BY <1>1 DEF Init, LayoutInv, Mapped

LEMMA LayoutInvStep ==
    TypeInv /\ SlotsDistinct /\ LayoutInv /\ DispatchInv /\ [Next]_vars => LayoutInv'
<1> SUFFICES ASSUME TypeInv, SlotsDistinct, LayoutInv, DispatchInv, [Next]_vars,
                    HasRoom'
             PROVE  LayoutInv'
  BY DEF LayoutInv
<1>1. HasRoom
  BY RoomKept
<1>2. /\ FitsLayout(memory) /\ pc \in Starts
      /\ Batching \/ phase = "reprecode" => spc \in Starts
      /\ \A b \in Address : owner[b] \in Starts \cup {NO_OWNER}
      /\ \A a \in Address : Mapped(a) =>
             /\ a \in Starts
             /\ cache[spcToTpc[a]].len = Size[a]
             /\ Owns(a, Size[a])
  BY <1>1 DEF LayoutInv
<1>3. CASE BatchStep \/ Reprecode
  <2>1. UNCHANGED <<memory, pc>>
    BY <1>3 DEF BatchStep, Reprecode, guest
  <2>2. spc \in Starts /\ CanPrecode(memory, spc)
    BY <1>2, <1>3 DEF BatchStep, Reprecode, Batching
  <2>3. Advance(spc, Length[memory[spc]]) \in Starts
    BY <1>2, <2>2, LayoutFacts DEF TypeInv, TypeOK
  <2>4. Batching' \/ phase' = "reprecode" => spc' \in Starts
    BY <1>3, <2>3 DEF BatchStep, Reprecode, Batching
  <2> QED
    BY <1>1, <1>2, <1>3, <2>1, <2>4, TranslationKeepsLayout DEF LayoutInv, Owns
<1>4. CASE BatchEnd \/ ReprecodeFails
  <2>1. /\ UNCHANGED <<memory, pc, owner, cache>> /\ spc \in Address
        /\ spcToTpc' = [spcToTpc EXCEPT ![spc] = NO_TPC]
        /\ phase' # "reprecode" /\ (Batching' => Batching /\ spc' = spc)
    BY <1>4 DEF BatchEnd, ReprecodeFails, guest, Batching, TypeInv, TypeOK
  <2>2. \A a \in Address : Mapped(a)' => Mapped(a) /\ spcToTpc'[a] = spcToTpc[a]
    BY <2>1 DEF Mapped, TypeInv, TypeOK
  <2> QED
    BY <1>2, <2>1, <2>2 DEF LayoutInv, Owns
<1>5. CASE Store
  <2>1. PICK s \in Stores[ins.op] :
          /\ memory' = [memory EXCEPT ![s[1]] = s[2]]
          /\ IF owner[s[1]] = NO_OWNER
             THEN UNCHANGED <<phase, spc>>
             ELSE phase' = "reprecode" /\ spc' = owner[s[1]]
    BY <1>5 DEF Store
  <2>2. ins.op \in Valid /\ s[1] \in Address
    BY <1>5, OpcodeAssumption DEF Store, TypeInv, Instr
  <2>3. s[1] \in Starts /\ s[2] \in Valid => Length[s[2]] = Size[s[1]]
    BY <2>2, GuestAssumption
  <2>4. FitsLayout(memory')
    BY <1>2, <2>1, <2>3, LayoutAssumption DEF FitsLayout, TypeInv, TypeOK
  <2>5. Batching' \/ phase' = "reprecode" => spc' \in Starts
    BY <1>2, <1>5, <2>1, <2>2 DEF Store, Batching
  <2> QED
    BY <1>2, <1>5, <2>4, <2>5 DEF LayoutInv, Store, directory, Mapped, Owns
<1>6. CASE Retire
  <2>1. pc \in Address /\ phase = "busy"
    BY <1>6 DEF Retire, TypeInv, TypeOK
  <2>2. PICK target \in NextPcs(Flow[ins.op], pc, cache[ip].len) :
          IF Flow[ins.op] = "jmp" /\ target = pc
          THEN phase' = "halted" /\ UNCHANGED <<pc, ip, spc>>
          ELSE /\ pc' = target
               /\ IF spcToTpc[target] = NO_TPC
                  THEN phase' = "batch" /\ spc' = target /\ ip' = ip
                  ELSE phase' = "exec" /\ spc' = spc /\ ip' = spcToTpc[target]
    BY <1>6 DEF Retire
  <2>3. target \in Starts
    <3>1. cache[ip].len = Size[pc] /\ Size[pc] > 0
      BY <1>1, <2>1 DEF DispatchInv, TypeInv, Instr
    <3>2. Advance(pc, Size[pc]) \in Starts /\ Targets \subseteq Starts
      BY <1>2, <3>1, LayoutAssumption, GuestAssumption
    <3> QED
      BY <2>2, <3>1, <3>2 DEF NextPcs
  <2> QED
    BY <1>2, <1>6, <2>2, <2>3 DEF LayoutInv, Retire, directory, Mapped, Owns, Batching
<1>7. CASE ~Writers /\ ~Store /\ ~Retire
  <2>1. UNCHANGED directory /\ UNCHANGED <<memory, pc>>
    BY <1>7, OthersKeepDirectory DEF Next, Writers, Start, Resume, Execute,
       ReprecodeFull, Done, vars, guest
  <2>2. Batching' \/ phase' = "reprecode" =>
            (Batching \/ phase = "reprecode") /\ spc' = spc
    BY <1>7 DEF Next, Writers, Start, Resume, Dispatch, Execute, ReprecodeFull, Done,
       vars, Batching
  <2> QED
    BY <1>2, <2>1, <2>2 DEF LayoutInv, directory, Mapped, Owns
<1> QED
  BY <1>3, <1>4, <1>5, <1>6, <1>7 DEF Writers

-----------------------------------------------------------------------------
(* What is dispatched.                                                     *)
LEMMA DispatchInvInit == Init => DispatchInv
BY DEF Init, DispatchInv

(* Translating or clearing spc leaves the handler that is running alone,   *)
(* but for the slot of the instruction it executes, which keeps its length.*)
LEMMA SweepKeepsRunning ==
    ASSUME TypeInv, SlotsDistinct, LayoutInv, DispatchInv, [Next]_vars,
           HasRoom, HasRoom', Reprecode \/ ReprecodeFails
    PROVE  DispatchInv'
<1>1. PICK t \in Slot : SetsSlot(spc, t)
  BY WritersSetSlot DEF Writers, TypeInv
<1>2. /\ spc \in Address /\ spcToTpc'[spc] = t
      /\ \A a \in Address \ {spc} : spcToTpc'[a] = spcToTpc[a]
  BY <1>1 DEF SetsSlot, TypeInv, TypeOK
<1>3. /\ phase = "reprecode" /\ phase' \in {"busy", "reprecode"}
      /\ UNCHANGED <<memory, pc, ins, ip>>
  BY DEF Reprecode, ReprecodeFails, guest
<1>4. /\ ins.len = Size[pc] /\ cache[ip].len = Size[pc]
      /\ ip < cacheLength /\ ip \in Slot /\ ip \in Nat
      /\ \A a \in Address : Mapped(a) /\ spcToTpc[a] = ip => a = pc
  BY <1>3 DEF DispatchInv, TypeInv, TypeOK, Slot
<1>5. /\ cacheLength \in Nat /\ cacheLength' \in Nat /\ cacheLength <= cacheLength'
      /\ cacheLength' = Bump(cacheLength) => FreeSlot = cacheLength
  BY RoomKept
<1>6. t = ip /\ t # NO_TPC => spc = pc
  BY <1>1, <1>2, <1>4, <1>5 DEF SetsSlot
<1>7. \A a \in Address : Mapped(a)' /\ spcToTpc'[a] = ip => a = pc
  BY <1>2, <1>4, <1>6 DEF Mapped
<1>8. cache'[ip].len = Size[pc]
  <2>1. CASE Reprecode
    <3>1. CanPrecode(memory, spc) /\ CacheInstruction(spc, t)
      BY <1>2, <2>1 DEF Reprecode, CacheInstruction, TypeInv, TypeOK
    <3>2. /\ cache'[t] = Precoded(memory, spc)
          /\ \A u \in Slot \ {t} : cache'[u] = cache[u]
      BY <1>2, <3>1, CacheInstructionFills DEF TypeInv
    <3>3. CASE t = ip
      <4>1. spc = pc
        <5>1. t # NO_TPC
          BY <1>1, <1>2, <1>4, <1>5, <2>1, <3>1, <3>3, RoomKept
          DEF Reprecode, CacheInstruction, ReprecodeSlot, LengthAfterAlloc, Mapped,
              TypeInv, TypeOK
        <5> QED
          BY <1>6, <3>3, <5>1
      <4>2. Length[memory[spc]] = Size[spc]
        BY <1>3, <3>1, LayoutFacts DEF LayoutInv, TypeInv, TypeOK
      <4> QED
        BY <1>2, <3>1, <3>2, <3>3, <4>1, <4>2, PrecodedType DEF TypeInv, TypeOK
    <3> QED
      BY <1>4, <3>2, <3>3
  <2> QED
    BY <1>4, <2>1 DEF ReprecodeFails
<1> QED
  BY <1>3, <1>4, <1>5, <1>7, <1>8 DEF DispatchInv, Batching

LEMMA DispatchInvStep ==
    /\ TypeInv /\ SlotsDistinct /\ FillInv /\ LayoutInv /\ DispatchInv
    /\ [Next]_vars
    => DispatchInv'
<1> SUFFICES ASSUME TypeInv, SlotsDistinct, FillInv, LayoutInv, DispatchInv,
                    [Next]_vars, HasRoom'
             PROVE  DispatchInv'
  BY DEF DispatchInv
<1>1. HasRoom /\ WithinCapacity
  BY RoomKept
<1>2. pc \in Address
  BY DEF TypeInv, TypeOK
<1>3. CASE BatchStep
  <2>1. /\ phase' \in {"boot", "batch", "booted", "batched"} /\ grown' /\ pc' = pc
        /\ spcToTpc' = [spcToTpc EXCEPT ![spc] = FreeSlot]
        /\ cacheLength' = Bump(cacheLength) /\ spc \in Address
        /\ phase \in {"boot", "batch"}
    BY <1>3 DEF BatchStep, BatchFull, CacheInstruction, guest, TypeInv, TypeOK
  <2>2. FreeSlot # NO_TPC
    BY <2>1, RoomKept
  <2>3. spc = pc \/ Mapped(pc)
    BY <1>1, <2>1 DEF DispatchInv, FillInv, Batching
  <2>4. Mapped(pc)'
    BY <1>2, <2>1, <2>2, <2>3 DEF Mapped, TypeInv, TypeOK
  <2> QED
    BY <2>1, <2>4 DEF DispatchInv
<1>4. CASE BatchEnd
  <2>1. /\ phase' \in {"booted", "batched"} /\ UNCHANGED <<grown, pc, memory>>
        /\ ~CanPrecode(memory, spc) /\ spc \in Address
        /\ spcToTpc' = [spcToTpc EXCEPT ![spc] = NO_TPC]
        /\ phase \in {"boot", "batch"}
    BY <1>4 DEF BatchEnd, guest, TypeInv, TypeOK
  <2>2. grown => Mapped(pc) /\ spc # pc
    BY <1>1, <2>1 DEF DispatchInv, FillInv, Batching
  <2>3. ~grown => spc = pc
    BY <2>1 DEF FillInv, Batching
  <2>4. grown => Mapped(pc)'
    BY <1>2, <2>1, <2>2 DEF Mapped, TypeInv, TypeOK
  <2> QED
    BY <2>1, <2>3, <2>4 DEF DispatchInv
<1>5. CASE Start
  BY <1>2, <1>5 DEF Start, Dispatch, DispatchInv, Mapped, Batching, guest, directory
<1>6. CASE Resume
  BY <1>1, <1>6 DEF Resume, Dispatch, DispatchInv, Mapped, Batching, guest, directory
<1>7. CASE Execute
  <2>1. Mapped(pc) /\ ip = spcToTpc[pc]
    BY <1>1, <1>7 DEF Execute, DispatchInv
  <2>2. cache[ip].len = Size[pc]
    BY <1>1, <1>2, <2>1 DEF LayoutInv
  <2>3. /\ ip < cacheLength
        /\ \A a \in Address : Mapped(a) /\ spcToTpc[a] = ip => a = pc
    BY <1>1, <1>2, <2>1 DEF SlotsDistinct
  <2> QED
    BY <1>7, <2>2, <2>3 DEF Execute, DispatchInv, Batching, Mapped, directory
<1>8. CASE Store
  <2>1. /\ phase = "busy" /\ phase' \in {"busy", "reprecode"}
        /\ UNCHANGED <<pc, ins, directory, ip>>
    BY <1>8 DEF Store
  <2> QED
    BY <1>1, <2>1 DEF DispatchInv, Batching, Mapped, directory
<1>9. CASE Retire
  <2>1. /\ phase = "busy" /\ grown' = grown /\ UNCHANGED directory
        /\ \/ phase' = "halted"
           \/ phase' = "batch"
           \/ phase' = "exec" /\ ip' = spcToTpc[pc'] /\ spcToTpc[pc'] # NO_TPC
    BY <1>9 DEF Retire
  <2>2. ~grown
    BY <2>1 DEF FillInv, Batching
  <2> QED
    BY <2>1, <2>2 DEF DispatchInv, Mapped, directory
<1>10. CASE Reprecode \/ ReprecodeFails
  BY <1>1, <1>10, SweepKeepsRunning
<1>11. CASE ReprecodeFull
  <2>1. /\ phase = "reprecode" /\ phase' = "busy"
        /\ UNCHANGED <<pc, ins, directory, ip>>
    BY <1>11 DEF ReprecodeFull, guest
  <2> QED
    BY <1>1, <2>1 DEF DispatchInv, Batching, Mapped, directory
<1>12. CASE UNCHANGED vars
  BY <1>1, <1>12 DEF DispatchInv, Batching, Mapped, vars, guest, directory
<1> QED
  BY <1>3, <1>4, <1>5, <1>6, <1>7, <1>8, <1>9, <1>10, <1>11, <1>12 DEF Next, Done

-----------------------------------------------------------------------------
(* The refinement.                                                         *)
Inv == TypeInv /\ SlotsDistinct /\ OwnedIsCurrent /\ FillInv /\ LayoutInv /\ DispatchInv

LEMMA InvCorrect == Spec => []Inv
<1>1. Init => FillInv /\ LayoutInv /\ DispatchInv
  BY FillInvInit, LayoutInvInit, DispatchInvInit
<1>2. /\ TypeInv /\ SlotsDistinct /\ FillInv /\ LayoutInv /\ DispatchInv
      /\ [Next]_vars
      => FillInv' /\ LayoutInv' /\ DispatchInv'
  BY FillInvStep, LayoutInvStep, DispatchInvStep
<1> QED
  BY <1>1, <1>2, TypeInvInit, TypeInvStep, SlotsDistinctCorrect, OwnedIsCurrentCorrect,
     PTL DEF Spec, Inv

LEMMA InvExecIsCurrent == Inv /\ HasRoom => ExecIsCurrent
<1> SUFFICES ASSUME Inv, HasRoom, phase = "exec"
             PROVE  CanPrecode(memory, pc) /\ cache[ip] = Precoded(memory, pc)
  BY DEF ExecIsCurrent
<1>1. WithinCapacity
  BY SizeAssumption DEF Inv, TypeInv, TypeOK, HasRoom, WithinCapacity
<1>2. Mapped(pc) /\ ip = spcToTpc[pc]
  BY DEF Inv, DispatchInv
<1>3. pc \in Address \ {NO_OWNER} /\ Owns(pc, cache[ip].len)
  BY <1>2, LayoutAssumption DEF Inv, LayoutInv
<1>4. ~Pending(pc)
  BY DEF Pending
<1> QED
  BY <1>1, <1>2, <1>3, <1>4 DEF Inv, OwnedIsCurrent

(* A guest that keeps its layout never executes a translation that is out  *)
(* of date, whatever it writes to its own code, while the cache has room.  *)
THEOREM ExecIsCurrentCorrect == Spec /\ []HasRoom => []ExecIsCurrent
BY InvCorrect, InvExecIsCurrent, PTL

LEMMA InitSimulates == Init => Linear!Init
BY DEF Init, Linear!Init, NoInstr, Linear!NoInstr

LEMMA StepSimulates ==
    Inv /\ HasRoom /\ [Next]_vars => [Linear!Next]_(Linear!vars)
<1> SUFFICES ASSUME Inv, HasRoom, [Next]_vars
             PROVE  Linear!Next \/ UNCHANGED Linear!vars
  OBVIOUS
<1>1. /\ memory \in [Address -> Byte] /\ pc \in Address /\ pc \in Starts
      /\ FitsLayout(memory)
  BY DEF Inv, TypeInv, TypeOK, LayoutInv
<1>2. CASE BatchStep \/ BatchEnd
  BY <1>2 DEF BatchStep, BatchFull, BatchEnd, guest, Linear!vars
<1>3. ASSUME Start \/ Resume
      PROVE  Linear!Next \/ UNCHANGED Linear!vars
  <2>1. CASE phase' = "exec"
    BY <1>3, <2>1 DEF Start, Resume, guest, Linear!vars
  <2>2. CASE phase' = "exited"
    <3>1. phase \in {"booted", "batched"} /\ UNCHANGED guest /\ ~grown
      BY <1>3, <2>2 DEF Start, Resume, Dispatch, Inv, DispatchInv, Batching
    <3>2. memory[pc] \notin Valid
      BY <1>1, <3>1, LayoutFacts DEF Inv, DispatchInv
    <3>3. Linear!Crash
      BY <2>2, <3>1, <3>2 DEF guest, Linear!Crash
    <3> QED
      BY <3>3 DEF Linear!Next
  <2> QED
    BY <1>3, <2>1, <2>2 DEF Start, Resume, Dispatch
<1>4. CASE Execute
  <2>1. phase = "exec" /\ phase' = "busy" /\ UNCHANGED <<memory, pc>>
    BY <1>4 DEF Execute
  <2>2. CanPrecode(memory, pc) /\ cache[ip] = Precoded(memory, pc)
    BY <2>1, InvExecIsCurrent DEF ExecIsCurrent
  <2>3. memory[pc] \in Valid /\ Fetched(memory, pc) = Precoded(memory, pc)
    BY <1>1, <2>2, FetchedIsPrecoded DEF CanPrecode
  <2>4. ins' = Fetched(memory, pc) /\ todo' = Writes[memory[pc]]
    BY <1>4, <2>2, <2>3 DEF Execute, Precoded
  <2>5. Linear!Fetch
    BY <2>1, <2>3, <2>4 DEF Linear!Fetch, Linear!Fetched, Fetched, Linear!Advance, Advance
  <2> QED
    BY <2>5 DEF Linear!Next
<1>5. CASE Store
  <2>1. Linear!Store
    BY <1>5 DEF Store, Linear!Store
  <2> QED
    BY <2>1 DEF Linear!Next
<1>6. CASE Retire
  <2>1. phase = "busy" /\ todo = 0 /\ ins' = NoInstr /\ UNCHANGED <<memory, todo>>
    BY <1>6 DEF Retire
  <2>2. cache[ip].len = ins.len
    BY <2>1 DEF Inv, DispatchInv
  <2>3. PICK target \in NextPcs(Flow[ins.op], pc, ins.len) :
          IF Flow[ins.op] = "jmp" /\ target = pc
          THEN phase' = "halted" /\ UNCHANGED <<pc, ip, spc>>
          ELSE /\ pc' = target
               /\ IF spcToTpc[target] = NO_TPC
                  THEN phase' = "batch" /\ spc' = target /\ ip' = ip
                  ELSE phase' = "exec" /\ spc' = spc /\ ip' = spcToTpc[target]
    BY <1>6, <2>2 DEF Retire
  <2> DEFINE stop == Flow[ins.op] = "jmp" /\ target = pc
  <2>4. /\ target \in Linear!NextPcs(Flow[ins.op], pc, ins.len)
        /\ stop \in IF Flow[ins.op] = "jmp"
                   THEN IF pc = MEMORY_SIZE - 2 THEN BOOLEAN ELSE {target = pc}
                   ELSE {FALSE}
    BY <2>3 DEF NextPcs, Advance, Linear!NextPcs, Linear!Advance
  <2>5. CASE stop
    <3>1. phase' = "halted" /\ pc' = pc
      BY <2>3, <2>5
    <3> QED
      BY <2>1, <2>4, <2>5, <3>1
      DEF Linear!Next, Linear!Retire, Linear!JumpsToItself, Advance, Linear!Advance,
          NoInstr, Linear!NoInstr
  <2>6. CASE ~stop
    <3>1. phase' \in {"batch", "exec"} /\ pc' = target
      BY <2>3, <2>6
    <3> QED
      BY <2>1, <2>4, <2>6, <3>1
      DEF Linear!Next, Linear!Retire, Linear!JumpsToItself, NoInstr, Linear!NoInstr
  <2> QED
    BY <2>5, <2>6
<1>7. CASE Reprecode \/ ReprecodeFails \/ ReprecodeFull
  BY <1>7 DEF Reprecode, ReprecodeFails, ReprecodeFull, guest, Linear!vars
<1>8. CASE UNCHANGED vars
  BY <1>8 DEF vars, guest, Linear!vars
<1> QED
  BY <1>2, <1>3, <1>4, <1>5, <1>6, <1>7, <1>8 DEF Next, Done

(* While the cache has room, every run of the engine on a guest that keeps *)
(* its layout is a run of the interpreter.                                 *)
THEOREM ImplementsLinearCorrect == Spec /\ []HasRoom => ImplementsLinear
BY InvCorrect, InitSimulates, StepSimulates, PTL
DEF Spec, ImplementsLinear, Linear!Spec
=============================================================================
