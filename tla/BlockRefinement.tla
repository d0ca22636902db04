-------------------------- MODULE BlockRefinement --------------------------
(***************************************************************************)
(* The block engine implements the interpreter, for every program that     *)
(* keeps the rules of BlockGuest and as long as its blocks fit in what a   *)
(* flush keeps free.                                                       *)
(***************************************************************************)
EXTENDS BlockGuest, BlockProofs

Written(p, x) == \E b \in p.ops : \E w \in Stores[b] : w[1] = x

(* An arena entry is an instruction of the block at a, the one memory      *)
(* holds, and block_code_write notices every write to it.                  *)
Translated(p, a, i) ==
    /\ source[i] \in p.members[a]
    /\ Current(i)
    /\ Flow[arena[i].op] = "next"
    /\ \A x \in Span(source[i], arena[i].len) : Written(p, x) => owner[x] = a

(* The entry behind the last one of a block.                               *)
End(t) == blocks[t].first + blocks[t].length

(* A block is translated up to the branch or jump that ends it.            *)
Whole(p, a) ==
    LET t == spcToTpc[a]
    IN  /\ a \in p.starts
        /\ \A i \in Extent(t) : Translated(p, a, i) /\ Linked(i)
        /\ End(t) < arenaHead
        /\ arena[End(t)] = Dispatcher
        /\ source[End(t)] \in p.starts

(* Where control is in the program.                                        *)
ControlInv(p) ==
    /\ memory \in p.memories
    /\ phase = "dispatch" => pc \in p.starts
    /\ phase \in {"terminator", "busy"} => ins.op \in p.ops
    /\ phase = "terminator" => NextPcs(Flow[ins.op], pc, ins.len) \subseteq p.starts

(* A byte is owned by a block it may be a part of.                         *)
OwnerInv(p) ==
    \A x \in Address : owner[x] # NO_OWNER =>
        owner[x] \in p.starts /\ InCode(p, owner[x], x)

BlockInv(p) == \A a \in Address : Mapped(a) => Whole(p, a)

MakingInv(p) ==
    phase = "precode" =>
        /\ pc \in p.starts
        /\ spc \in p.members[pc]
        /\ BlockLength > 0 => Ends(memory, spc) \/ CanPrecode(memory, spc)
        /\ \A i \in Begun .. arenaHead - 1 : Translated(p, pc, i)

(* Control is in a block that is still translated, at the entry made for   *)
(* pc.                                                                     *)
RunsAt(a) ==
    LET t == spcToTpc[a]
    IN  /\ Mapped(a)
        /\ ip \in Extent(t) \/ ip = End(t)
        /\ source[ip] = pc
        /\ phase = "busy" => ip \in Extent(t) /\ ins = arena[ip]

RunInv == phase \in {"exec", "busy"} => \E a \in Address : RunsAt(a)

CodeInv(p) ==
    ControlInv(p) /\ OwnerInv(p) /\ BlockInv(p) /\ MakingInv(p) /\ RunInv

-----------------------------------------------------------------------------
(* The rules, taken apart.                                                 *)
LEMMA ControlRules ==
    ASSUME NEW p \in Programs, NEW m \in p.memories, NEW a \in p.starts,
           NEW s \in p.members[a]
    PROVE  /\ m \in [Address -> Byte] /\ a \in Address /\ a # NO_OWNER /\ s \in Address
           /\ a \in p.members[a]
           /\ Ends(m, s) => s \in p.starts
           /\ Inside(m, s) =>
                  /\ Advance(s, Length[m[s]]) \in p.members[a]
                  /\ \/ Ends(m, Advance(s, Length[m[s]]))
                     \/ CanPrecode(m, Advance(s, Length[m[s]]))
<1>1. ProgramType(p) /\ FollowsControl(p)
  BY ProgramsAssumption
<1>2. m \in [Address -> Byte] /\ a \in Address /\ a # NO_OWNER /\ s \in Address
  BY <1>1 DEF ProgramType
<1> QED
  BY <1>1, <1>2 DEF FollowsControl

LEMMA WriteRules ==
    ASSUME NEW p \in Programs, NEW b \in p.ops, NEW w \in Stores[b],
           NEW a \in p.starts, InCode(p, a, w[1])
    PROVE  /\ Flow[b] = "next"
           /\ \A m \in p.memories : \A s \in p.members[a] : m[s] # b
           /\ \A c \in p.starts : InCode(p, c, w[1]) => c = a
BY ProgramsAssumption DEF WritesElsewhere

(* A translated instruction is code of its block.                          *)
LEMMA TranslatedIsCode ==
    ASSUME NEW p \in Programs, TypeInv, memory \in p.memories, NEW a \in p.starts,
           NEW i \in Slot, Translated(p, a, i)
    PROVE  /\ source[i] \in Address /\ arena[i] \in Instr
           /\ Inside(memory, source[i])
           /\ arena[i].op = memory[source[i]] /\ arena[i].op \in p.ops
           /\ arena[i].len = Length[memory[source[i]]]
           /\ \A x \in Span(source[i], arena[i].len) : x \in Address /\ InCode(p, a, x)
<1>1. memory \in [Address -> Byte] /\ source[i] \in Address
  BY DEF TypeInv, TypeOK
<1>2. /\ CanPrecode(memory, source[i]) /\ arena[i] = Precoded(memory, source[i])
      /\ source[i] \in p.members[a] /\ Flow[arena[i].op] = "next"
  BY DEF Translated, Current
<1>3. /\ arena[i] \in Instr /\ arena[i].len = Length[memory[source[i]]]
      /\ Length[memory[source[i]]] \in 1 .. 3
      /\ source[i] + Length[memory[source[i]]] - 1 \in Address
  BY <1>1, <1>2, PrecodedType
<1>4. arena[i].op = memory[source[i]]
  BY <1>2 DEF Precoded
<1>5. Inside(memory, source[i]) /\ memory[source[i]] \in Valid
  BY <1>2, <1>4 DEF Inside, CanPrecode
<1>6. arena[i].op \in p.ops
  BY <1>1, <1>4, <1>5, ProgramsAssumption DEF ProgramType
<1>7. \A x \in Span(source[i], arena[i].len) : x \in Address
  BY <1>1, <1>3, SizeAssumption DEF Span, Address
<1>8. \A x \in Span(source[i], arena[i].len) : InCode(p, a, x)
  BY <1>2, <1>3, <1>5 DEF InCode
<1> QED
  BY <1>1, <1>3, <1>4, <1>5, <1>6, <1>7, <1>8

(* No step touches an entry below arena_head.                              *)
LEMMA FilledKept ==
    ASSUME TypeInv, ArenaInv, [Next]_vars, ~wrapped', ~wrapped
    PROVE  /\ \A i \in Slot : i < arenaHead => arena'[i] = arena[i] /\ source'[i] = source[i]
           /\ (\E a \in Address : Mapped(a)') => arenaHead <= arenaHead'
<1>1. arenaHead \in Nat
  BY NumberTypes DEF TypeInv
<1>2. CASE BeginBlock
  BY <1>1, <1>2, BeginEffect
<1>3. CASE PrecodeInstruction
  BY <1>1, <1>3, PrecodeEffect
<1>4. CASE EndAtTerminator \/ EndAtFailure
  <2>1. arenaHead' \in {arenaHead, arenaHead + 1}
    BY <1>4, EndEffect DEF Registers
  <2> QED
    BY <1>1, <1>4, <2>1, EndEffect
<1>5. CASE ~Translates
  <2>1. UNCHANGED arenaVars
    BY <1>5, OthersKeepCache DEF Store
  <2> QED
    BY <1>1, <2>1 DEF arenaVars
<1> QED
  BY <1>2, <1>3, <1>4, <1>5 DEF Translates

-----------------------------------------------------------------------------
(* What a step leaves of the code.  A byte that is written to and belongs  *)
(* to the code of a translated block stays with the block.                 *)
LEMMA OwnerStays ==
    ASSUME NEW p \in Programs, TypeInv, ArenaInv, CodeInv(p), [Next]_vars,
           ~wrapped', ~wrapped,
           NEW a \in p.starts, a \in Address \ {NO_OWNER}, Mapped(a)', Kept(a),
           NEW x \in Address, InCode(p, a, x), Written(p, x), owner[x] = a
    PROVE  owner'[x] = a
<1>1. CASE BeginBlock
  BY <1>1, BeginEffect
<1>2. CASE PrecodeInstruction
  <2>1. phase = "precode" /\ a # pc /\ ~Terminator(spc) /\ CanPrecode(memory, spc)
    BY <1>2, PrecodeEffect DEF PrecodeInstruction, Kept
  <2>2. pc \in p.starts /\ spc \in p.members[pc] /\ memory \in p.memories
    BY <2>1 DEF CodeInv, MakingInv, ControlInv
  <2>3. x \notin Span(spc, Length[memory[spc]])
    <3>1. Inside(memory, spc)
      BY <2>1 DEF Inside, Terminator, CanPrecode
    <3>2. x \in Span(spc, Length[memory[spc]]) => InCode(p, pc, x)
      BY <2>2, <3>1 DEF InCode
    <3> QED
      BY <2>1, <2>2, <3>2, WriteRules DEF Written
  <2> QED
    BY <1>2, <2>3 DEF PrecodeInstruction
<1>3. CASE EndAtTerminator \/ EndAtFailure
  BY <1>3, EndEffect
<1>4. CASE Store
  <2>1. PICK s \in Stores[ins.op] : Wrote(s)
    BY <1>4, StoreEffect
  <2>2. CASE Drops(owner[s[1]])
    <3> DEFINE start == owner[s[1]]
    <3>0. start \in Address
      BY <1>4, <2>1, OpcodeAssumption DEF Store, TypeInv, TypeOK, Instr
    <3> HIDE DEF start
    <3>1. spcToTpc'[start] = NO_TPC
      BY <2>2, <3>0 DEF Drops, start, TypeInv, TypeOK
    <3>2. a # start
      BY <3>1 DEF Mapped
    <3>3. owner' = InvalidateOwnership(owner, start)
      BY <2>2 DEF Drops, start
    <3>4. x \in Nat /\ start \in Nat /\ (x >= start => x \in start .. x)
      BY <3>0 DEF Address
    <3> QED
      BY <3>2, <3>3, <3>4 DEF InvalidateOwnership
  <2>3. CASE UNCHANGED owner
    BY <2>3
  <2> QED
    BY <2>1, <2>2, <2>3 DEF Wrote
<1>5. CASE ~Translates /\ ~Store
  BY <1>5, OthersKeepCache DEF cacheVars
<1> QED
  BY <1>1, <1>2, <1>3, <1>4, <1>5 DEF Translates

(* The bytes of a block's code do not change while it stays translated.    *)
LEMMA CodeBytesKept ==
    ASSUME NEW p \in Programs, TypeInv, ArenaInv, CodeInv(p), [Next]_vars,
           ~wrapped', ~wrapped,
           NEW a \in p.starts, a \in Address \ {NO_OWNER}, Mapped(a)',
           NEW x \in Address, InCode(p, a, x), Written(p, x) => owner[x] = a
    PROVE  memory'[x] = memory[x]
<1>1. CASE Push
  <2>1. PICK w \in Stores[ins.op] : memory' = [memory EXCEPT ![w[1]] = w[2]]
    BY <1>1 DEF Push
  <2>2. ins.op \in p.ops /\ Flow[ins.op] # "next"
    BY <1>1 DEF Push, CodeInv, ControlInv, TypeInv
  <2>3. w[1] # x
    BY <2>2, WriteRules
  <2> QED
    BY <2>1, <2>3 DEF TypeInv, TypeOK
<1>2. CASE Store
  <2>1. PICK w \in Stores[ins.op] : Wrote(w)
    BY <1>2, StoreEffect
  <2>2. ins.op \in p.ops
    BY <1>2 DEF Store, CodeInv, ControlInv
  <2>3. CASE w[1] = x
    <3>1. owner[w[1]] = a
      BY <2>2, <2>3 DEF Written
    <3>2. spcToTpc'[a] = NO_TPC \/ (UNCHANGED spcToTpc /\ ~Mapped(a))
      BY <2>1, <3>1 DEF Wrote, Drops, TypeInv, TypeOK
    <3> QED
      BY <3>2 DEF Mapped
  <2>4. CASE w[1] # x
    BY <2>1, <2>4 DEF Wrote, TypeInv, TypeOK
  <2> QED
    BY <2>3, <2>4
<1>3. CASE ~Push /\ ~Store
  BY <1>3, OthersKeepCache
  DEF Translates, BeginBlock, PrecodeInstruction, EndAtTerminator, EndAtFailure,
      FinishBlock, guest
<1> QED
  BY <1>1, <1>2, <1>3

LEMMA TranslatedKept ==
    ASSUME NEW p \in Programs, TypeInv, ArenaInv, CodeInv(p), [Next]_vars,
           ~wrapped', ~wrapped,
           NEW a \in p.starts, a \in Address \ {NO_OWNER}, Mapped(a)', Kept(a),
           NEW i \in Slot, Translated(p, a, i),
           arena'[i] = arena[i], source'[i] = source[i]
    PROVE  Translated(p, a, i)'
<1>1. memory \in p.memories
  BY DEF CodeInv, ControlInv
<1>2. /\ source[i] \in Address
      /\ arena[i].len = Length[memory[source[i]]]
      /\ \A x \in Span(source[i], arena[i].len) : x \in Address /\ InCode(p, a, x)
  BY <1>1, TranslatedIsCode
<1>3. \A x \in Span(source[i], arena[i].len) : memory'[x] = memory[x]
  BY <1>2, CodeBytesKept DEF Translated
<1>4. \A x \in Span(source[i], arena[i].len) : Written(p, x) => owner'[x] = a
  BY <1>2, OwnerStays DEF Translated
<1>5. memory \in [Address -> Byte] /\ memory' \in [Address -> Byte]
  <2>1. TypeInv'
    BY TypeInvStep
  <2> QED
    BY <2>1 DEF TypeInv, TypeOK
<1>6. CanPrecode(memory, source[i]) /\ arena[i] = Precoded(memory, source[i])
  BY DEF Translated, Current
<1>7. CanPrecode(memory', source[i]) /\ arena[i] = Precoded(memory', source[i])
  BY <1>2, <1>3, <1>5, <1>6, PrecodedAgree
<1> QED
  BY <1>4, <1>7 DEF Translated, Current, Written

LEMMA WholeKept ==
    ASSUME NEW p \in Programs, TypeInv, ArenaInv, CodeInv(p), [Next]_vars,
           ~wrapped', ~wrapped, NEW a \in Address, Mapped(a)', Kept(a)
    PROVE  Whole(p, a)'
<1> DEFINE t == spcToTpc[a]
<1>1. Whole(p, a) /\ a \in p.starts
  BY DEF Kept, CodeInv, BlockInv, Whole
<1>2. a # NO_OWNER
  BY <1>1, ProgramsAssumption DEF ProgramType
<1>3. Extent(t)' = Extent(t) /\ End(t)' = End(t) /\ t' = t
  BY DEF Kept, Extent, End
<1>4. /\ t \in Slot /\ blocks[t].first \in Nat /\ blocks[t].length \in Nat
      /\ arenaHead \in Nat /\ CODE_CACHE_CAPACITY \in Nat
      /\ arenaHead < CODE_CACHE_CAPACITY
  BY NumberTypes DEF TypeInv
<1>5. End(t) \in Nat /\ End(t) < arenaHead
  BY <1>1, <1>4 DEF Whole, End
<1>6. \A i \in Extent(t) : i \in Slot /\ i + 1 \in Slot /\ i < arenaHead /\ i + 1 < arenaHead
  BY <1>4, <1>5 DEF Extent, End, Slot
<1>7. End(t) \in Slot
  BY <1>4, <1>5 DEF Slot
<1>8. /\ \A i \in Slot : i < arenaHead => arena'[i] = arena[i] /\ source'[i] = source[i]
      /\ arenaHead <= arenaHead'
  BY FilledKept
<1>9. \A i \in Extent(t) : Translated(p, a, i)'
  BY <1>1, <1>2, <1>6, <1>8, TranslatedKept DEF Whole
<1>10. \A i \in Extent(t) : Linked(i)'
  BY <1>1, <1>6, <1>8 DEF Whole, Linked
<1>11. arenaHead' \in Nat
  <2>1. TypeInv'
    BY TypeInvStep
  <2> QED
    BY <2>1, SizeAssumption DEF TypeInv, TypeOK, Slot
<1>12. End(t) < arenaHead' /\ arena'[End(t)] = Dispatcher /\ source'[End(t)] \in p.starts
  BY <1>1, <1>4, <1>5, <1>7, <1>8, <1>11 DEF Whole
<1> QED
  BY <1>1, <1>3, <1>9, <1>10, <1>12 DEF Whole

-----------------------------------------------------------------------------
(* A block in the making ends at a branch or jump, with the entry that     *)
(* goes back to the dispatcher.                                            *)
LEMMA MadeEnds ==
    ASSUME NEW p \in Programs, TypeInv, ArenaInv, CodeInv(p),
           EndAtTerminator \/ EndAtFailure, ~wrapped', BlockLength > 0
    PROVE  /\ Ends(memory, spc) /\ spc \in p.starts
           /\ arenaHead \in Slot /\ arenaHead' = arenaHead + 1
           /\ arena'[arenaHead] = Dispatcher /\ source'[arenaHead] = spc
<1>1. phase = "precode"
  BY DEF EndAtTerminator, EndAtFailure
<1>2. Ends(memory, spc) \/ CanPrecode(memory, spc)
  BY <1>1 DEF CodeInv, MakingInv
<1>3. EndAtTerminator /\ AppendEntry(Dispatcher) /\ Ends(memory, spc)
  BY <1>2 DEF EndAtTerminator, EndAtFailure, Terminator, Ends
<1>4. spc \in p.starts
  BY <1>1, <1>3, ControlRules DEF CodeInv, MakingInv, ControlInv
<1> QED
  BY <1>3, <1>4, AppendEffect DEF TypeInv, TypeOK

LEMMA WholeMade ==
    ASSUME NEW p \in Programs, TypeInv, ArenaInv, ChainInv, CodeInv(p),
           EndAtTerminator \/ EndAtFailure, ~wrapped',
           NEW a \in Address, Made(a)
    PROVE  Whole(p, a)'
<1>1. /\ spcToTpc'[a] = cacheLength
      /\ Extent(spcToTpc[a])' = Begun .. arenaHead - 1
      /\ Begun \in Nat /\ arenaHead \in Nat /\ Begun < arenaHead
      /\ \A i \in Begun .. arenaHead - 1 :
             i \in Slot /\ arena'[i] = arena[i] /\ source'[i] = source[i]
  BY MadeExtent
<1>2. /\ a = pc /\ BlockLength > 0 /\ phase = "precode" /\ ~wrapped
      /\ UNCHANGED <<memory, pc, owner>>
      /\ Begun + BlockLength = arenaHead
      /\ blocks'[cacheLength].first = Begun
      /\ blocks'[cacheLength].length = BlockLength
  BY DEF Made, Registers, Precoding
<1>3. /\ spc \in p.starts /\ arenaHead' = arenaHead + 1
      /\ arena'[arenaHead] = Dispatcher /\ source'[arenaHead] = spc
  BY <1>2, MadeEnds
<1>4. End(spcToTpc[a])' = arenaHead
  BY <1>1, <1>2 DEF End
<1>5. a \in p.starts /\ \A i \in Begun .. arenaHead - 1 : Translated(p, a, i)
  BY <1>2 DEF CodeInv, MakingInv
<1>6. \A i \in Begun .. arenaHead - 1 : Translated(p, a, i)'
  BY <1>1, <1>2, <1>5 DEF Translated, Current, Written
<1>7. ASSUME NEW i \in Begun .. arenaHead - 1
      PROVE  Linked(i)'
  <2>1. /\ spc = Advance(source[arenaHead - 1], arena[arenaHead - 1].len)
        /\ \A j \in Begun .. arenaHead - 2 : Linked(j)
    BY <1>2 DEF ChainInv, Precoding
  <2>2. CASE i = arenaHead - 1
    BY <1>1, <1>3, <2>1, <2>2 DEF Linked
  <2>3. CASE i # arenaHead - 1
    <3>1. i \in Begun .. arenaHead - 2 /\ i + 1 \in Begun .. arenaHead - 1
      BY <1>1, <2>3
    <3> QED
      BY <1>1, <2>1, <3>1 DEF Linked
  <2> QED
    BY <2>2, <2>3
<1>8. arenaHead < arenaHead'
  BY <1>1, <1>3
<1> QED
  BY <1>1, <1>3, <1>4, <1>5, <1>6, <1>7, <1>8 DEF Whole

LEMMA MadeOnlyByEnd ==
    ASSUME [Next]_vars, NEW a \in Address, Made(a), TypeInv, ArenaInv, ~wrapped'
    PROVE  EndAtTerminator \/ EndAtFailure
<1>1. cacheLength \in Nat /\ cacheLength' = cacheLength + 1 /\ phase = "precode"
  BY NumberTypes DEF Made, Registers, Precoding, TypeInv
<1> QED
  BY <1>1 DEF Next, FetchTerminator, Push, RetireTerminator, EnterBlock, BeginBlock,
     PrecodeInstruction, Execute, Return, Crash, Store, Retire, Done, vars, cacheVars

LEMMA BlockInvStep ==
    ASSUME NEW p \in Programs, TypeInv, ArenaInv, ChainInv, CodeInv(p),
           [Next]_vars, ~wrapped, ~wrapped'
    PROVE  BlockInv(p)'
<1> SUFFICES ASSUME NEW a \in Address, Mapped(a)'
             PROVE  Whole(p, a)'
  BY DEF BlockInv
<1>1. Kept(a) \/ Made(a)
  BY KeptOrMade
<1> QED
  BY <1>1, WholeKept, WholeMade, MadeOnlyByEnd

-----------------------------------------------------------------------------
(* Owners.                                                                 *)
LEMMA OwnerInvStep ==
    ASSUME NEW p \in Programs, TypeInv, ArenaInv, CodeInv(p),
           [Next]_vars, ~wrapped, ~wrapped'
    PROVE  OwnerInv(p)'
<1>1. ASSUME NEW x \in Address, owner'[x] # NO_OWNER, owner'[x] = owner[x]
      PROVE  owner'[x] \in p.starts /\ InCode(p, owner'[x], x)
  BY <1>1 DEF CodeInv, OwnerInv
<1>2. ASSUME NEW x \in Address, owner'[x] # NO_OWNER, owner'[x] # owner[x]
      PROVE  owner'[x] \in p.starts /\ InCode(p, owner'[x], x)
  <2>1. CASE PrecodeInstruction
    <3>1. /\ phase = "precode" /\ CanPrecode(memory, spc) /\ ~Terminator(spc)
          /\ owner'[x] = pc /\ x \in Span(spc, Length[memory[spc]])
      BY <1>2, <2>1 DEF PrecodeInstruction
    <3>2. pc \in p.starts /\ spc \in p.members[pc] /\ memory \in p.memories
      BY <3>1 DEF CodeInv, MakingInv, ControlInv
    <3>3. Inside(memory, spc)
      BY <3>1 DEF Inside, Terminator, CanPrecode
    <3> QED
      BY <3>1, <3>2, <3>3 DEF InCode
  <2>2. CASE BeginBlock
    BY <1>2, <2>2 DEF BeginBlock
  <2>3. CASE EndAtTerminator \/ EndAtFailure
    BY <1>2, <2>3, EndEffect
  <2>4. CASE Store
    BY <1>2, <2>4 DEF Store, InvalidateOwnership
  <2>5. CASE ~Translates /\ ~Store
    BY <1>2, <2>5, OthersKeepCache DEF cacheVars
  <2> QED
    BY <2>1, <2>2, <2>3, <2>4, <2>5 DEF Translates
<1> QED
  BY <1>1, <1>2 DEF OwnerInv, InCode, Inside

-----------------------------------------------------------------------------
(* The block in the making.                                                *)
LEMMA MakingInvStep ==
    ASSUME NEW p \in Programs, TypeInv, ArenaInv, CodeInv(p),
           [Next]_vars, ~wrapped, ~wrapped'
    PROVE  MakingInv(p)'
<1>0. /\ Begun \in Nat /\ arenaHead \in Nat /\ BlockLength \in Nat
      /\ arenaHead < CODE_CACHE_CAPACITY
  BY NumberTypes DEF TypeInv
<1>1. CASE BeginBlock
  <2>1. phase = "dispatch" /\ pc \in p.starts /\ memory \in p.memories
    BY <1>1 DEF BeginBlock, CodeInv, ControlInv
  <2>2. pc \in p.members[pc]
    BY <2>1, ProgramsAssumption DEF FollowsControl
  <2>3. pc' = pc /\ spc' = pc /\ Begun' = arenaHead' /\ BlockLength' = 0
    BY <1>1, BeginEffect
  <2>4. arenaHead' \in Nat
    <3>1. TypeInv'
      BY TypeInvStep
    <3> QED
      BY <3>1, SizeAssumption DEF TypeInv, TypeOK, Slot
  <2>5. Begun' .. arenaHead' - 1 = {}
    <3>1. \A i \in Nat : i .. i - 1 = {}
      OBVIOUS
    <3> QED
      BY <2>3, <2>4, <3>1
  <2> QED
    BY <2>1, <2>2, <2>3, <2>5 DEF MakingInv
<1>2. CASE PrecodeInstruction
  <2>1. /\ phase = "precode" /\ UNCHANGED <<memory, pc>>
        /\ CanPrecode(memory, spc) /\ spc \in Address /\ ~Terminator(spc)
        /\ arenaHead \in Slot /\ arenaHead' = arenaHead + 1
        /\ arena'[arenaHead] = Precoded(memory, spc) /\ source'[arenaHead] = spc
        /\ \A i \in Slot \ {arenaHead} : arena'[i] = arena[i] /\ source'[i] = source[i]
        /\ spc' = Advance(spc, Length[memory[spc]])
        /\ Begun' = Begun
    BY <1>2, PrecodeEffect DEF PrecodeInstruction, Precoding
  <2>2. /\ pc \in p.starts /\ spc \in p.members[pc] /\ memory \in p.memories
        /\ \A i \in Begun .. arenaHead - 1 : Translated(p, pc, i)
    BY <2>1 DEF CodeInv, MakingInv, ControlInv
  <2>3. Inside(memory, spc)
    BY <2>1 DEF Inside, Terminator, CanPrecode
  <2>4. spc' \in p.members[pc] /\ (Ends(memory, spc') \/ CanPrecode(memory, spc'))
    BY <2>1, <2>2, <2>3, ControlRules
  <2>5. owner' = [x \in Address |->
                     IF x \in Span(spc, Length[memory[spc]]) THEN pc ELSE owner[x]]
    BY <1>2 DEF PrecodeInstruction
  <2>6. ASSUME NEW i, i = arenaHead
        PROVE  Translated(p, pc, i)'
    <3>1. /\ Precoded(memory, spc).len = Length[memory[spc]]
          /\ Length[memory[spc]] \in 1 .. 3
          /\ spc + Length[memory[spc]] - 1 \in Address
      BY <2>1, PrecodedType DEF TypeInv, TypeOK
    <3>2. Flow[Precoded(memory, spc).op] = "next"
      BY <2>3 DEF Inside, Precoded
    <3>3. \A x \in Span(spc, Length[memory[spc]]) : x \in Address
      BY <2>1, <3>1, SizeAssumption DEF Span, Address
    <3>4. \A x \in Span(spc, Length[memory[spc]]) : owner'[x] = pc
      BY <2>5, <3>3
    <3> QED
      BY <2>1, <2>2, <2>6, <3>1, <3>2, <3>4 DEF Translated, Current, Written
  <2>7. ASSUME NEW i \in Begun .. arenaHead - 1
        PROVE  Translated(p, pc, i)'
    <3>1. i \in Slot \ {arenaHead}
      BY <1>0, SizeAssumption DEF Slot
    <3>2. Translated(p, pc, i)
      BY <2>2
    <3>3. \A x \in Span(source[i], arena[i].len) : x \in Address
      BY <2>2, <3>1, <3>2, TranslatedIsCode
    <3>4. \A x \in Span(source[i], arena[i].len) : Written(p, x) => owner'[x] = pc
      BY <2>5, <3>2, <3>3 DEF Translated
    <3> QED
      BY <2>1, <3>1, <3>2, <3>4 DEF Translated, Current, Written
  <2>8. \A i \in Begun' .. arenaHead' - 1 : i = arenaHead \/ i \in Begun .. arenaHead - 1
    BY <1>0, <2>1
  <2> QED
    BY <2>1, <2>2, <2>4, <2>6, <2>7, <2>8 DEF MakingInv, Ends
<1>3. CASE EndAtTerminator \/ EndAtFailure
  BY <1>3, EndEffect DEF MakingInv
<1>4. CASE Store
  BY <1>4, StoreKeeps DEF MakingInv
<1>5. CASE ~Translates /\ ~Store
  <2>1. phase' = "precode" => UNCHANGED vars
    BY <1>5, OthersKeepCache
  <2> QED
    BY <2>1 DEF MakingInv, CodeInv, BlockLength, Begun, Translated, Current, Written, Ends,
       vars, guest, cacheVars, arenaVars
<1> QED
  BY <1>1, <1>2, <1>3, <1>4, <1>5 DEF Translates

-----------------------------------------------------------------------------
(* Control.  In a block it is at one of its instructions or at its end.    *)
LEMMA RunsInBlock ==
    ASSUME NEW p \in Programs, TypeInv, ArenaInv, CodeInv(p), ~wrapped,
           NEW a \in Address, RunsAt(a)
    PROVE  /\ a \in p.starts /\ ip \in Slot /\ ip < arenaHead
           /\ \/ /\ ip \in Extent(spcToTpc[a]) /\ Translated(p, a, ip) /\ Linked(ip)
                 /\ arena[ip] \in Instr /\ arena[ip].op \in p.ops
              \/ /\ ip = End(spcToTpc[a]) /\ arena[ip] = Dispatcher
                 /\ pc \in p.starts
<1> DEFINE t == spcToTpc[a]
<1>1. Whole(p, a) /\ memory \in p.memories
  BY DEF RunsAt, CodeInv, BlockInv, ControlInv
<1>2. /\ blocks[t].first \in Nat /\ blocks[t].length \in Nat
      /\ arenaHead \in Nat /\ arenaHead < CODE_CACHE_CAPACITY
      /\ CODE_CACHE_CAPACITY \in Nat
  BY NumberTypes DEF TypeInv
<1>3. /\ End(t) \in Slot /\ End(t) < arenaHead
      /\ \A i \in Extent(t) : i \in Slot /\ i < arenaHead
  BY <1>1, <1>2 DEF Whole, End, Extent, Slot
<1>4. CASE ip \in Extent(t)
  <2>1. Translated(p, a, ip) /\ Linked(ip) /\ a \in p.starts
    BY <1>1, <1>4 DEF Whole
  <2> QED
    BY <1>1, <1>3, <1>4, <2>1, TranslatedIsCode
<1>5. CASE ip = End(t)
  BY <1>1, <1>3, <1>5 DEF Whole, RunsAt
<1> QED
  BY <1>4, <1>5 DEF RunsAt

LEMMA MemoryStays ==
    ASSUME NEW p \in Programs, CodeInv(p), [Next]_vars
    PROVE  memory' \in p.memories
<1>1. WritesElsewhere(p) /\ memory \in p.memories
  BY ProgramsAssumption DEF CodeInv, ControlInv
<1>2. CASE Push \/ Store
  <2>1. ins.op \in p.ops
    BY <1>2 DEF Push, Store, CodeInv, ControlInv
  <2>2. PICK w \in Stores[ins.op] : memory' = [memory EXCEPT ![w[1]] = w[2]]
    BY <1>2 DEF Push, Store
  <2>3. [memory EXCEPT ![w[1]] = w[2]] \in p.memories
    BY <1>1, <2>1 DEF WritesElsewhere
  <2> QED
    BY <2>2, <2>3
<1>3. CASE ~Push /\ ~Store
  BY <1>1, <1>3, OthersKeepCache
  DEF Translates, BeginBlock, PrecodeInstruction, EndAtTerminator, EndAtFailure,
      FinishBlock, guest
<1> QED
  BY <1>2, <1>3

LEMMA ControlInvStep ==
    ASSUME NEW p \in Programs, TypeInv, ArenaInv, CodeInv(p),
           [Next]_vars, ~wrapped, ~wrapped'
    PROVE  ControlInv(p)'
<1>1. memory' \in p.memories /\ memory \in p.memories /\ memory \in [Address -> Byte]
  BY MemoryStays DEF CodeInv, ControlInv, TypeInv, TypeOK
<1>2. ProgramType(p) /\ FollowsControl(p)
  BY ProgramsAssumption
<1>3. CASE FetchTerminator
  <2>1. /\ phase = "dispatch" /\ phase' = "terminator" /\ Ends(memory, pc) /\ pc' = pc
        /\ ins' = Fetched(memory, pc) /\ pc \in p.starts /\ pc \in Address
    BY <1>3 DEF FetchTerminator, Terminator, Ends, CodeInv, ControlInv, TypeInv, TypeOK
  <2>2. ins'.op = memory[pc] /\ ins'.len = Length[memory[pc]]
    BY <1>1, <2>1, FetchedType DEF Ends
  <2>3. memory[pc] \in p.ops
    BY <1>1, <1>2, <2>1 DEF ProgramType, Ends
  <2>4. NextPcs(Flow[memory[pc]], pc, Length[memory[pc]]) \subseteq p.starts
    BY <1>1, <1>2, <2>1 DEF FollowsControl, NextPcs, Ends
  <2> QED
    BY <1>1, <2>1, <2>2, <2>3, <2>4 DEF ControlInv
<1>4. CASE RetireTerminator
  <2>1. /\ phase' \in {"halted", "dispatch"}
        /\ phase' = "dispatch" => pc' \in NextPcs(Flow[ins.op], pc, ins.len)
        /\ phase = "terminator"
    BY <1>4 DEF RetireTerminator
  <2> QED
    BY <1>1, <2>1 DEF ControlInv, CodeInv
<1>5. CASE EndAtTerminator \/ EndAtFailure
  <2>1. /\ phase = "precode" /\ phase' \in {"exec", "dispatch"}
        /\ UNCHANGED pc
    BY <1>5 DEF EndAtTerminator, EndAtFailure, FinishBlock, guest
  <2> QED
    BY <1>1, <2>1 DEF ControlInv, CodeInv, MakingInv
<1>6. CASE Execute
  <2>1. phase' = "busy" /\ ins' = arena[ip] /\ arena[ip] \in Instr
    BY <1>6 DEF Execute, AtInstruction
  <2>2. PICK a \in Address : RunsAt(a)
    BY <1>6 DEF Execute, CodeInv, RunInv
  <2>3. arena[ip].op \in p.ops
    BY <2>1, <2>2, RunsInBlock, EntryType
  <2> QED
    BY <1>1, <2>1, <2>3 DEF ControlInv
<1>7. CASE Return
  <2>1. phase' = "dispatch" /\ arena[ip] = Dispatcher /\ pc' = pc
    BY <1>7 DEF Return, guest
  <2>2. PICK a \in Address : RunsAt(a)
    BY <1>7 DEF Return, CodeInv, RunInv
  <2>3. pc \in p.starts
    BY <2>1, <2>2, RunsInBlock, EntryType
  <2> QED
    BY <1>1, <2>1, <2>3 DEF ControlInv
<1>8. CASE Push \/ Store \/ EnterBlock \/ UNCHANGED vars
  <2>1. UNCHANGED <<pc, ins>> /\ phase' \in {phase, "exec"}
    BY <1>8 DEF Push, Store, EnterBlock, vars, guest
  <2> QED
    BY <1>1, <2>1 DEF ControlInv, CodeInv
<1>9. CASE BeginBlock \/ PrecodeInstruction \/ Crash \/ Retire
  <2>1. phase' \in {"precode", "crashed", "exec"}
    BY <1>9 DEF BeginBlock, PrecodeInstruction, Crash, Retire
  <2> QED
    BY <1>1, <2>1 DEF ControlInv
<1> QED
  BY <1>3, <1>4, <1>5, <1>6, <1>7, <1>8, <1>9 DEF Next, Done

(* A write never drops the block it is made from.                          *)
LEMMA RunningStays ==
    ASSUME NEW p \in Programs, TypeInv, ArenaInv, CodeInv(p), ~wrapped, Store,
           NEW a \in Address, RunsAt(a)
    PROVE  spcToTpc'[a] = spcToTpc[a] /\ blocks'[spcToTpc[a]] = blocks[spcToTpc[a]]
<1>1. PICK w \in Stores[ins.op] : Wrote(w)
  BY StoreEffect
<1>2. ins.op \in p.ops /\ memory \in p.memories /\ phase = "busy"
  BY DEF Store, CodeInv, ControlInv
<1>3. /\ ip \in Extent(spcToTpc[a]) /\ ins = arena[ip] /\ source[ip] = pc /\ Mapped(a)
  BY <1>2 DEF RunsAt
<1>4. /\ a \in p.starts /\ ip \in Slot
      /\ \/ Translated(p, a, ip)
         \/ arena[ip] = Dispatcher
  BY RunsInBlock
<1>5. Translated(p, a, ip)
  BY <1>2, <1>3, <1>4, EntryType DEF TypeInv
<1>6. memory[source[ip]] = ins.op /\ source[ip] \in p.members[a]
  BY <1>2, <1>3, <1>4, <1>5, TranslatedIsCode DEF Translated
<1>7. w[1] \in Address
  BY <1>1, <1>2, OpcodeAssumption DEF TypeInv, Instr
<1>8. owner[w[1]] # a
  <2>1. SUFFICES ASSUME owner[w[1]] = a
                 PROVE  FALSE
    OBVIOUS
  <2>2. a # NO_OWNER
    BY <1>4, ProgramsAssumption DEF ProgramType
  <2>3. InCode(p, a, w[1])
    BY <1>7, <2>1, <2>2 DEF CodeInv, OwnerInv
  <2> QED
    BY <1>2, <1>4, <1>6, <2>3, WriteRules
<1> DEFINE start == owner[w[1]]
<1>9. start \in Address /\ spcToTpc[start] \in Slot
  BY <1>7 DEF TypeInv, TypeOK
<1> HIDE DEF start
<1>10. CASE Drops(start)
  <2>1. /\ \A c \in Address \ {start} : spcToTpc'[c] = spcToTpc[c]
        /\ \A t \in Slot \ {spcToTpc[start]} : blocks'[t] = blocks[t]
        /\ Mapped(start)
    BY <1>9, <1>10, BlockValid DEF Drops, TypeInv, TypeOK
  <2>2. a # start
    BY <1>8 DEF start
  <2>3. spcToTpc[a] \in Slot \ {spcToTpc[start]}
    BY <1>3, <1>9, <2>1, <2>2 DEF ArenaInv, BlocksDistinct, TypeInv, TypeOK
  <2> QED
    BY <2>1, <2>2, <2>3
<1>11. CASE UNCHANGED <<blocks, spcToTpc>>
  BY <1>11
<1> QED
  BY <1>1, <1>10, <1>11 DEF Wrote, start

LEMMA RunInvStep ==
    ASSUME NEW p \in Programs, TypeInv, ArenaInv, ChainInv, CodeInv(p),
           [Next]_vars, ~wrapped, ~wrapped'
    PROVE  RunInv'
<1>0. pc \in Address
  BY DEF TypeInv, TypeOK
<1>1. CASE EnterBlock
  <2>1. PICK a \in Address : a = pc
    BY <1>0
  <2>2. CASE phase' = "exec"
    <3>1. /\ Mapped(a) /\ ip' = blocks[spcToTpc[a]].first
          /\ UNCHANGED <<pc, cacheVars, arenaVars>>
      BY <1>1, <2>1, <2>2 DEF EnterBlock, guest
    <3>2. blocks[spcToTpc[a]].length > 0 /\ source[blocks[spcToTpc[a]].first] = a
      BY <3>1 DEF ChainInv, MappedIsRunnable
    <3>3. blocks[spcToTpc[a]].first \in Extent(spcToTpc[a])
      BY <3>2, NumberTypes DEF Extent, TypeInv
    <3>4. Extent(spcToTpc[a])' = Extent(spcToTpc[a])
      BY <3>1 DEF Extent, cacheVars
    <3>5. RunsAt(a)'
      BY <2>1, <2>2, <3>1, <3>2, <3>3, <3>4 DEF RunsAt, Mapped, cacheVars, arenaVars
    <3> QED
      BY <3>5 DEF RunInv
  <2>3. CASE phase' # "exec"
    BY <1>1, <2>3 DEF EnterBlock, RunInv
  <2> QED
    BY <2>2, <2>3
<1>2. CASE EndAtTerminator \/ EndAtFailure
  <2>1. PICK a \in Address : a = pc
    BY <1>0
  <2>2. CASE BlockLength > 0
    <3>1. /\ Precoding /\ UNCHANGED <<memory, pc, owner>> /\ Registers
          /\ \A i \in Slot : i < arenaHead => arena'[i] = arena[i] /\ source'[i] = source[i]
      BY <1>2, <2>2, EndEffect
    <3>2. Made(a)
      BY <2>1, <2>2, <3>1 DEF Made
    <3>3. phase' = "exec" /\ ip' = Begun
      BY <1>2, <2>2 DEF EndAtTerminator, EndAtFailure, FinishBlock, Begun
    <3>4. /\ Extent(spcToTpc[a])' = Begun .. arenaHead - 1
          /\ Begun \in Nat /\ arenaHead \in Nat /\ Begun < arenaHead
          /\ \A i \in Begun .. arenaHead - 1 : source'[i] = source[i]
      BY <3>2, MadeExtent
    <3>5. source[Begun] = a
      BY <2>1, <2>2, <3>1 DEF ChainInv
    <3>6. Begun \in Begun .. arenaHead - 1
      BY <3>4
    <3>7. spcToTpc'[a] # NO_TPC
      BY <2>1, <3>1 DEF Registers, TypeInv, TypeOK
    <3>8. RunsAt(a)'
      BY <2>1, <3>1, <3>3, <3>4, <3>5, <3>6, <3>7 DEF RunsAt, Mapped
    <3> QED
      BY <3>8 DEF RunInv
  <2>3. CASE ~(BlockLength > 0)
    BY <1>2, <2>3 DEF EndAtTerminator, EndAtFailure, FinishBlock, RunInv
  <2> QED
    BY <2>2, <2>3
<1>3. CASE Execute
  <2>1. /\ phase = "exec" /\ ins' = arena[ip] /\ arena[ip] \in Instr
        /\ UNCHANGED <<pc, ip, cacheVars, arenaVars>>
    BY <1>3 DEF Execute, AtInstruction
  <2>2. PICK a \in Address : RunsAt(a)
    BY <2>1 DEF CodeInv, RunInv
  <2>3. ip \in Extent(spcToTpc[a])
    BY <2>1, <2>2, RunsInBlock, EntryType
  <2>4. Extent(spcToTpc[a])' = Extent(spcToTpc[a])
    BY <2>1 DEF Extent, cacheVars
  <2>5. RunsAt(a)'
    BY <2>1, <2>2, <2>3, <2>4 DEF RunsAt, Mapped, cacheVars, arenaVars
  <2> QED
    BY <2>5 DEF RunInv
<1>4. CASE Store
  <2>1. /\ phase = "busy" /\ UNCHANGED <<pc, ins, phase, ip, arenaVars>>
    BY <1>4 DEF Store
  <2>2. PICK a \in Address : RunsAt(a)
    BY <2>1 DEF CodeInv, RunInv
  <2>3. spcToTpc'[a] = spcToTpc[a] /\ blocks'[spcToTpc[a]] = blocks[spcToTpc[a]]
    BY <1>4, <2>2, RunningStays
  <2>4. /\ Extent(spcToTpc[a])' = Extent(spcToTpc[a])
        /\ End(spcToTpc[a])' = End(spcToTpc[a])
    BY <2>3 DEF Extent, End
  <2>5. RunsAt(a)'
    BY <2>1, <2>2, <2>3, <2>4 DEF RunsAt, Mapped, arenaVars
  <2> QED
    BY <2>5 DEF RunInv
<1>5. CASE Retire
  <2>1. /\ phase = "busy" /\ phase' = "exec" /\ pc' = Advance(pc, ins.len) /\ ip' = ip + 1
        /\ UNCHANGED <<cacheVars, arenaVars>>
    BY <1>5 DEF Retire
  <2>2. PICK a \in Address : RunsAt(a)
    BY <2>1 DEF CodeInv, RunInv
  <2>3. ip \in Extent(spcToTpc[a]) /\ ins = arena[ip] /\ source[ip] = pc /\ Mapped(a)
    BY <2>1, <2>2 DEF RunsAt
  <2>4. Linked(ip)
    BY <2>1, <2>2, <2>3, RunsInBlock, EntryType DEF TypeInv
  <2>5. source[ip + 1] = pc'
    BY <2>1, <2>3, <2>4 DEF Linked
  <2>6. ip + 1 \in Extent(spcToTpc[a]) \/ ip + 1 = End(spcToTpc[a])
    <3>1. blocks[spcToTpc[a]].first \in Nat /\ blocks[spcToTpc[a]].length \in Nat
      BY NumberTypes DEF TypeInv
    <3> QED
      BY <2>3, <3>1 DEF Extent, End
  <2>7. /\ Extent(spcToTpc[a])' = Extent(spcToTpc[a])
        /\ End(spcToTpc[a])' = End(spcToTpc[a])
    BY <2>1 DEF Extent, End, cacheVars
  <2>8. RunsAt(a)'
    BY <2>1, <2>3, <2>5, <2>6, <2>7 DEF RunsAt, Mapped, cacheVars, arenaVars
  <2> QED
    BY <2>8 DEF RunInv
<1>6. CASE UNCHANGED vars
  BY <1>6 DEF CodeInv, RunInv, RunsAt, Mapped, Extent, End, vars, guest, cacheVars, arenaVars
<1>7. CASE FetchTerminator \/ Push \/ RetireTerminator \/ BeginBlock
               \/ PrecodeInstruction \/ Return \/ Crash
  <2>1. phase' \notin {"exec", "busy"}
    BY <1>7 DEF FetchTerminator, Push, RetireTerminator, BeginBlock,
       PrecodeInstruction, Return, Crash
  <2> QED
    BY <2>1 DEF RunInv
<1> QED
  BY <1>1, <1>2, <1>3, <1>4, <1>5, <1>6, <1>7 DEF Next, Done

-----------------------------------------------------------------------------
(* The refinement.  Which program runs is settled by the image.            *)
Inv == TypeInv /\ ArenaInv /\ ChainInv /\ \E p \in Programs : CodeInv(p)

LEMMA CodeInvInit ==
    ASSUME NEW p \in Programs, memory \in p.memories, Init
    PROVE  CodeInv(p)
<1>1. pc \in p.starts
  BY ProgramsAssumption DEF Init, FollowsControl
<1> QED
  BY <1>1 DEF Init, CodeInv, ControlInv, OwnerInv, BlockInv, MakingInv, RunInv, Mapped

LEMMA InvInit == Init => Inv
<1> SUFFICES ASSUME Init
             PROVE  \E p \in Programs : CodeInv(p)
  BY TypeInvInit, ArenaInvInit, ChainInvInit DEF Inv
<1>1. PICK p \in Programs : memory \in p.memories
  BY ProgramsAssumption DEF Init
<1> QED
  BY <1>1, CodeInvInit

LEMMA CodeInvStep ==
    ASSUME NEW p \in Programs, TypeInv, ArenaInv, ChainInv, CodeInv(p),
           [Next]_vars, ~wrapped, ~wrapped'
    PROVE  CodeInv(p)'
BY ControlInvStep, OwnerInvStep, BlockInvStep, MakingInvStep, RunInvStep DEF CodeInv

LEMMA InvStep == Inv /\ ArenaFits /\ ArenaFits' /\ [Next]_vars => Inv'
<1> SUFFICES ASSUME Inv, ~wrapped, ~wrapped', [Next]_vars
             PROVE  Inv'
  BY DEF ArenaFits
<1>1. TypeInv /\ ArenaInv /\ ChainInv
  BY DEF Inv
<1>2. PICK p \in Programs : CodeInv(p)
  BY DEF Inv
<1>3. CodeInv(p)'
  BY <1>1, <1>2, CodeInvStep
<1> QED
  BY <1>1, <1>3, TypeInvStep, ArenaInvStep, ChainInvStep DEF Inv

LEMMA InvCorrect == Spec /\ []ArenaFits => []Inv
BY InvInit, InvStep, PTL DEF Spec

(* The engine never runs off the end of a block: control goes through the  *)
(* entries made for the addresses pc goes through.                         *)
THEOREM StaysInBlockCorrect == Spec /\ []ArenaFits => []StaysInBlock
<1>1. Inv => StaysInBlock
  BY DEF Inv, CodeInv, RunInv, RunsAt, StaysInBlock
<1> QED
  BY <1>1, InvCorrect, PTL

LEMMA InitSimulates == Init => Linear!Init
BY DEF Init, Linear!Init, NoInstr, Linear!NoInstr

LEMMA StepSimulates ==
    Inv /\ ArenaFits /\ [Next]_vars => [Linear!Next]_(Linear!vars)
<1> SUFFICES ASSUME Inv, ~wrapped, [Next]_vars
             PROVE  Linear!Next \/ UNCHANGED Linear!vars
  BY DEF ArenaFits
<1>1. PICK p \in Programs : CodeInv(p)
  BY DEF Inv
<1>2. TypeInv /\ ArenaInv /\ memory \in [Address -> Byte] /\ pc \in Address
      /\ memory \in p.memories
  BY <1>1 DEF Inv, TypeInv, TypeOK, CodeInv, ControlInv
<1>3. CASE FetchTerminator
  <2>1. Linear!Fetch
    BY <1>3 DEF FetchTerminator, Terminator, Linear!Fetch, Linear!Fetched, Fetched,
       Linear!Advance, Advance
  <2> QED
    BY <2>1 DEF Linear!Next
<1>4. CASE Push
  <2>1. Linear!Store
    BY <1>4 DEF Push, Linear!Store
  <2> QED
    BY <2>1 DEF Linear!Next
<1>5. CASE RetireTerminator
  <2>1. Linear!Retire
    BY <1>5 DEF RetireTerminator, Linear!Retire, JumpsToItself, Linear!JumpsToItself,
       NextPcs, Linear!NextPcs, Advance, Linear!Advance, NoInstr, Linear!NoInstr
  <2> QED
    BY <2>1 DEF Linear!Next
<1>6. CASE EnterBlock \/ BeginBlock \/ PrecodeInstruction \/ Return
  BY <1>6 DEF EnterBlock, BeginBlock, PrecodeInstruction, Return, guest, Linear!vars
<1>7. CASE EndAtTerminator \/ EndAtFailure
  <2>1. phase = "precode" /\ phase' \in {"exec", "dispatch"} /\ UNCHANGED guest
    BY <1>7 DEF EndAtTerminator, EndAtFailure, FinishBlock
  <2> QED
    BY <2>1 DEF guest, Linear!vars
<1>8. CASE Execute
  <2>1. /\ phase = "exec" /\ phase' = "busy" /\ UNCHANGED <<memory, pc>>
        /\ arena[ip] \in Instr /\ ins' = arena[ip] /\ todo' = Writes[arena[ip].op]
    BY <1>8 DEF Execute, AtInstruction
  <2>2. PICK a \in Address : RunsAt(a)
    BY <1>1, <2>1 DEF CodeInv, RunInv
  <2>3. Translated(p, a, ip) /\ source[ip] = pc
    BY <1>1, <1>2, <2>1, <2>2, RunsInBlock, EntryType DEF RunsAt
  <2>4. CanPrecode(memory, pc) /\ arena[ip] = Precoded(memory, pc)
    BY <2>3 DEF Translated, Current
  <2>5. memory[pc] \in Valid /\ Fetched(memory, pc) = Precoded(memory, pc)
    BY <1>2, <2>4, FetchedIsPrecoded DEF CanPrecode
  <2>6. ins' = Fetched(memory, pc) /\ todo' = Writes[memory[pc]]
    BY <2>1, <2>4, <2>5 DEF Precoded
  <2>7. Linear!Fetch
    BY <2>1, <2>5, <2>6 DEF Linear!Fetch, Linear!Fetched, Fetched, Linear!Advance, Advance
  <2> QED
    BY <2>7 DEF Linear!Next
<1>9. CASE Crash
  <2>1. PICK a \in Address : RunsAt(a)
    BY <1>1, <1>9 DEF Crash, CodeInv, RunInv
  <2>2. ip \in Slot /\ (arena[ip] \in Instr \/ arena[ip] = Dispatcher)
    BY <1>1, <1>2, <2>1, RunsInBlock
  <2>3. arena[ip] # NoInstr /\ ip # CODE_CACHE_CAPACITY
    BY <2>2, NoInstrType, SizeAssumption DEF NoInstr, Dispatcher, Slot
  <2> QED
    BY <1>9, <2>3 DEF Crash
<1>10. CASE Store
  <2>1. Linear!Store
    BY <1>10 DEF Store, Linear!Store
  <2> QED
    BY <2>1 DEF Linear!Next
<1>11. CASE Retire
  <2>1. /\ phase = "busy" /\ phase' = "exec" /\ todo = 0 /\ ins' = NoInstr
        /\ pc' = Advance(pc, ins.len) /\ UNCHANGED <<memory, todo>>
    BY <1>11 DEF Retire
  <2>2. PICK a \in Address : RunsAt(a)
    BY <1>1, <2>1 DEF CodeInv, RunInv
  <2>3. Flow[ins.op] = "next"
    BY <1>1, <1>2, <2>1, <2>2, RunsInBlock, EntryType DEF RunsAt, Translated, TypeInv
  <2>4. Linear!Retire
    BY <2>1, <2>3 DEF Linear!Retire, Linear!NextPcs, Linear!Advance, Advance,
       NoInstr, Linear!NoInstr
  <2> QED
    BY <2>4 DEF Linear!Next
<1>12. CASE UNCHANGED vars
  BY <1>12 DEF vars, guest, Linear!vars
<1> QED
  BY <1>3, <1>4, <1>5, <1>6, <1>7, <1>8, <1>9, <1>10, <1>11, <1>12 DEF Next, Done

(* Until the arena wraps, every run of the engine on a program that keeps  *)
(* the rules is a run of the interpreter.                                  *)
THEOREM ImplementsLinearCorrect == Spec /\ []ArenaFits => ImplementsLinear
BY InvCorrect, InitSimulates, StepSimulates, PTL
DEF Spec, ImplementsLinear, Linear!Spec

-----------------------------------------------------------------------------
(* Short blocks.  The block in the making has at most as many instructions *)
(* as the place of what comes next says.                                   *)
LengthInv(p) ==
    Short(p) /\ (phase = "precode" => BlockLength <= p.place[pc][spc])

ShortInv ==
    /\ TypeInv /\ ArenaInv /\ ChainInv /\ ArenaFits
    /\ \E p \in Programs : CodeInv(p) /\ LengthInv(p)

LEMMA PlaceType ==
    ASSUME NEW p \in Programs, Short(p), NEW a \in p.starts, NEW s \in Address
    PROVE  p.place[a][s] \in Nat /\ p.place[a][s] < RESERVE
<1>1. p.place[a][s] \in 0 .. RESERVE - 1
  BY DEF Short
<1> QED
  BY <1>1, ReserveType

LEMMA ShortInvInit == Init /\ RunsShort => ShortInv
<1> SUFFICES ASSUME Init, RunsShort
             PROVE  ShortInv
  OBVIOUS
<1>1. PICK p \in Programs : Short(p) /\ memory \in p.memories
  BY DEF RunsShort
<1>2. LengthInv(p) /\ ArenaFits
  BY <1>1 DEF Init, LengthInv, ArenaFits
<1> QED
  BY <1>1, <1>2, CodeInvInit, TypeInvInit, ArenaInvInit, ChainInvInit DEF ShortInv

LEMMA LengthInvStep ==
    ASSUME NEW p \in Programs, TypeInv, ArenaInv, CodeInv(p), LengthInv(p),
           [Next]_vars, ~wrapped, ~wrapped'
    PROVE  LengthInv(p)'
<1> SUFFICES ASSUME phase' = "precode"
             PROVE  BlockLength' <= p.place[pc'][spc']
  BY DEF LengthInv, Short, Inside
<1>0. pc \in Address /\ spc \in Address /\ BlockLength \in Nat
  BY NumberTypes DEF TypeInv, TypeOK
<1>1. CASE BeginBlock
  <2>1. BlockLength' = 0 /\ pc' = pc /\ spc' = pc
    BY <1>1, BeginEffect
  <2>2. pc \in p.starts
    BY <1>1 DEF BeginBlock, CodeInv, ControlInv
  <2> QED
    BY <1>0, <2>1, <2>2, PlaceType DEF LengthInv
<1>2. CASE PrecodeInstruction
  <2>1. /\ BlockLength' = BlockLength + 1 /\ pc' = pc /\ phase = "precode"
        /\ spc' = Advance(spc, Length[memory[spc]])
        /\ CanPrecode(memory, spc) /\ ~Terminator(spc)
    BY <1>2, PrecodeEffect DEF PrecodeInstruction, Precoding
  <2>2. pc \in p.starts /\ spc \in p.members[pc] /\ memory \in p.memories
    BY <2>1 DEF CodeInv, MakingInv, ControlInv
  <2>3. Inside(memory, spc)
    BY <2>1 DEF Inside, Terminator, CanPrecode
  <2>4. p.place[pc][spc] < p.place[pc][spc']
    BY <2>1, <2>2, <2>3 DEF LengthInv, Short
  <2>5. spc' \in Address
    <3>1. TypeInv'
      BY TypeInvStep
    <3> QED
      BY <3>1 DEF TypeInv, TypeOK
  <2>6. p.place[pc][spc] \in Nat /\ p.place[pc][spc'] \in Nat
    BY <1>0, <2>2, <2>5, PlaceType DEF LengthInv
  <2> QED
    BY <1>0, <2>1, <2>4, <2>6 DEF LengthInv
<1>3. CASE EndAtTerminator \/ EndAtFailure
  BY <1>3, EndEffect
<1>4. CASE Store
  BY <1>4, StoreKeeps
<1>5. CASE ~Translates /\ ~Store
  <2>1. UNCHANGED vars
    BY <1>5, OthersKeepCache
  <2> QED
    BY <2>1 DEF LengthInv, BlockLength, vars, guest, cacheVars
<1> QED
  BY <1>1, <1>2, <1>3, <1>4, <1>5 DEF Translates

LEMMA ShortInvStep == ShortInv /\ [Next]_vars => ShortInv'
<1> SUFFICES ASSUME ShortInv, [Next]_vars
             PROVE  ShortInv'
  OBVIOUS
<1>1. TypeInv /\ ArenaInv /\ ChainInv /\ ~wrapped
  BY DEF ShortInv, ArenaFits
<1>2. PICK p \in Programs : CodeInv(p) /\ LengthInv(p)
  BY DEF ShortInv
<1>3. ~wrapped'
  <2>1. SUFFICES ASSUME wrapped'
                 PROVE  FALSE
    OBVIOUS
  <2>2. phase = "precode" /\ BlockLength >= RESERVE
    BY <1>1, <2>1, WrapsLate
  <2>3. pc \in p.starts /\ spc \in Address /\ BlockLength <= p.place[pc][spc]
    BY <1>1, <1>2, <2>2 DEF CodeInv, MakingInv, LengthInv, TypeInv, TypeOK
  <2>4. p.place[pc][spc] \in Nat /\ p.place[pc][spc] < RESERVE
    BY <1>2, <2>3, PlaceType DEF LengthInv
  <2> QED
    BY <1>1, <2>2, <2>3, <2>4, NumberTypes, ReserveType DEF TypeInv
<1>4. CodeInv(p)' /\ LengthInv(p)'
  BY <1>1, <1>2, <1>3, CodeInvStep, LengthInvStep
<1> QED
  BY <1>1, <1>3, <1>4, TypeInvStep, ArenaInvStep, ChainInvStep DEF ShortInv, ArenaFits

(* The arena never wraps while a program runs whose blocks are shorter     *)
(* than RESERVE instructions, ...                                          *)
THEOREM ShortBlocksFitCorrect == Spec => ShortBlocksFit
<1>1. ShortInv => ArenaFits
  BY DEF ShortInv
<1> QED
  BY <1>1, ShortInvInit, ShortInvStep, PTL DEF Spec, ShortBlocksFit

(* ... and every run with such a program is a run of the interpreter.      *)
THEOREM ShortProgramsCorrect == Spec /\ RunsShort => ImplementsLinear
BY ShortBlocksFitCorrect, ImplementsLinearCorrect, PTL DEF ShortBlocksFit
=============================================================================
