----------------------------- MODULE GuestProofs -----------------------------
(***************************************************************************)
(* What the operators of Guest return, for every guest, memory size and    *)
(* cache capacity: the facts the proofs about the engines share.           *)
(***************************************************************************)
EXTENDS Guest, TLAPS

(* The operators of Guest stay within the address space and the            *)
(* instruction format.                                                     *)
LEMMA AdvanceType ==
    ASSUME NEW a \in Address, NEW n \in 0 .. 3
    PROVE  Advance(a, n) \in Address
BY SizeAssumption DEF Address, Advance

LEMMA PrecodedType ==
    ASSUME NEW mem \in [Address -> Byte], NEW s \in Address, CanPrecode(mem, s)
    PROVE  /\ Precoded(mem, s) \in Instr
           /\ Precoded(mem, s).len = Length[mem[s]]
           /\ Length[mem[s]] \in 1 .. 3
           /\ s + Length[mem[s]] - 1 \in Address
<1> DEFINE len == Length[mem[s]]
<1>1. mem[s] \in Valid /\ len \in 1 .. 3 /\ s + len - 1 \in Address
  BY SizeAssumption, OpcodeAssumption DEF CanPrecode, Address
<1>2. \A i \in 1 .. len - 1 : mem[s + i] \in Byte
  BY <1>1, SizeAssumption DEF Address
<1>3. [i \in 1 .. len - 1 |-> mem[s + i]] \in Seq(Byte)
  BY <1>1, <1>2
<1> QED
  BY <1>1, <1>3 DEF Precoded, Instr

LEMMA NoInstrType == NoInstr \notin Instr
BY DEF NoInstr, Instr

LEMMA InvalidateType ==
    ASSUME NEW own \in [Address -> Address], NEW s \in Address
    PROVE  InvalidateOwnership(own, s) \in [Address -> Address]
BY SizeAssumption DEF InvalidateOwnership, NO_OWNER, Address

LEMMA ClaimType ==
    ASSUME NEW own \in [Address -> Address], NEW s \in Address, NEW len \in 1 .. 3
    PROVE  ClaimOwnership(own, s, len) \in [Address -> Address]
BY InvalidateType DEF ClaimOwnership

LEMMA SlotType == NO_TPC \in Slot /\ NO_OWNER \in Address
BY SizeAssumption DEF NO_TPC, Slot, NO_OWNER, Address

LEMMA ZeroType == 0 \in Address /\ 0 \in Slot
BY SizeAssumption DEF Slot, Address

LEMMA NextPcsType ==
    ASSUME NEW flow, NEW a \in Address, NEW n \in 0 .. 3
    PROVE  NextPcs(flow, a, n) \subseteq Address
BY AdvanceType, ProgramAssumption DEF NextPcs

LEMMA FetchedType ==
    ASSUME NEW mem \in [Address -> Byte], NEW s \in Address, mem[s] \in Valid
    PROVE  /\ Fetched(mem, s) \in Instr
           /\ Fetched(mem, s).op = mem[s]
           /\ Fetched(mem, s).len = Length[mem[s]]
           /\ Length[mem[s]] \in 1 .. 3
           /\ Writes[mem[s]] \in 0 .. 3
<1> DEFINE len == Length[mem[s]]
<1>1. len \in 1 .. 3 /\ Writes[mem[s]] \in 0 .. 3
  BY OpcodeAssumption
<1>2. \A i \in 1 .. len - 1 : mem[Advance(s, i)] \in Byte
  BY <1>1, AdvanceType
<1>3. [i \in 1 .. len - 1 |-> mem[Advance(s, i)]] \in Seq(Byte)
  BY <1>1, <1>2
<1> QED
  BY <1>1, <1>3 DEF Fetched, Instr

(* An instruction that does not run past the end of memory is the same to  *)
(* the linear engine, whose fetch wraps, and to precode_instruction.       *)
LEMMA FetchedIsPrecoded ==
    ASSUME NEW mem \in [Address -> Byte], NEW s \in Address, CanPrecode(mem, s)
    PROVE  Fetched(mem, s) = Precoded(mem, s)
<1> DEFINE len == Length[mem[s]]
<1>1. len \in 1 .. 3 /\ s + len - 1 \in Address
  BY PrecodedType
<1>2. \A i \in 1 .. len - 1 : Advance(s, i) = s + i
  BY <1>1, SizeAssumption DEF Advance, Address
<1>3. [i \in 1 .. len - 1 |-> mem[Advance(s, i)]] = [i \in 1 .. len - 1 |-> mem[s + i]]
  BY <1>2
<1> QED
  BY <1>3 DEF Fetched, Precoded

LEMMA StoresType ==
    ASSUME NEW mem \in [Address -> Byte], NEW op \in Valid, NEW s \in Stores[op]
    PROVE  /\ s[1] \in Address /\ s[2] \in Byte
           /\ [mem EXCEPT ![s[1]] = s[2]] \in [Address -> Byte]
           /\ \A b \in Address \ {s[1]} : [mem EXCEPT ![s[1]] = s[2]][b] = mem[b]
BY OpcodeAssumption

(* What precode_instruction reads of memory is the span of the             *)
(* instruction.                                                            *)
LEMMA PrecodedAgree ==
    ASSUME NEW mem \in [Address -> Byte], NEW new \in [Address -> Byte],
           NEW s \in Address, CanPrecode(mem, s),
           \A b \in Span(s, Length[mem[s]]) : new[b] = mem[b]
    PROVE  CanPrecode(new, s) /\ Precoded(new, s) = Precoded(mem, s)
<1>3. s \in Nat
  BY DEF Address
<1>1. Length[mem[s]] \in 1 .. 3
  BY PrecodedType
<1>2. new[s] = mem[s] /\ \A i \in 1 .. Length[mem[s]] - 1 : new[s + i] = mem[s + i]
  BY <1>1, <1>3 DEF Span
<1> QED
  BY <1>1, <1>2 DEF CanPrecode, Precoded

(* Claiming the bytes of one instruction gives no byte to another.         *)
LEMMA ClaimGivesNothing ==
    ASSUME NEW own \in [Address -> Address], NEW s \in Address, NEW len \in 1 .. 3,
           NEW a \in Address \ {s, NO_OWNER}, NEW b \in Address,
           ClaimOwnership(own, s, len)[b] = a
    PROVE  own[b] = a
BY DEF ClaimOwnership, InvalidateOwnership

(* A byte outside the instruction stays with its owner, if that is another.*)
LEMMA ClaimKeeps ==
    ASSUME NEW own \in [Address -> Address], NEW s \in Address, NEW len \in 1 .. 3,
           NEW b \in Address, b \notin Span(s, len), own[b] # s
    PROVE  ClaimOwnership(own, s, len)[b] = own[b]
<1>1. b \in Nat /\ s \in Nat
  BY DEF Address
<1>2. b >= s => b \in s .. b
  BY <1>1
<1> QED
  BY <1>2 DEF ClaimOwnership, InvalidateOwnership
=============================================================================
