----------------------------- MODULE AluProofs -----------------------------
(* Theorems about Alu, for every register, byte and status: what TLC        *)
(* enumerates for the values of a run is arithmetic here.                   *)
EXTENDS Alu, TLAPS

-----------------------------------------------------------------------------
(* Bits.  A byte is the sum of its bits, so that Bits has an inverse.       *)
LEMMA Powers ==
    /\ 2 ^ 0 = 1 /\ 2 ^ 1 = 2 /\ 2 ^ 2 = 4 /\ 2 ^ 3 = 8
    /\ 2 ^ 4 = 16 /\ 2 ^ 5 = 32 /\ 2 ^ 6 = 64 /\ 2 ^ 7 = 128
OBVIOUS

LEMMA BitsAre ==
    ASSUME NEW x \in Byte
    PROVE  /\ Bits[x] \in SUBSET BitNo
           /\ 0 \in Bits[x] <=> x % 2 = 1
           /\ 1 \in Bits[x] <=> (x \div 2) % 2 = 1
           /\ 2 \in Bits[x] <=> (x \div 4) % 2 = 1
           /\ 3 \in Bits[x] <=> (x \div 8) % 2 = 1
           /\ 4 \in Bits[x] <=> (x \div 16) % 2 = 1
           /\ 5 \in Bits[x] <=> (x \div 32) % 2 = 1
           /\ 6 \in Bits[x] <=> (x \div 64) % 2 = 1
           /\ 7 \in Bits[x] <=> (x \div 128) % 2 = 1
<1>1. Bits[x] = {i \in BitNo : (x \div 2 ^ i) % 2 = 1}
  BY DEF Bits
<1>2. \A i \in 0 .. 7 : i \in Bits[x] <=> (x \div 2 ^ i) % 2 = 1
  BY <1>1 DEF BitNo
<1>3. x \div 1 = x
  BY DEF Byte
<1> QED
  BY <1>1, <1>2, <1>3, Powers DEF BitNo

LEMMA NegativeIs ==
    ASSUME NEW x \in Byte
    PROVE  Negative(x) <=> x >= 128
BY BitsAre DEF Negative, Byte

(* The bit numbered i, as a number.                                         *)
BitOf(S, i) == IF i \in S THEN 1 ELSE 0
SumOf(S) ==
    BitOf(S, 0) + 2 * BitOf(S, 1) + 4 * BitOf(S, 2) + 8 * BitOf(S, 3)
    + 16 * BitOf(S, 4) + 32 * BitOf(S, 5) + 64 * BitOf(S, 6) + 128 * BitOf(S, 7)

LEMMA SumOfBits ==
    ASSUME NEW x \in Byte
    PROVE  SumOf(Bits[x]) = x
<1>1. /\ BitOf(Bits[x], 0) = x % 2 /\ BitOf(Bits[x], 1) = (x \div 2) % 2
      /\ BitOf(Bits[x], 2) = (x \div 4) % 2 /\ BitOf(Bits[x], 3) = (x \div 8) % 2
      /\ BitOf(Bits[x], 4) = (x \div 16) % 2 /\ BitOf(Bits[x], 5) = (x \div 32) % 2
      /\ BitOf(Bits[x], 6) = (x \div 64) % 2 /\ BitOf(Bits[x], 7) = (x \div 128) % 2
  <2>1. \A i \in 0 .. 7 : BitOf(Bits[x], i) \in {0, 1} /\ (BitOf(Bits[x], i) = 1 <=> i \in Bits[x])
    BY DEF BitOf
  <2>2. /\ x % 2 \in {0, 1} /\ (x \div 2) % 2 \in {0, 1}
        /\ (x \div 4) % 2 \in {0, 1} /\ (x \div 8) % 2 \in {0, 1}
        /\ (x \div 16) % 2 \in {0, 1} /\ (x \div 32) % 2 \in {0, 1}
        /\ (x \div 64) % 2 \in {0, 1} /\ (x \div 128) % 2 \in {0, 1}
    BY DEF Byte
  <2> QED
    BY <2>1, <2>2, BitsAre
<1>2. /\ x = 2 * (x \div 2) + (x % 2)
      /\ x \div 2 = 2 * (x \div 4) + ((x \div 2) % 2)
      /\ x \div 4 = 2 * (x \div 8) + ((x \div 4) % 2)
      /\ x \div 8 = 2 * (x \div 16) + ((x \div 8) % 2)
      /\ x \div 16 = 2 * (x \div 32) + ((x \div 16) % 2)
      /\ x \div 32 = 2 * (x \div 64) + ((x \div 32) % 2)
      /\ x \div 64 = 2 * (x \div 128) + ((x \div 64) % 2)
      /\ x \div 128 = (x \div 128) % 2
  BY DEF Byte
<1> QED
  BY <1>1, <1>2 DEF SumOf, Byte

LEMMA BitsOfSum ==
    ASSUME NEW S \in SUBSET BitNo
    PROVE  SumOf(S) \in Byte /\ Bits[SumOf(S)] = S
<1>1. \A i \in 0 .. 7 : BitOf(S, i) \in {0, 1} /\ (BitOf(S, i) = 1 <=> i \in S)
  BY DEF BitOf
<1> DEFINE x == SumOf(S)
<1>2. x \in Byte
  BY <1>1 DEF SumOf, Byte
<1>3. /\ x % 2 = BitOf(S, 0) /\ (x \div 2) % 2 = BitOf(S, 1)
      /\ (x \div 4) % 2 = BitOf(S, 2) /\ (x \div 8) % 2 = BitOf(S, 3)
      /\ (x \div 16) % 2 = BitOf(S, 4) /\ (x \div 32) % 2 = BitOf(S, 5)
      /\ (x \div 64) % 2 = BitOf(S, 6) /\ (x \div 128) % 2 = BitOf(S, 7)
  BY <1>1 DEF SumOf
<1> HIDE DEF x
<1>4. \A i \in 0 .. 7 : i \in Bits[x] <=> i \in S
  BY <1>1, <1>2, <1>3, BitsAre
<1>5. Bits[x] \in SUBSET BitNo
  BY <1>2, BitsAre
<1> QED
  BY <1>2, <1>4, <1>5 DEF BitNo, x

(* ValueOf is the inverse of Bits.                                          *)
LEMMA ValueOfIs ==
    ASSUME NEW S \in SUBSET BitNo
    PROVE  ValueOf[S] \in Byte /\ Bits[ValueOf[S]] = S /\ ValueOf[S] = SumOf(S)
<1>1. ValueOf[S] = CHOOSE x \in Byte : Bits[x] = S
  BY DEF ValueOf
<1>2. \E x \in Byte : Bits[x] = S
  BY BitsOfSum
<1>3. ValueOf[S] \in Byte /\ Bits[ValueOf[S]] = S
  BY <1>1, <1>2
<1> QED
  BY <1>3, SumOfBits

-----------------------------------------------------------------------------
(* Flags.                                                                   *)
LEMMA WithFlag ==
    ASSUME NEW status, NEW flag, NEW condition \in BOOLEAN
    PROVE  /\ flag \in With(status, flag, condition) <=> condition
           /\ \A f : f # flag => (f \in With(status, flag, condition) <=> f \in status)
BY DEF With

LEMMA WithType ==
    ASSUME NEW status \in SUBSET BitNo, NEW flag \in BitNo, NEW condition
    PROVE  With(status, flag, condition) \in SUBSET BitNo
BY DEF With

LEMMA Flags ==
    {C, Z, I, D, B, U, V, N} \subseteq BitNo
BY DEF C, Z, I, D, B, U, V, N, BitNo

LEMMA ZeroAndNegative ==
    ASSUME NEW status \in SUBSET BitNo, NEW value \in Byte
    PROVE  LET s == SetZeroAndNegative(status, value)
           IN  /\ s \in SUBSET BitNo
               /\ Z \in s <=> value = 0
               /\ N \in s <=> value >= 128
               /\ U \in s
               /\ \A f \in BitNo \ {Z, N, U} : f \in s <=> f \in status
<1> DEFINE zero == With(status, Z, value = 0)
           s == With(zero, N, Negative(value))
<1>1. Negative(value) \in BOOLEAN /\ (value = 0) \in BOOLEAN
  BY DEF Negative
<1>2. zero \in SUBSET BitNo /\ s \in SUBSET BitNo
  BY WithType, Flags
<1>3. (Z \in zero <=> value = 0) /\ \A f : f # Z => (f \in zero <=> f \in status)
  BY <1>1, WithFlag
<1>4. /\ N \in s <=> Negative(value)
      /\ \A f : f # N => (f \in s <=> f \in zero)
  BY <1>1, WithFlag
<1> HIDE DEF zero, s
<1>5. SetZeroAndNegative(status, value) = s \cup {U}
  BY DEF SetZeroAndNegative, s, zero
<1>6. Z # N /\ Z # U /\ N # U
  BY DEF Z, N, U
<1> QED
  BY <1>2, <1>3, <1>4, <1>5, <1>6, NegativeIs, Flags

LEMMA ByteRange ==
    ASSUME NEW n \in Int
    PROVE  n % 256 \in Byte
BY DEF Byte

LEMMA ByteSums ==
    ASSUME NEW a \in Byte, NEW b \in Byte, NEW carry \in {0, 1}
    PROVE  a + b + carry \in 0 .. 511 /\ a + (255 - b) + carry \in 0 .. 511
BY DEF Byte

LEMMA ByteSteps ==
    ASSUME NEW a \in Byte, NEW b \in Byte
    PROVE  a - 1 \in Int /\ a + 1 \in Int /\ a - b \in Int
BY DEF Byte

LEMMA CarryIs ==
    ASSUME NEW status
    PROVE  CarryIn(status) \in {0, 1} /\ (CarryIn(status) = 1 <=> C \in status)
BY DEF CarryIn

-----------------------------------------------------------------------------
(* What the instructions leave is a byte in a byte.                         *)
LEMMA ResultType ==
    ASSUME NEW c \in Chip, NEW value \in Byte
    PROVE  Result(c, value) \in Chip /\ Stepped(c, value) \in Chip
BY ZeroAndNegative DEF Result, Stepped, Chip

LEMMA ShiftedType ==
    ASSUME NEW c \in Chip, NEW value \in Byte, NEW out
    PROVE  Shifted(c, value, out) \in Chip
<1>1. With(c.status, C, out) \in SUBSET BitNo
  BY WithType, Flags DEF Chip
<1>2. SetZeroAndNegative(With(c.status, C, out), value) \in SUBSET BitNo
  BY <1>1, ZeroAndNegative
<1> QED
  BY <1>2 DEF Shifted, Chip

LEMMA SetValueType ==
    ASSUME NEW c \in Chip, NEW value \in Byte
    PROVE  [c EXCEPT !.val = value] \in Chip
BY DEF Chip

LEMMA SetStatusType ==
    ASSUME NEW c \in Chip, NEW s \in SUBSET BitNo
    PROVE  [c EXCEPT !.status = s] \in Chip
BY DEF Chip

LEMMA ShiftTypes ==
    ASSUME NEW c \in Chip
    PROVE  /\ AslValue(c) \in Chip /\ LsrValue(c) \in Chip
           /\ RolValue(c) \in Chip /\ RorValue(c) \in Chip
<1>1. c.val \in Byte /\ CarryIn(c.status) \in {0, 1}
  BY CarryIs DEF Chip
<1>2. /\ (c.val * 2) % 256 \in Byte
      /\ c.val \div 2 \in Byte
      /\ ((c.val * 2) % 256) + CarryIn(c.status) \in Byte
      /\ (c.val \div 2) + 128 * CarryIn(c.status) \in Byte
  BY <1>1 DEF Byte
<1>3. AslValue(c) \in Chip /\ RolValue(c) \in Chip /\ RorValue(c) \in Chip
  BY <1>2, ShiftedType DEF AslValue, RolValue, RorValue
<1>4. LsrValue(c) \in Chip
  <2> DEFINE r == Shifted(c, c.val \div 2, 0 \in Bits[c.val])
  <2>1. r \in Chip
    BY <1>2, ShiftedType
  <2>2. LsrValue(c) = [r EXCEPT !.status = r.status \ {N}]
    BY DEF LsrValue
  <2> HIDE DEF r
  <2>3. r.status \ {N} \in SUBSET BitNo
    BY <2>1 DEF Chip
  <2> QED
    BY <2>1, <2>2, <2>3, SetStatusType
<1> QED
  BY <1>3, <1>4

LEMMA LogicTypes ==
    ASSUME NEW c \in Chip
    PROVE  /\ Load(c) \in Chip /\ StoreReg(c) \in Chip
           /\ PushStatus(c) \in Chip /\ PullStatus(c) \in Chip
           /\ AndValue(c) \in Chip /\ EorValue(c) \in Chip /\ OraValue(c) \in Chip
           /\ BitValue(c) \in Chip
<1>1. /\ c.reg \in Byte /\ c.val \in Byte /\ c.status \in SUBSET BitNo
      /\ Bits[c.reg] \in SUBSET BitNo /\ Bits[c.val] \in SUBSET BitNo
  BY BitsAre DEF Chip
<1>2. Load(c) \in Chip /\ StoreReg(c) \in Chip
  BY <1>1, ResultType, SetValueType DEF Load, StoreReg
<1>3. PushStatus(c) \in Chip
  BY <1>1, ValueOfIs, Flags, SetValueType DEF PushStatus
<1>4. PullStatus(c) \in Chip
  BY <1>1, Flags, SetStatusType DEF PullStatus
<1>5. AndValue(c) \in Chip /\ OraValue(c) \in Chip
  BY <1>1, ValueOfIs, ResultType DEF AndValue, OraValue
<1>6. EorValue(c) \in Chip
  BY <1>1, ValueOfIs, ResultType DEF EorValue
<1>7. BitValue(c) \in Chip
  BY <1>1, WithType, Flags, SetStatusType DEF BitValue
<1> QED
  BY <1>2, <1>3, <1>4, <1>5, <1>6, <1>7

LEMMA StepTypes ==
    ASSUME NEW c \in Chip
    PROVE  /\ DecMem(c) \in Chip /\ IncMem(c) \in Chip
           /\ DecReg(c) \in Chip /\ IncReg(c) \in Chip
           /\ CmpValue(c) \in Chip
<1>1. c.reg \in Byte /\ c.val \in Byte /\ c.status \in SUBSET BitNo
  BY DEF Chip
<1>2. /\ (c.val - 1) % 256 \in Byte /\ (c.val + 1) % 256 \in Byte
      /\ (c.reg - 1) % 256 \in Byte /\ (c.reg + 1) % 256 \in Byte
      /\ (c.reg - c.val) % 256 \in Byte
  <2>1. /\ c.val - 1 \in Int /\ c.val + 1 \in Int
        /\ c.reg - 1 \in Int /\ c.reg + 1 \in Int /\ c.reg - c.val \in Int
    BY <1>1, ByteSteps
  <2> QED
    BY <2>1, ByteRange
<1>3. /\ DecMem(c) \in Chip /\ IncMem(c) \in Chip
      /\ DecReg(c) \in Chip /\ IncReg(c) \in Chip
  BY <1>2, ResultType DEF DecMem, IncMem, DecReg, IncReg
<1>4. CmpValue(c) \in Chip
  BY <1>1, <1>2, ZeroAndNegative, WithType, Flags, SetStatusType DEF CmpValue
<1> QED
  BY <1>3, <1>4

-----------------------------------------------------------------------------
(* ADC and SBC.  Sum and Decimal are what AdcValue computes in its two      *)
(* modes.                                                                   *)
Sum(c) == c.reg + c.val + CarryIn(c.status)
LowNibble(c) == (c.reg % 16) + (c.val % 16) + CarryIn(c.status)
HighNibble(c) ==
    (c.reg \div 16) + (c.val \div 16) + (IF LowNibble(c) > 9 THEN 1 ELSE 0)
Corrected(nibble) == IF nibble > 9 THEN nibble + 6 ELSE nibble
Shown(c) == IF D \in c.status THEN ((HighNibble(c) % 16) * 16) + (LowNibble(c) % 16)
            ELSE Sum(c) % 256
AdcReg(c) ==
    IF D \in c.status
    THEN ((Corrected(HighNibble(c)) % 16) * 16) + (Corrected(LowNibble(c)) % 16)
    ELSE Sum(c) % 256
AdcOut(c) == IF D \in c.status THEN Corrected(HighNibble(c)) > 15 ELSE Sum(c) > 255

LEMMA AdcIs ==
    ASSUME NEW c \in Chip
    PROVE  AdcValue(c) = [c EXCEPT
               !.reg = AdcReg(c),
               !.status = With(With(SetZeroAndNegative(c.status, Shown(c)), C, AdcOut(c)),
                               V, AddOverflow(c.reg, c.val, Shown(c)))]
BY DEF AdcValue, AdcReg, AdcOut, Shown, Sum, LowNibble, HighNibble, Corrected, Accumulated

LEMMA Nibbles ==
    ASSUME NEW c \in Chip
    PROVE  /\ c.reg \in 0 .. 255 /\ c.val \in 0 .. 255 /\ CarryIn(c.status) \in {0, 1}
           /\ Sum(c) \in 0 .. 511
           /\ LowNibble(c) \in 0 .. 31 /\ HighNibble(c) \in 0 .. 31
           /\ Shown(c) \in Byte /\ AdcReg(c) \in Byte /\ AdcOut(c) \in BOOLEAN
<1>1. c.reg \in 0 .. 255 /\ c.val \in 0 .. 255 /\ CarryIn(c.status) \in {0, 1}
  BY CarryIs DEF Chip, Byte
<1>2. Sum(c) \in 0 .. 511
  <2>1. c.reg \in Byte /\ c.val \in Byte
    BY DEF Chip
  <2> QED
    BY <1>1, <2>1, ByteSums DEF Sum
<1>3. LowNibble(c) \in 0 .. 31
  BY <1>1 DEF LowNibble
<1>4. HighNibble(c) \in 0 .. 31
  BY <1>1 DEF HighNibble
<1>5. Shown(c) \in Byte
  BY <1>2, <1>3, <1>4 DEF Shown, Byte
<1>6. AdcReg(c) \in Byte
  BY <1>2, <1>3, <1>4 DEF AdcReg, Corrected, Byte
<1>7. AdcOut(c) \in BOOLEAN
  <2>1. CASE D \in c.status
    <3>1. AdcOut(c) = (Corrected(HighNibble(c)) > 15)
      BY <2>1 DEF AdcOut
    <3> QED
      BY <3>1
  <2>2. CASE D \notin c.status
    <3>1. AdcOut(c) = (Sum(c) > 255)
      BY <2>2 DEF AdcOut
    <3> QED
      BY <3>1
  <2> QED
    BY <2>1, <2>2
<1> QED
  BY <1>1, <1>2, <1>3, <1>4, <1>5, <1>6, <1>7

(* The register and the flags after an ADC.                                 *)
LEMMA AdcLeaves ==
    ASSUME NEW c \in Chip
    PROVE  LET d == AdcValue(c)
           IN  /\ d \in Chip
               /\ d.reg = AdcReg(c) /\ d.val = c.val
               /\ C \in d.status <=> AdcOut(c)
               /\ D \in d.status <=> D \in c.status
               /\ V \in d.status <=> AddOverflow(c.reg, c.val, Shown(c))
<1> DEFINE zn == SetZeroAndNegative(c.status, Shown(c))
           carried == With(zn, C, AdcOut(c))
           s == With(carried, V, AddOverflow(c.reg, c.val, Shown(c)))
<1>1. /\ zn \in SUBSET BitNo
      /\ D \in zn <=> D \in c.status
  BY Nibbles, ZeroAndNegative, Flags DEF Chip, D, Z, N, U
<1>2. AddOverflow(c.reg, c.val, Shown(c)) \in BOOLEAN /\ AdcOut(c) \in BOOLEAN
  BY Nibbles DEF AddOverflow
<1>3. /\ carried \in SUBSET BitNo
      /\ C \in carried <=> AdcOut(c)
      /\ D \in carried <=> D \in zn
  BY <1>1, <1>2, WithFlag, WithType, Flags DEF C, D
<1>4. /\ s \in SUBSET BitNo
      /\ V \in s <=> AddOverflow(c.reg, c.val, Shown(c))
      /\ C \in s <=> C \in carried
      /\ D \in s <=> D \in carried
  BY <1>2, <1>3, WithFlag, WithType, Flags DEF C, D, V
<1>5. AdcValue(c) = [c EXCEPT !.reg = AdcReg(c), !.status = s]
  BY AdcIs
<1> HIDE DEF s, carried, zn
<1>6. /\ AdcValue(c) \in Chip
      /\ AdcValue(c).reg = AdcReg(c) /\ AdcValue(c).val = c.val
      /\ AdcValue(c).status = s
  <2>1. AdcReg(c) \in Byte /\ s \in SUBSET BitNo
    BY <1>4, Nibbles
  <2> DEFINE value == AdcReg(c)
  <2>2. AdcValue(c) = [c EXCEPT !.reg = value, !.status = s]
    BY <1>5
  <2>3. value \in Byte
    BY <2>1
  <2> HIDE DEF value
  <2>4. /\ AdcValue(c) \in Chip
        /\ AdcValue(c).reg = value /\ AdcValue(c).val = c.val
        /\ AdcValue(c).status = s
    BY <2>1, <2>2, <2>3 DEF Chip
  <2> QED
    BY <2>4 DEF value
<1> QED
  BY <1>1, <1>3, <1>4, <1>6

(* What SbcValue computes.                                                  *)
Difference(c) == c.reg + (255 - c.val) + CarryIn(c.status)
SbcReg(c) ==
    (IF D \in c.status THEN DecimalDifference(c, Difference(c)) ELSE Difference(c)) % 256

LEMMA Differences ==
    ASSUME NEW c \in Chip
    PROVE  /\ Difference(c) \in 0 .. 511
           /\ DecimalDifference(c, Difference(c)) \in Int
           /\ SbcReg(c) \in Byte
<1>1. Difference(c) \in 0 .. 511
  BY CarryIs, ByteSums DEF Difference, Chip
<1> DEFINE difference == Difference(c)
           borrowed == (c.reg % 16) < (c.val % 16) + (1 - CarryIn(c.status))
           low == IF borrowed THEN (difference - 6) % 65536 ELSE difference
<1>2. low \in Int
  BY <1>1
<1>3. DecimalDifference(c, Difference(c)) = IF low < 256 THEN (low - 96) % 65536 ELSE low
  BY DEF DecimalDifference
<1> HIDE DEF low
<1>4. DecimalDifference(c, Difference(c)) \in Int
  <2>1. \A n \in Int : (n - 96) % 65536 \in Int
    OBVIOUS
  <2> QED
    BY <1>2, <1>3, <2>1
<1>5. SbcReg(c) \in Byte
  <2> DEFINE n == IF D \in c.status THEN DecimalDifference(c, Difference(c)) ELSE Difference(c)
  <2>1. n \in Int
    BY <1>1, <1>4
  <2>2. SbcReg(c) = n % 256
    BY DEF SbcReg
  <2> HIDE DEF n
  <2> QED
    BY <2>1, <2>2, ByteRange
<1> QED
  BY <1>1, <1>4, <1>5

(* The register and the flags after an SBC.                                 *)
LEMMA SbcLeaves ==
    ASSUME NEW c \in Chip
    PROVE  LET d == SbcValue(c)
               binary == Difference(c) % 256
           IN  /\ d \in Chip
               /\ d.reg = SbcReg(c) /\ d.val = c.val
               /\ C \in d.status <=> Difference(c) > 255
               /\ D \in d.status <=> D \in c.status
               /\ V \in d.status <=> SubOverflow(c.reg, c.val, binary)
               /\ Z \in d.status <=> binary = 0
               /\ N \in d.status <=> binary >= 128
<1> DEFINE binary == Difference(c) % 256
           out == Difference(c) > 255
           carried == With(c.status, C, out)
           zn == SetZeroAndNegative(carried, binary)
           s == With(zn, V, SubOverflow(c.reg, c.val, binary))
<1>1. binary \in Byte /\ Difference(c) \in Int /\ c.status \in SUBSET BitNo
  <2>1. Difference(c) \in Int
    BY Differences
  <2> QED
    BY <2>1, ByteRange DEF Chip
<1>2. SubOverflow(c.reg, c.val, binary) \in BOOLEAN /\ out \in BOOLEAN
  BY <1>1 DEF SubOverflow
<1> HIDE DEF out
<1>3. /\ carried \in SUBSET BitNo
      /\ C \in carried <=> out
      /\ D \in carried <=> D \in c.status
  BY <1>1, <1>2, WithFlag, WithType, Flags DEF C, D
<1> HIDE DEF binary, carried
<1>4. /\ zn \in SUBSET BitNo
      /\ C \in zn <=> C \in carried
      /\ D \in zn <=> D \in carried
      /\ Z \in zn <=> binary = 0
      /\ N \in zn <=> binary >= 128
  <2>1. C \in BitNo \ {Z, N, U} /\ D \in BitNo \ {Z, N, U}
    BY Flags DEF C, D, Z, N, U
  <2> QED
    BY <1>1, <1>3, <2>1, ZeroAndNegative
<1>5. /\ s \in SUBSET BitNo
      /\ V \in s <=> SubOverflow(c.reg, c.val, binary)
      /\ \A f \in {C, D, Z, N} : f \in s <=> f \in zn
  <2>1. V \notin {C, D, Z, N}
    BY DEF C, D, V, Z, N
  <2> QED
    BY <1>2, <1>4, <2>1, WithFlag, WithType, Flags
<1>6. SbcValue(c) = [c EXCEPT !.reg = SbcReg(c), !.status = s]
  BY DEF SbcValue, SbcReg, Difference, Accumulated, binary, out, carried
<1> HIDE DEF s, zn
<1>7. /\ SbcValue(c) \in Chip
      /\ SbcValue(c).reg = SbcReg(c) /\ SbcValue(c).val = c.val
      /\ SbcValue(c).status = s
  <2>1. SbcReg(c) \in Byte /\ s \in SUBSET BitNo
    BY <1>5, Differences
  <2> DEFINE value == SbcReg(c)
  <2>2. SbcValue(c) = [c EXCEPT !.reg = value, !.status = s]
    BY <1>6
  <2>3. value \in Byte
    BY <2>1
  <2> HIDE DEF value
  <2>4. /\ SbcValue(c) \in Chip
        /\ SbcValue(c).reg = value /\ SbcValue(c).val = c.val
        /\ SbcValue(c).status = s
    BY <2>1, <2>2, <2>3 DEF Chip
  <2> QED
    BY <2>4 DEF value
<1> QED
  BY <1>3, <1>4, <1>5, <1>7 DEF binary, out

-----------------------------------------------------------------------------
(* The instructions with a flag in a table.                                 *)
LEMMA FlagInstructionParts ==
    ASSUME NEW f \in FlagInstructions
    PROVE  /\ f[1] \in {"CLC", "CLD", "CLI", "CLV", "SEC", "SED", "SEI"}
           /\ f[2] \in BitNo
<1>1. CASE f = <<"CLC", C, FALSE>>
  BY <1>1, Flags
<1>2. CASE f = <<"CLD", D, FALSE>>
  BY <1>2, Flags
<1>3. CASE f = <<"CLI", I, FALSE>>
  BY <1>3, Flags
<1>4. CASE f = <<"CLV", V, FALSE>>
  BY <1>4, Flags
<1>5. CASE f = <<"SEC", C, TRUE>>
  BY <1>5, Flags
<1>6. CASE f = <<"SED", D, TRUE>>
  BY <1>6, Flags
<1>7. CASE f = <<"SEI", I, TRUE>>
  BY <1>7, Flags
<1> QED
  BY <1>1, <1>2, <1>3, <1>4, <1>5, <1>6, <1>7 DEF FlagInstructions

LEMMA BranchParts ==
    ASSUME NEW b \in Branches
    PROVE  b[1] \in {"BCC", "BCS", "BEQ", "BMI", "BNE", "BPL", "BVC", "BVS"}
<1>1. CASE b = <<"BCC", C, FALSE>>
  BY <1>1
<1>2. CASE b = <<"BCS", C, TRUE>>
  BY <1>2
<1>3. CASE b = <<"BEQ", Z, TRUE>>
  BY <1>3
<1>4. CASE b = <<"BMI", N, TRUE>>
  BY <1>4
<1>5. CASE b = <<"BNE", Z, FALSE>>
  BY <1>5
<1>6. CASE b = <<"BPL", N, FALSE>>
  BY <1>6
<1>7. CASE b = <<"BVC", V, FALSE>>
  BY <1>7
<1>8. CASE b = <<"BVS", V, TRUE>>
  BY <1>8
<1> QED
  BY <1>1, <1>2, <1>3, <1>4, <1>5, <1>6, <1>7, <1>8 DEF Branches

(* The register and the byte stay bytes and the status a set of flags, for  *)
(* every instruction.                                                       *)
THEOREM TypeCorrect == Spec => []TypeOK
<1>1. Init => TypeOK
  BY InputAssumption DEF Init, TypeOK, Chip
<1>2. TypeOK /\ [Next]_vars => TypeOK'
  <2> SUFFICES ASSUME chip \in Chip, [Next]_vars PROVE chip' \in Chip
    BY DEF TypeOK
  <2>1. ASSUME NEW name, NEW result \in Chip, Instruction(name, result)
        PROVE  chip' \in Chip
    BY <2>1 DEF Instruction
  <2>2. CASE \/ Instruction("LD", Load(chip)) \/ Instruction("ST", StoreReg(chip))
             \/ Instruction("PHP", PushStatus(chip)) \/ Instruction("PLP", PullStatus(chip))
    BY <2>1, <2>2, LogicTypes
  <2>3. CASE \/ Instruction("ASL", AslValue(chip)) \/ Instruction("LSR", LsrValue(chip))
             \/ Instruction("ROL", RolValue(chip)) \/ Instruction("ROR", RorValue(chip))
    BY <2>1, <2>3, ShiftTypes
  <2>4. CASE \/ Instruction("AND", AndValue(chip)) \/ Instruction("EOR", EorValue(chip))
             \/ Instruction("BIT", BitValue(chip)) \/ Instruction("ORA", OraValue(chip))
    BY <2>1, <2>4, LogicTypes
  <2>5. CASE Instruction("ADC", AdcValue(chip)) \/ Instruction("SBC", SbcValue(chip))
    BY <2>1, <2>5, AdcLeaves, SbcLeaves
  <2>6. CASE \/ Instruction("CMP", CmpValue(chip))
             \/ Instruction("DEC", DecMem(chip)) \/ Instruction("INC", IncMem(chip))
             \/ Instruction("DEX", DecReg(chip)) \/ Instruction("INX", IncReg(chip))
    BY <2>1, <2>6, StepTypes
  <2>7. ASSUME NEW f \in FlagInstructions,
               Instruction(f[1], [chip EXCEPT !.status = With(@, f[2], f[3])])
        PROVE  chip' \in Chip
    <3>1. f[2] \in BitNo
      BY FlagInstructionParts
    <3>2. With(chip.status, f[2], f[3]) \in SUBSET BitNo
      BY <3>1, WithType DEF Chip
    <3>3. [chip EXCEPT !.status = With(chip.status, f[2], f[3])] \in Chip
      BY <3>2, SetStatusType
    <3> QED
      BY <2>7, <3>3 DEF Instruction
  <2>8. ASSUME NEW b \in Branches, Instruction(b[1], Branch(chip, b))
        PROVE  chip' \in Chip
    <3>1. ((b[2] \in chip.status) = b[3]) \in BOOLEAN
      OBVIOUS
    <3> QED
      BY <2>8, <3>1 DEF Instruction, Branch, Chip
  <2>9. CASE Finished \/ UNCHANGED vars
    BY <2>9 DEF Finished, vars
  <2> QED
    BY <2>2, <2>3, <2>4, <2>5, <2>6, <2>7, <2>8, <2>9 DEF Next
<1> QED
  BY <1>1, <1>2, PTL DEF Spec

(* The name of an instruction says what has been executed.                  *)
LEMMA Executed ==
    ASSUME Next, ~UNCHANGED vars
    PROVE  /\ op' = "ADC" => chip' = AdcValue(chip)
           /\ op' = "SBC" => chip' = SbcValue(chip)
           /\ op' = "CMP" => chip' = CmpValue(chip)
           /\ op' = "ROL" => chip' = RolValue(chip)
           /\ op' = "ROR" => chip' = RorValue(chip)
<1>1. \A f \in FlagInstructions : f[1] \notin {"ADC", "SBC", "CMP", "ROL", "ROR"}
  BY FlagInstructionParts
<1>2. \A b \in Branches : b[1] \notin {"ADC", "SBC", "CMP", "ROL", "ROR"}
  BY BranchParts
<1> QED
  BY <1>1, <1>2 DEF Next, Instruction, Finished

-----------------------------------------------------------------------------
(* Signed overflow.                                                         *)
LEMMA WrappedSum ==
    ASSUME NEW n \in 0 .. 511
    PROVE  n % 256 = (IF n < 256 THEN n ELSE n - 256) /\ n % 256 \in Byte
BY DEF Byte

LEMMA AddOverflowIs ==
    ASSUME NEW a \in Byte, NEW b \in Byte, NEW carry \in {0, 1}
    PROVE  AddOverflow(a, b, (a + b + carry) % 256)
               <=> Signed(a) + Signed(b) + carry \notin -128 .. 127
<1> DEFINE n == a + b + carry
           r == n % 256
<1>1. n \in 0 .. 511 /\ n = a + b + carry
  BY ByteSums
<1> HIDE DEF n
<1>2. r = (IF n < 256 THEN n ELSE n - 256) /\ r \in Byte
  BY <1>1, WrappedSum
<1> HIDE DEF r
<1>3. /\ Negative(a) <=> a >= 128
      /\ Negative(b) <=> b >= 128
      /\ Negative(r) <=> r >= 128
  BY <1>2, NegativeIs
<1>4. AddOverflow(a, b, r) <=> (a >= 128 <=> b >= 128) /\ ~(a >= 128 <=> r >= 128)
  BY <1>3 DEF AddOverflow, Negative
<1>5. ((a >= 128 <=> b >= 128) /\ ~(a >= 128 <=> r >= 128))
          <=> Signed(a) + Signed(b) + carry \notin -128 .. 127
  BY <1>1, <1>2 DEF Signed, Byte
<1> QED
  BY <1>4, <1>5 DEF r, n

SubOverflowFits(a, b, carry, n) ==
    SubOverflow(a, b, n % 256) <=> Signed(a) - Signed(b) - (1 - carry) \notin -128 .. 127

LEMMA SubOverflowIs ==
    ASSUME NEW a \in Byte, NEW b \in Byte, NEW carry \in {0, 1},
           NEW n, n = a + (255 - b) + carry
    PROVE  SubOverflowFits(a, b, carry, n)
<1> DEFINE r == n % 256
<1>0. n \in 0 .. 511
  BY ByteSums
<1>1. r = (IF n < 256 THEN n ELSE n - 256) /\ r \in Byte
  BY <1>0, WrappedSum
<1> HIDE DEF r
<1>2. /\ Negative(a) <=> a >= 128
      /\ Negative(b) <=> b >= 128
      /\ Negative(r) <=> r >= 128
  BY <1>1, NegativeIs
<1>3. SubOverflow(a, b, r) <=> ~(a >= 128 <=> b >= 128) /\ ~(a >= 128 <=> r >= 128)
  BY <1>2 DEF SubOverflow, Negative
<1>4. (~(a >= 128 <=> b >= 128) /\ ~(a >= 128 <=> r >= 128))
          <=> Signed(a) - Signed(b) - (1 - carry) \notin -128 .. 127
  BY <1>0, <1>1 DEF Signed, Byte
<1> QED
  BY <1>3, <1>4 DEF SubOverflowFits, r

(* In binary mode V is signed overflow, for all operands and both carries.  *)
THEOREM OverflowIsSignedCorrect == Spec => OverflowIsSigned
<1>1. TypeOK /\ [Next]_vars =>
        [LET a == Signed(chip.reg)
             b == Signed(chip.val)
             carry == CarryIn(chip.status)
             overflow == V \in chip'.status
         IN  D \notin chip.status =>
                 /\ op' = "ADC" => overflow = (a + b + carry \notin -128 .. 127)
                 /\ op' = "SBC" => overflow = (a - b - (1 - carry) \notin -128 .. 127)]_vars
  <2> SUFFICES ASSUME TypeOK, Next, ~UNCHANGED vars, D \notin chip.status
               PROVE  LET a == Signed(chip.reg)
                          b == Signed(chip.val)
                          carry == CarryIn(chip.status)
                          overflow == V \in chip'.status
                      IN  /\ op' = "ADC" => overflow = (a + b + carry \notin -128 .. 127)
                          /\ op' = "SBC" => overflow = (a - b - (1 - carry) \notin -128 .. 127)
    OBVIOUS
  <2>1. /\ chip \in Chip /\ chip.reg \in Byte /\ chip.val \in Byte
        /\ CarryIn(chip.status) \in {0, 1}
    BY CarryIs DEF TypeOK, Chip
  <2>2. CASE op' = "ADC"
    <3>1. V \in chip'.status <=> AddOverflow(chip.reg, chip.val, Shown(chip))
      BY <2>1, <2>2, Executed, AdcLeaves
    <3>2. Shown(chip) = (chip.reg + chip.val + CarryIn(chip.status)) % 256
      BY DEF Shown, Sum
    <3> QED
      BY <2>1, <2>2, <3>1, <3>2, AddOverflowIs
  <2>3. CASE op' = "SBC"
    <3>1. V \in chip'.status <=> SubOverflow(chip.reg, chip.val, Difference(chip) % 256)
      BY <2>1, <2>3, Executed, SbcLeaves
    <3>2. SubOverflow(chip.reg, chip.val, Difference(chip) % 256)
            <=> Signed(chip.reg) - Signed(chip.val) - (1 - CarryIn(chip.status)) \notin -128 .. 127
      <4>1. Difference(chip) = chip.reg + (255 - chip.val) + CarryIn(chip.status)
        BY DEF Difference
      <4>2. SubOverflowFits(chip.reg, chip.val, CarryIn(chip.status), Difference(chip))
        BY <2>1, <4>1, SubOverflowIs
      <4> QED
        BY <4>2 DEF SubOverflowFits
    <3>3. V \in chip'.status
            <=> Signed(chip.reg) - Signed(chip.val) - (1 - CarryIn(chip.status)) \notin -128 .. 127
      BY <3>1, <3>2
    <3> QED
      BY <2>3, <3>3
  <2> QED
    BY <2>2, <2>3
<1> QED
  BY <1>1, TypeCorrect, PTL DEF Spec, OverflowIsSigned

-----------------------------------------------------------------------------
(* Decimal mode.  A corrected nibble is the last digit of the nibble.       *)
OutDigit(out) == IF out THEN 1 ELSE 0

LEMMA AdcDecimal ==
    ASSUME NEW c \in Chip, D \in c.status, IsDecimal(c.reg), IsDecimal(c.val)
    PROVE  /\ IsDecimal(AdcReg(c))
           /\ DecimalOf(c.reg) + DecimalOf(c.val) + CarryIn(c.status)
                  = 100 * OutDigit(AdcOut(c)) + DecimalOf(AdcReg(c))
<1> DEFINE ah == c.reg \div 16
           al == c.reg % 16
           bh == c.val \div 16
           bl == c.val % 16
           carry == CarryIn(c.status)
           low == LowNibble(c)
           high == HighNibble(c)
           lowDigit == Corrected(low) % 16
           highDigit == Corrected(high) % 16
           out == OutDigit(AdcOut(c))
           r == AdcReg(c)
<1>1. /\ ah \in 0 .. 9 /\ al \in 0 .. 9 /\ bh \in 0 .. 9 /\ bl \in 0 .. 9
      /\ carry \in {0, 1}
  BY Nibbles DEF IsDecimal
<1>2. low = al + bl + carry
  BY DEF LowNibble
<1>3. high = ah + bh + (IF low > 9 THEN 1 ELSE 0)
  BY DEF HighNibble
<1>4. r = (highDigit * 16) + lowDigit
  BY DEF AdcReg
<1>5. AdcOut(c) <=> Corrected(high) > 15
  BY DEF AdcOut
<1>6. /\ DecimalOf(c.reg) = 10 * ah + al
      /\ DecimalOf(c.val) = 10 * bh + bl
      /\ DecimalOf(r) = 10 * (r \div 16) + (r % 16)
  BY DEF DecimalOf
<1> HIDE DEF ah, al, bh, bl, carry, low, high, r
<1>7. low \in 0 .. 19 /\ high \in 0 .. 19
  BY <1>1, <1>2, <1>3
<1>8. /\ lowDigit = (IF low > 9 THEN low - 10 ELSE low)
      /\ highDigit = (IF high > 9 THEN high - 10 ELSE high)
      /\ out = IF high > 9 THEN 1 ELSE 0
  BY <1>5, <1>7 DEF Corrected, OutDigit
<1> HIDE DEF lowDigit, highDigit, out
<1>9. lowDigit \in 0 .. 9 /\ highDigit \in 0 .. 9
  BY <1>7, <1>8
<1>10. r % 16 = lowDigit /\ r \div 16 = highDigit
  BY <1>4, <1>9
<1>11. IsDecimal(r)
  BY <1>9, <1>10 DEF IsDecimal
<1>12. DecimalOf(c.reg) + DecimalOf(c.val) + carry = 100 * out + DecimalOf(r)
  BY <1>1, <1>2, <1>3, <1>6, <1>7, <1>8, <1>10
<1> QED
  BY <1>11, <1>12 DEF carry, r, out

LEMMA SbcDecimal ==
    ASSUME NEW c \in Chip, D \in c.status, IsDecimal(c.reg), IsDecimal(c.val)
    PROVE  /\ IsDecimal(SbcReg(c))
           /\ DecimalOf(c.reg) - DecimalOf(c.val) - (1 - CarryIn(c.status))
                  = DecimalOf(SbcReg(c)) - 100 * (1 - OutDigit(Difference(c) > 255))
<1> DEFINE ah == c.reg \div 16
           al == c.reg % 16
           bh == c.val \div 16
           bl == c.val % 16
           carry == CarryIn(c.status)
           digits == al - bl - (1 - carry)
           tens == ah - bh
           difference == Difference(c)
           out == OutDigit(Difference(c) > 255)
           low == IF al < bl + (1 - carry) THEN (difference - 6) % 65536 ELSE difference
           corrected == IF low < 256 THEN (low - 96) % 65536 ELSE low
           lowDigit == IF digits < 0 THEN digits + 10 ELSE digits
           above == IF digits < 0 THEN tens - 1 ELSE tens
           highDigit == IF above < 0 THEN above + 10 ELSE above
           r == SbcReg(c)
<1>1. /\ ah \in 0 .. 9 /\ al \in 0 .. 9 /\ bh \in 0 .. 9 /\ bl \in 0 .. 9
      /\ carry \in {0, 1}
  BY Nibbles DEF IsDecimal
<1>2. c.reg = 16 * ah + al /\ c.val = 16 * bh + bl
  BY Nibbles
<1>3. difference = c.reg + (255 - c.val) + carry
  BY DEF Difference
<1>4. r = corrected % 256
  BY DEF SbcReg, DecimalDifference
<1>5. /\ DecimalOf(c.reg) = 10 * ah + al
      /\ DecimalOf(c.val) = 10 * bh + bl
      /\ DecimalOf(r) = 10 * (r \div 16) + (r % 16)
  BY DEF DecimalOf
<1>6. out = IF difference > 255 THEN 1 ELSE 0
  BY DEF OutDigit
<1> HIDE DEF ah, al, bh, bl, carry, difference, out, r
<1>7. digits \in -10 .. 9 /\ tens \in -9 .. 9
  BY <1>1
<1>8. difference = 256 + 16 * tens + digits
  BY <1>1, <1>2, <1>3
<1>9. al < bl + (1 - carry) <=> digits < 0
  BY <1>1
<1> HIDE DEF digits, tens
<1>10. low = IF digits < 0 THEN difference - 6 ELSE difference
  BY <1>7, <1>8, <1>9
<1>11. low = 256 + 16 * above + lowDigit
  BY <1>7, <1>8, <1>10
<1> HIDE DEF low
<1>12. above \in -10 .. 9 /\ lowDigit \in 0 .. 9
  BY <1>7
<1>13. difference > 255 <=> above >= 0
  BY <1>7, <1>8
<1> HIDE DEF lowDigit, above
<1>14. corrected = IF above < 0 THEN low - 96 ELSE low
  BY <1>11, <1>12
<1> HIDE DEF corrected
<1>15. highDigit \in 0 .. 9
  BY <1>12
<1>16. r = 16 * highDigit + lowDigit
  BY <1>4, <1>11, <1>12, <1>14
<1> HIDE DEF highDigit
<1>17. r % 16 = lowDigit /\ r \div 16 = highDigit
  BY <1>12, <1>15, <1>16
<1>18. IsDecimal(r)
  BY <1>12, <1>15, <1>17 DEF IsDecimal
<1>19. DecimalOf(c.reg) - DecimalOf(c.val) - (1 - carry) = 10 * tens + digits
  BY <1>1, <1>5 DEF tens, digits
<1>20. 10 * tens + digits = DecimalOf(r) - 100 * (1 - out)
  BY <1>5, <1>6, <1>7, <1>12, <1>13, <1>17 DEF lowDigit, above, highDigit
<1> QED
  BY <1>18, <1>19, <1>20 DEF carry, out, r

(* In decimal mode ADC and SBC of decimal numbers give decimal numbers, and *)
(* carry or borrow exactly when the result has left 0 .. 99.                *)
THEOREM DecimalArithmeticCorrect == Spec => DecimalArithmetic
<1>1. TypeOK /\ [Next]_vars =>
        [LET carry == CarryIn(chip.status)
             out == CarryIn(chip'.status)
             a == DecimalOf(chip.reg)
             b == DecimalOf(chip.val)
             r == DecimalOf(chip'.reg)
         IN  D \in chip.status /\ IsDecimal(chip.reg) /\ IsDecimal(chip.val) =>
                 /\ op' \in {"ADC", "SBC"} => IsDecimal(chip'.reg)
                 /\ op' = "ADC" => a + b + carry = 100 * out + r
                 /\ op' = "SBC" => a - b - (1 - carry) = r - 100 * (1 - out)]_vars
  <2> SUFFICES ASSUME TypeOK, Next, ~UNCHANGED vars,
                      D \in chip.status, IsDecimal(chip.reg), IsDecimal(chip.val)
               PROVE  LET carry == CarryIn(chip.status)
                          out == CarryIn(chip'.status)
                          a == DecimalOf(chip.reg)
                          b == DecimalOf(chip.val)
                          r == DecimalOf(chip'.reg)
                      IN  /\ op' \in {"ADC", "SBC"} => IsDecimal(chip'.reg)
                          /\ op' = "ADC" => a + b + carry = 100 * out + r
                          /\ op' = "SBC" => a - b - (1 - carry) = r - 100 * (1 - out)
    OBVIOUS
  <2>1. chip \in Chip
    BY DEF TypeOK
  <2>2. CASE op' = "ADC"
    <3>1. chip'.reg = AdcReg(chip) /\ CarryIn(chip'.status) = OutDigit(AdcOut(chip))
      BY <2>1, <2>2, Executed, AdcLeaves DEF CarryIn, OutDigit
    <3> QED
      BY <2>1, <2>2, <3>1, AdcDecimal
  <2>3. CASE op' = "SBC"
    <3>1. /\ chip'.reg = SbcReg(chip)
          /\ CarryIn(chip'.status) = OutDigit(Difference(chip) > 255)
      BY <2>1, <2>3, Executed, SbcLeaves DEF CarryIn, OutDigit
    <3> QED
      BY <2>1, <2>3, <3>1, SbcDecimal
  <2> QED
    BY <2>2, <2>3
<1> QED
  BY <1>1, TypeCorrect, PTL DEF Spec, DecimalArithmetic

-----------------------------------------------------------------------------
(* A compare is a subtraction without borrow that keeps the register.       *)
LEMMA CmpLeaves ==
    ASSUME NEW c \in Chip
    PROVE  LET s == CmpValue(c).status
               n == (c.reg - c.val) % 256
           IN  /\ C \in s <=> c.reg >= c.val
               /\ Z \in s <=> n = 0
               /\ N \in s <=> n >= 128
<1> DEFINE n == (c.reg - c.val) % 256
           zn == SetZeroAndNegative(c.status, n)
           above == c.reg >= c.val
           s == With(zn, C, above)
<1>1. n \in Byte /\ c.status \in SUBSET BitNo /\ above \in BOOLEAN
  <2>1. c.reg - c.val \in Int
    BY ByteSteps DEF Chip
  <2> QED
    BY <2>1, ByteRange DEF Chip
<1> HIDE DEF n, above
<1>2. zn \in SUBSET BitNo /\ (Z \in zn <=> n = 0) /\ (N \in zn <=> n >= 128)
  BY <1>1, ZeroAndNegative
<1> HIDE DEF zn
<1>3. /\ C \in s <=> above
      /\ Z \in s <=> Z \in zn
      /\ N \in s <=> N \in zn
  BY <1>1, WithFlag DEF C, Z, N
<1> HIDE DEF s
<1>4. CmpValue(c) = [c EXCEPT !.status = s]
  BY DEF CmpValue, s, zn, n, above
<1>5. CmpValue(c).status = s
  BY <1>4 DEF Chip
<1> QED
  BY <1>2, <1>3, <1>5 DEF n, above

LEMMA SameDifference ==
    ASSUME NEW a \in Byte, NEW b \in Byte
    PROVE  /\ (a - b) % 256 = (a + (255 - b) + 1) % 256
           /\ a >= b <=> a + (255 - b) + 1 > 255
BY DEF Byte

(* CMP leaves the C, Z and N of an SBC with the carry set.                  *)
THEOREM CompareIsSubtractCorrect == Spec => CompareIsSubtract
<1>1. TypeOK /\ [Next]_vars =>
        [op' = "CMP" =>
             LET s == SbcValue([chip EXCEPT !.status = @ \cup {C}])
             IN  chip'.status \cap {C, Z, N} = s.status \cap {C, Z, N}]_vars
  <2> DEFINE d == [chip EXCEPT !.status = @ \cup {C}]
  <2> SUFFICES ASSUME TypeOK, Next, ~UNCHANGED vars, op' = "CMP"
               PROVE  chip'.status \cap {C, Z, N} = SbcValue(d).status \cap {C, Z, N}
    OBVIOUS
  <2>1. chip \in Chip /\ chip.reg \in Byte /\ chip.val \in Byte
    BY DEF TypeOK, Chip
  <2>2. d \in Chip /\ d.reg = chip.reg /\ d.val = chip.val /\ C \in d.status
    BY <2>1, Flags DEF Chip
  <2> HIDE DEF d
  <2>3. CarryIn(d.status) = 1
    BY <2>2 DEF CarryIn
  <2>4. Difference(d) = chip.reg + (255 - chip.val) + 1
    BY <2>2, <2>3 DEF Difference
  <2>5. /\ C \in SbcValue(d).status <=> chip.reg >= chip.val
        /\ Z \in SbcValue(d).status <=> (chip.reg - chip.val) % 256 = 0
        /\ N \in SbcValue(d).status <=> (chip.reg - chip.val) % 256 >= 128
    BY <2>1, <2>2, <2>4, SbcLeaves, SameDifference
  <2>6. /\ C \in chip'.status <=> chip.reg >= chip.val
        /\ Z \in chip'.status <=> (chip.reg - chip.val) % 256 = 0
        /\ N \in chip'.status <=> (chip.reg - chip.val) % 256 >= 128
    BY <2>1, Executed, CmpLeaves
  <2> QED
    BY <2>5, <2>6
<1> QED
  BY <1>1, TypeCorrect, PTL DEF Spec, CompareIsSubtract

-----------------------------------------------------------------------------
(* A subtraction takes an addition back.                                    *)
LEMMA BinaryUndone ==
    ASSUME NEW a \in Byte, NEW b \in Byte, NEW carry \in {0, 1}
    PROVE  (((a + b + carry) % 256) + (255 - b) + (1 - carry)) % 256 = a
<1> DEFINE n == a + b + carry
           r == n % 256
<1>1. n \in 0 .. 511 /\ n = a + b + carry
  BY ByteSums
<1> HIDE DEF n
<1>2. r = IF n < 256 THEN n ELSE n - 256
  BY <1>1
<1> HIDE DEF r
<1>3. (r + (255 - b) + (1 - carry)) % 256 = a
  BY <1>1, <1>2 DEF Byte
<1> QED
  BY <1>3 DEF n, r

LEMMA DecimalRange ==
    ASSUME NEW x \in Byte, IsDecimal(x)
    PROVE  DecimalOf(x) \in 0 .. 99
BY DEF IsDecimal, DecimalOf, Byte

LEMMA DecimalIsOne ==
    ASSUME NEW x \in Byte, NEW y \in Byte, IsDecimal(x), IsDecimal(y),
           DecimalOf(x) = DecimalOf(y)
    PROVE  x = y
BY DEF IsDecimal, DecimalOf, Byte

(* SBC with the opposite carry gives back what ADC added to, in both modes. *)
THEOREM SubtractUndoesAddCorrect == Spec => SubtractUndoesAdd
<1>1. TypeOK /\ [Next]_vars =>
        [op' = "ADC" /\ (D \in chip.status => IsDecimal(chip.reg) /\ IsDecimal(chip.val)) =>
             SbcValue([chip' EXCEPT !.status = With(@, C, C \notin chip.status)]).reg
                 = chip.reg]_vars
  <2> DEFINE e == [chip' EXCEPT !.status = With(@, C, C \notin chip.status)]
             a == chip.reg
             b == chip.val
             carry == CarryIn(chip.status)
  <2> SUFFICES ASSUME TypeOK, Next, ~UNCHANGED vars, op' = "ADC",
                      D \in chip.status => IsDecimal(chip.reg) /\ IsDecimal(chip.val)
               PROVE  SbcValue(e).reg = a
    OBVIOUS
  <2>1. chip \in Chip /\ a \in Byte /\ b \in Byte /\ carry \in {0, 1}
    BY CarryIs DEF TypeOK, Chip
  <2>2. /\ chip' \in Chip /\ chip'.reg = AdcReg(chip) /\ chip'.val = b
        /\ D \in chip'.status <=> D \in chip.status
    BY <2>1, Executed, AdcLeaves
  <2>3. /\ e \in Chip /\ e.reg = AdcReg(chip) /\ e.val = b
        /\ C \in e.status <=> C \notin chip.status
        /\ D \in e.status <=> D \in chip.status
    <3> DEFINE clear == C \notin chip.status
               s == With(chip'.status, C, clear)
    <3>0. clear \in BOOLEAN
      OBVIOUS
    <3> HIDE DEF clear
    <3>1. /\ s \in SUBSET BitNo
          /\ C \in s <=> clear
          /\ D \in s <=> D \in chip'.status
      BY <2>2, <3>0, WithFlag, WithType, Flags DEF Chip, C, D
    <3> HIDE DEF s
    <3>2. e = [chip' EXCEPT !.status = s]
      BY DEF s, clear
    <3> HIDE DEF e
    <3>3. e \in Chip /\ e.reg = chip'.reg /\ e.val = chip'.val /\ e.status = s
      BY <2>2, <3>1, <3>2 DEF Chip
    <3> QED
      BY <2>2, <3>1, <3>3 DEF clear
  <2> HIDE DEF e
  <2>4. CarryIn(e.status) = 1 - carry
    BY <2>3 DEF CarryIn
  <2>5. SbcValue(e).reg = SbcReg(e)
    BY <2>3, SbcLeaves
  <2>6. CASE D \notin chip.status
    <3>1. AdcReg(chip) = (a + b + carry) % 256
      BY <2>6 DEF AdcReg, Sum
    <3>2. SbcReg(e) = (AdcReg(chip) + (255 - b) + (1 - carry)) % 256
      BY <2>3, <2>4, <2>6 DEF SbcReg, Difference
    <3> HIDE DEF a, b, carry
    <3> QED
      BY <2>1, <2>5, <3>1, <3>2, BinaryUndone
  <2>7. CASE D \in chip.status
    <3> DEFINE r == AdcReg(chip)
               x == SbcReg(e)
               out == OutDigit(AdcOut(chip))
               kept == OutDigit(Difference(e) > 255)
               da == DecimalOf(a)
               db == DecimalOf(b)
               dr == DecimalOf(r)
               dx == DecimalOf(x)
    <3>1. IsDecimal(a) /\ IsDecimal(b)
      BY <2>7
    <3>2. IsDecimal(r) /\ da + db + carry = 100 * out + dr
      BY <2>1, <2>7, <3>1, AdcDecimal
    <3>3. /\ IsDecimal(x)
          /\ dr - db - (1 - (1 - carry)) = dx - 100 * (1 - kept)
      BY <2>3, <2>4, <2>7, <3>1, <3>2, SbcDecimal
    <3>4. r \in Byte /\ x \in Byte
      BY <2>1, <2>3, Nibbles, Differences
    <3>5. out \in {0, 1} /\ kept \in {0, 1}
      BY DEF OutDigit
    <3> HIDE DEF a, b, carry, r, x, out, kept
    <3>6. da \in 0 .. 99 /\ db \in 0 .. 99 /\ dr \in 0 .. 99 /\ dx \in 0 .. 99
      BY <2>1, <3>1, <3>2, <3>3, <3>4, DecimalRange
    <3> HIDE DEF da, db, dr, dx
    <3>7. dx = da
      BY <2>1, <3>2, <3>3, <3>5, <3>6
    <3>8. x = a
      BY <2>1, <3>1, <3>3, <3>4, <3>7, DecimalIsOne DEF da, dx
    <3> QED
      BY <2>5, <3>8 DEF x
  <2> QED
    BY <2>6, <2>7
<1> QED
  BY <1>1, TypeCorrect, PTL DEF Spec, SubtractUndoesAdd

-----------------------------------------------------------------------------
(* Rotations.                                                               *)
LEMMA ShiftedLeaves ==
    ASSUME NEW c \in Chip, NEW value \in Byte, NEW out \in BOOLEAN
    PROVE  LET d == Shifted(c, value, out)
           IN  d \in Chip /\ d.val = value /\ (C \in d.status <=> out)
<1> DEFINE carried == With(c.status, C, out)
           s == SetZeroAndNegative(carried, value)
<1>1. carried \in SUBSET BitNo /\ (C \in carried <=> out)
  BY WithType, WithFlag, Flags DEF Chip
<1> HIDE DEF carried
<1>2. C \in BitNo \ {Z, N, U}
  BY Flags DEF C, Z, N, U
<1>3. s \in SUBSET BitNo /\ (C \in s <=> C \in carried)
  BY <1>1, <1>2, ZeroAndNegative
<1> HIDE DEF s
<1>4. Shifted(c, value, out) = [c EXCEPT !.val = value, !.status = s]
  BY DEF Shifted, s, carried
<1>5. /\ Shifted(c, value, out) \in Chip
      /\ Shifted(c, value, out).val = value /\ Shifted(c, value, out).status = s
  BY <1>3, <1>4 DEF Chip
<1> QED
  BY <1>1, <1>3, <1>5

RolByte(x, carry) == ((x * 2) % 256) + carry
RorByte(x, carry) == (x \div 2) + 128 * carry

LEMMA RolByteIs ==
    ASSUME NEW x \in Byte, NEW carry \in {0, 1}
    PROVE  /\ RolByte(x, carry) \in Byte
           /\ RolByte(x, carry) % 2 = carry
           /\ x >= 128 => RorByte(RolByte(x, carry), 1) = x
           /\ x < 128 => RorByte(RolByte(x, carry), 0) = x
<1> DEFINE left == RolByte(x, carry)
<1>1. (x * 2) % 256 = IF x < 128 THEN 2 * x ELSE 2 * x - 256
  BY DEF Byte
<1>2. left = (IF x < 128 THEN 2 * x ELSE 2 * x - 256) + carry
  BY <1>1 DEF RolByte
<1> HIDE DEF left
<1>3. /\ left \in Byte /\ left % 2 = carry
      /\ x >= 128 => RorByte(left, 1) = x
      /\ x < 128 => RorByte(left, 0) = x
  BY <1>2 DEF Byte, RorByte
<1> QED
  BY <1>3 DEF left

LEMMA RorByteIs ==
    ASSUME NEW x \in Byte, NEW carry \in {0, 1}
    PROVE  /\ RorByte(x, carry) \in Byte
           /\ RorByte(x, carry) >= 128 <=> carry = 1
           /\ x % 2 = 1 => RolByte(RorByte(x, carry), 1) = x
           /\ x % 2 # 1 => RolByte(RorByte(x, carry), 0) = x
<1> DEFINE right == RorByte(x, carry)
<1>1. /\ right \in Byte
      /\ right >= 128 <=> carry = 1
      /\ (right * 2) % 256 = 2 * (x \div 2)
  BY DEF Byte, RorByte
<1> HIDE DEF right
<1>2. /\ x % 2 = 1 => RolByte(right, 1) = x
      /\ x % 2 # 1 => RolByte(right, 0) = x
  BY <1>1 DEF Byte, RolByte
<1> QED
  BY <1>1, <1>2 DEF right

LEMMA RolLeaves ==
    ASSUME NEW c \in Chip
    PROVE  LET d == RolValue(c)
           IN  /\ d \in Chip
               /\ d.val = RolByte(c.val, CarryIn(c.status))
               /\ C \in d.status <=> c.val >= 128
<1>1. c.val \in Byte /\ CarryIn(c.status) \in {0, 1}
  BY CarryIs DEF Chip
<1>2. RolByte(c.val, CarryIn(c.status)) \in Byte
  BY <1>1, RolByteIs
<1>3. Negative(c.val) \in BOOLEAN /\ (Negative(c.val) <=> c.val >= 128)
  <2>1. Negative(c.val) \in BOOLEAN
    BY DEF Negative
  <2> QED
    BY <1>1, <2>1, NegativeIs
<1>4. RolValue(c) = Shifted(c, RolByte(c.val, CarryIn(c.status)), Negative(c.val))
  BY DEF RolValue, RolByte
<1> QED
  BY <1>2, <1>3, <1>4, ShiftedLeaves

LEMMA RorLeaves ==
    ASSUME NEW c \in Chip
    PROVE  LET d == RorValue(c)
           IN  /\ d \in Chip
               /\ d.val = RorByte(c.val, CarryIn(c.status))
               /\ C \in d.status <=> c.val % 2 = 1
<1>1. c.val \in Byte /\ CarryIn(c.status) \in {0, 1}
  BY CarryIs DEF Chip
<1>2. RorByte(c.val, CarryIn(c.status)) \in Byte
  BY <1>1, RorByteIs
<1> DEFINE out == 0 \in Bits[c.val]
<1>3. out \in BOOLEAN /\ (out <=> c.val % 2 = 1)
  BY <1>1, BitsAre
<1>4. RorValue(c) = Shifted(c, RorByte(c.val, CarryIn(c.status)), out)
  BY DEF RorValue, RorByte
<1> HIDE DEF out
<1> QED
  BY <1>2, <1>3, <1>4, ShiftedLeaves

(* ROR takes back what ROL did to the byte and the carry, and the reverse.  *)
THEOREM RotatesInvertCorrect == Spec => RotatesInvert
<1>1. TypeOK /\ [Next]_vars =>
        [LET Undone(c) == c.val = chip.val /\ (C \in c.status) = (C \in chip.status)
         IN  /\ op' = "ROL" => Undone(RorValue(chip'))
             /\ op' = "ROR" => Undone(RolValue(chip'))]_vars
  <2> DEFINE Undone(c) == c.val = chip.val /\ (C \in c.status) = (C \in chip.status)
             x == chip.val
             carry == CarryIn(chip.status)
  <2> SUFFICES ASSUME TypeOK, Next, ~UNCHANGED vars
               PROVE  /\ op' = "ROL" => Undone(RorValue(chip'))
                      /\ op' = "ROR" => Undone(RolValue(chip'))
    OBVIOUS
  <2>1. chip \in Chip /\ x \in Byte /\ carry \in {0, 1}
    BY CarryIs DEF TypeOK, Chip
  <2>2. carry = 1 <=> C \in chip.status
    BY CarryIs
  <2>3. CASE op' = "ROL"
    <3> DEFINE moved == chip'.val
    <3>1. /\ chip' \in Chip
          /\ moved = RolByte(x, carry)
          /\ C \in chip'.status <=> x >= 128
      BY <2>1, <2>3, Executed, RolLeaves
    <3>2. /\ RorValue(chip').val = RorByte(moved, CarryIn(chip'.status))
          /\ C \in RorValue(chip').status <=> moved % 2 = 1
      BY <3>1, RorLeaves
    <3> HIDE DEF x, carry, moved
    <3>3. C \in RorValue(chip').status <=> C \in chip.status
      BY <2>1, <2>2, <3>1, <3>2, RolByteIs
    <3>4. CASE x >= 128
      <4>1. CarryIn(chip'.status) = 1
        BY <3>1, <3>4 DEF CarryIn
      <4>2. RorValue(chip').val = x
        BY <2>1, <3>1, <3>2, <3>4, <4>1, RolByteIs
      <4> QED
        BY <2>3, <3>3, <4>2 DEF x
    <3>5. CASE ~(x >= 128)
      <4>1. CarryIn(chip'.status) = 0
        BY <3>1, <3>5 DEF CarryIn
      <4>2. x < 128
        BY <2>1, <3>5 DEF Byte
      <4>3. RorValue(chip').val = x
        BY <2>1, <3>1, <3>2, <4>1, <4>2, RolByteIs
      <4> QED
        BY <2>3, <3>3, <4>3 DEF x
    <3> QED
      BY <3>4, <3>5
  <2>4. CASE op' = "ROR"
    <3> DEFINE moved == chip'.val
    <3>1. /\ chip' \in Chip
          /\ moved = RorByte(x, carry)
          /\ C \in chip'.status <=> x % 2 = 1
      BY <2>1, <2>4, Executed, RorLeaves
    <3>2. /\ RolValue(chip').val = RolByte(moved, CarryIn(chip'.status))
          /\ C \in RolValue(chip').status <=> moved >= 128
      BY <3>1, RolLeaves
    <3> HIDE DEF x, carry, moved
    <3>3. C \in RolValue(chip').status <=> C \in chip.status
      BY <2>1, <2>2, <3>1, <3>2, RorByteIs
    <3>4. CASE x % 2 = 1
      <4>1. CarryIn(chip'.status) = 1
        BY <3>1, <3>4 DEF CarryIn
      <4>2. RolValue(chip').val = x
        BY <2>1, <3>1, <3>2, <3>4, <4>1, RorByteIs
      <4> QED
        BY <2>4, <3>3, <4>2 DEF x
    <3>5. CASE ~(x % 2 = 1)
      <4>1. CarryIn(chip'.status) = 0
        BY <3>1, <3>5 DEF CarryIn
      <4>2. x % 2 # 1
        BY <2>1, <3>5 DEF Byte
      <4>3. RolValue(chip').val = x
        BY <2>1, <3>1, <3>2, <4>1, <4>2, RorByteIs
      <4> QED
        BY <2>4, <3>3, <4>3 DEF x
    <3> QED
      BY <3>4, <3>5
  <2> QED
    BY <2>3, <2>4
<1> QED
  BY <1>1, TypeCorrect, PTL DEF Spec, RotatesInvert

-----------------------------------------------------------------------------
(* The functions of linear.c.                                               *)
LEMMA SameBytes ==
    /\ Linear!Byte = Byte /\ Linear!BitNo = BitNo
    /\ Linear!Bits = Bits /\ Linear!ValueOf = ValueOf
    /\ Linear!FlagInstructions = FlagInstructions
<1>1. Linear!Byte = Byte /\ Linear!BitNo = BitNo
  BY DEF Linear!Byte, Byte, Linear!BitNo, BitNo
<1>2. Linear!Bits = Bits
  BY <1>1 DEF Linear!Bits, Bits
<1>3. Linear!ValueOf = ValueOf
  BY <1>1, <1>2 DEF Linear!ValueOf, ValueOf
<1>4. Linear!FlagInstructions = FlagInstructions
  BY DEF Linear!FlagInstructions, FlagInstructions, C, D, I, V,
         Linear!C, Linear!D, Linear!I, Linear!V
<1> QED
  BY <1>1, <1>2, <1>3, <1>4

LEMMA SameFlags ==
    /\ Linear!C = C /\ Linear!Z = Z /\ Linear!D = D /\ Linear!B = B
    /\ Linear!U = U /\ Linear!V = V /\ Linear!N = N
BY DEF Linear!C, Linear!Z, Linear!D, Linear!B, Linear!U, Linear!V, Linear!N,
       C, Z, D, B, U, V, N

LEMMA SameWith ==
    ASSUME NEW status, NEW flag, NEW condition, NEW value
    PROVE  /\ Linear!With(status, flag, condition) = With(status, flag, condition)
           /\ Linear!Negative(value) = Negative(value)
           /\ Linear!CarryIn(status) = CarryIn(status)
           /\ Linear!set_ZN(status, value) = SetZeroAndNegative(status, value)
BY SameBytes, SameFlags
   DEF Linear!With, With, Linear!Negative, Negative, Linear!CarryIn, CarryIn,
       Linear!set_ZN, SetZeroAndNegative

LEMMA SameResults ==
    ASSUME NEW c \in Chip, NEW value
    PROVE  /\ Linear!SetRegister(c, value) = Result(c, value)
           /\ Linear!SetMemory(c, value) = Stepped(c, value)
BY SameWith DEF Linear!SetRegister, Linear!SetMemory, Result, Stepped

(* A store to the status, then one to the byte and the status.              *)
LEMMA SetTwice ==
    ASSUME NEW c \in Chip, NEW status, NEW value
    PROVE  Stepped([c EXCEPT !.status = status], value)
             = [c EXCEPT !.val = value, !.status = SetZeroAndNegative(status, value)]
BY DEF Stepped, Chip

LEMMA SameShifts ==
    ASSUME NEW c \in Chip
    PROVE  /\ Linear!asl_memory_value(c) = AslValue(c)
           /\ Linear!lsr_memory_value(c) = LsrValue(c)
           /\ Linear!rol_memory_value(c) = RolValue(c)
           /\ Linear!ror_memory_value(c) = RorValue(c)
<1> DEFINE x == c.val
           carry == CarryIn(c.status)
<1>1. x \in Byte /\ carry \in {0, 1} /\ (carry = 1 <=> C \in c.status)
  BY CarryIs DEF Chip
<1>2. ASSUME NEW out, NEW value
      PROVE  Linear!SetMemory([c EXCEPT !.status = Linear!With(c.status, Linear!C, out)], value)
               = Shifted(c, value, out)
  <2> DEFINE s == With(c.status, C, out)
             d == [c EXCEPT !.status = s]
  <2>1. s \in SUBSET BitNo
    BY WithType, Flags DEF Chip
  <2>2. d \in Chip
    BY <2>1, SetStatusType
  <2>3. Linear!SetMemory(d, value) = Stepped(d, value)
    BY <2>2, SameResults
  <2>4. Shifted(c, value, out)
          = [c EXCEPT !.val = value, !.status = SetZeroAndNegative(s, value)]
    BY DEF Shifted
  <2> HIDE DEF s
  <2>5. Stepped(d, value)
          = [c EXCEPT !.val = value, !.status = SetZeroAndNegative(s, value)]
    BY SetTwice
  <2> QED
    BY <2>3, <2>4, <2>5, SameWith, SameFlags DEF s
<1>3. (2 * x) % 256 = (x * 2) % 256 /\ (2 * x + carry) % 256 = ((x * 2) % 256) + carry
  <2> HIDE DEF x, carry
  <2> QED
    BY <1>1 DEF Byte
<1>4. ValueOf[Bits[x \div 2] \cup (IF C \in c.status THEN {7} ELSE {})]
        = (x \div 2) + 128 * carry
  <2> DEFINE half == x \div 2
             S == Bits[half] \cup (IF C \in c.status THEN {7} ELSE {})
  <2> HIDE DEF x, carry
  <2>1. half \in Byte /\ half < 128
    BY <1>1 DEF Byte
  <2> HIDE DEF half
  <2>2. Bits[half] \in SUBSET BitNo /\ 7 \notin Bits[half] /\ SumOf(Bits[half]) = half
    <3>1. Bits[half] \in SUBSET BitNo /\ SumOf(Bits[half]) = half
      BY <2>1, BitsAre, SumOfBits
    <3>2. ~Negative(half)
      BY <2>1, NegativeIs DEF Byte
    <3> QED
      BY <3>1, <3>2 DEF Negative
  <2>3. S \in SUBSET BitNo
    BY <2>2 DEF BitNo
  <2>4. ValueOf[S] = SumOf(S)
    BY <2>3, ValueOfIs
  <2>5. SumOf(S) = half + 128 * carry
    <3>1. CASE C \in c.status
      <4>1. carry = 1 /\ S = Bits[half] \cup {7}
        BY <1>1, <3>1
      <4>2. /\ BitOf(S, 0) = BitOf(Bits[half], 0) /\ BitOf(S, 1) = BitOf(Bits[half], 1)
            /\ BitOf(S, 2) = BitOf(Bits[half], 2) /\ BitOf(S, 3) = BitOf(Bits[half], 3)
            /\ BitOf(S, 4) = BitOf(Bits[half], 4) /\ BitOf(S, 5) = BitOf(Bits[half], 5)
            /\ BitOf(S, 6) = BitOf(Bits[half], 6)
            /\ BitOf(S, 7) = 1 /\ BitOf(Bits[half], 7) = 0
        BY <2>2, <4>1 DEF BitOf
      <4>3. \A i : BitOf(S, i) \in {0, 1} /\ BitOf(Bits[half], i) \in {0, 1}
        BY DEF BitOf
      <4> HIDE DEF S
      <4> QED
        BY <2>2, <4>1, <4>2, <4>3 DEF SumOf
    <3>2. CASE C \notin c.status
      <4>1. carry = 0 /\ S = Bits[half]
        BY <1>1, <3>2
      <4> HIDE DEF S
      <4> QED
        BY <2>1, <2>2, <4>1 DEF Byte
    <3> QED
      BY <3>1, <3>2
  <2> QED
    BY <2>4, <2>5 DEF half
<1>5. Linear!asl_memory_value(c) = AslValue(c)
  BY <1>2, <1>3, SameBytes DEF Linear!asl_memory_value, AslValue, Negative
<1>6. Linear!lsr_memory_value(c) = LsrValue(c)
  BY <1>2, SameBytes, SameFlags DEF Linear!lsr_memory_value, LsrValue
<1>7. Linear!rol_memory_value(c) = RolValue(c)
  <2>1. Linear!CarryIn(c.status) = carry
    BY SameWith
  <2> DEFINE value == (2 * x + carry) % 256
  <2>2. Linear!rol_memory_value(c)
          = Linear!SetMemory([c EXCEPT !.status =
                Linear!With(c.status, Linear!C, Negative(x))], value)
    BY <2>1, SameBytes DEF Linear!rol_memory_value, Negative
  <2>3. RolValue(c) = Shifted(c, value, Negative(x))
    BY <1>3 DEF RolValue
  <2> HIDE DEF value
  <2> QED
    BY <1>2, <2>2, <2>3
<1>8. Linear!ror_memory_value(c) = RorValue(c)
  BY <1>2, <1>4, SameBytes, SameFlags DEF Linear!ror_memory_value, RorValue
<1> QED
  BY <1>5, <1>6, <1>7, <1>8

LEMMA SameLogic ==
    ASSUME NEW c \in Chip
    PROVE  /\ Linear!php(c) = PushStatus(c) /\ Linear!plp(c) = PullStatus(c)
           /\ Linear!op_and(c) = AndValue(c)
           /\ Linear!eor_memory_value(c) = EorValue(c)
           /\ Linear!or_memory_value(c) = OraValue(c)
           /\ Linear!bit_memory_value(c) = BitValue(c)
<1>1. Bits[c.reg] \in SUBSET BitNo /\ Bits[c.val] \in SUBSET BitNo
  BY BitsAre DEF Chip
<1>2. Linear!php(c) = PushStatus(c) /\ Linear!plp(c) = PullStatus(c)
  BY SameBytes, SameFlags DEF Linear!php, Linear!plp, PushStatus, PullStatus
<1>3. Linear!op_and(c) = AndValue(c) /\ Linear!or_memory_value(c) = OraValue(c)
  BY SameBytes, SameResults
     DEF Linear!op_and, Linear!or_memory_value, AndValue, OraValue
<1>4. Linear!eor_memory_value(c) = EorValue(c)
  <2>1. {i \in BitNo : (i \in Bits[c.reg]) # (i \in Bits[c.val])}
          = (Bits[c.reg] \ Bits[c.val]) \cup (Bits[c.val] \ Bits[c.reg])
    BY <1>1
  <2> QED
    BY <2>1, SameBytes, SameResults DEF Linear!eor_memory_value, EorValue
<1>5. Linear!bit_memory_value(c) = BitValue(c)
  <2> DEFINE none == Bits[c.reg] \cap Bits[c.val] = {}
             zero == With(c.status, Z, none)
             sign == With(zero, N, N \in Bits[c.val])
             s == With(sign, V, V \in Bits[c.val]) \cup {U}
             t == (c.status \ {Z, N, V}) \cup {U} \cup (Bits[c.val] \cap {N, V})
                      \cup (IF none THEN {Z} ELSE {})
  <2>1. N = 7 /\ V = 6
    BY DEF N, V
  <2>2. BitValue(c) = [c EXCEPT !.status = s]
    BY <2>1 DEF BitValue, Negative
  <2>3. Linear!bit_memory_value(c) = [c EXCEPT !.status = t]
    BY SameBytes, SameFlags DEF Linear!bit_memory_value
  <2>4. s = t
    <3>1. none \in BOOLEAN /\ (N \in Bits[c.val]) \in BOOLEAN /\ (V \in Bits[c.val]) \in BOOLEAN
      OBVIOUS
    <3>2. Z # N /\ Z # V /\ N # V
      BY DEF Z, N, V
    <3> HIDE DEF none
    <3>3. \A f : f \in zero <=> IF f = Z THEN none ELSE f \in c.status
      BY DEF With
    <3> HIDE DEF zero
    <3>4. \A f : f \in sign <=> IF f = N THEN N \in Bits[c.val] ELSE f \in zero
      BY DEF With
    <3> HIDE DEF sign
    <3>5. \A f : f \in s <=> f = U \/ IF f = V THEN V \in Bits[c.val] ELSE f \in sign
      BY DEF With
    <3>6. \A f : f \in t <=> \/ f = U
                             \/ f \in c.status /\ f \notin {Z, N, V}
                             \/ f \in {N, V} /\ f \in Bits[c.val]
                             \/ f = Z /\ none
      OBVIOUS
    <3> HIDE DEF s, t
    <3>7. \A f : f \in s <=> f \in t
      BY <3>2, <3>3, <3>4, <3>5, <3>6
    <3> QED
      BY <3>7 DEF s, t
  <2> QED
    BY <2>2, <2>3, <2>4
<1> QED
  BY <1>2, <1>3, <1>4, <1>5

(* Setting the carry before or after Z and N makes no difference.           *)
LEMMA CarryCommutes ==
    ASSUME NEW status, NEW condition, NEW value
    PROVE  SetZeroAndNegative(With(status, C, condition), value)
             = With(SetZeroAndNegative(status, value), C, condition)
<1> DEFINE carried == With(status, C, condition)
           zero == With(status, Z, value = 0)
           zn == SetZeroAndNegative(status, value)
           zero2 == With(carried, Z, value = 0)
           s == SetZeroAndNegative(carried, value)
           t == With(zn, C, condition)
<1>1. C # Z /\ C # N /\ C # U /\ Z # N /\ Z # U /\ N # U
  BY DEF C, Z, N, U
<1>2. \A f : f \in s <=> \/ f = U
                         \/ f = N /\ Negative(value)
                         \/ f = Z /\ value = 0
                         \/ f \notin {N, Z} /\ f \in carried
  <2> HIDE DEF carried
  <2> QED
    BY <1>1 DEF SetZeroAndNegative, With
<1>3. \A f : f \in zn <=> \/ f = U
                          \/ f = N /\ Negative(value)
                          \/ f = Z /\ value = 0
                          \/ f \notin {N, Z} /\ f \in status
  BY <1>1 DEF SetZeroAndNegative, With
<1>4. /\ \A f : f # C => (f \in carried <=> f \in status) /\ (f \in t <=> f \in zn)
      /\ C \in carried <=> C \in t
  <2> HIDE DEF zn
  <2> QED
    BY DEF With
<1> HIDE DEF s, t, zn, carried
<1>5. \A f : f \in s <=> f \in t
  BY <1>1, <1>2, <1>3, <1>4
<1>6. (\A f : f \in s <=> f \in t) => s = t
  BY DEF s, t, SetZeroAndNegative, With
<1> QED
  BY <1>5, <1>6 DEF s, t, carried, zn

LEMMA NinthBit ==
    ASSUME NEW n, n \in 0 .. 511
    PROVE  (n \div 256) % 2 = 1 <=> n > 255
OBVIOUS

(* Each function's own names first, then what they are in Alu.              *)
LEMMA SameAdc ==
    ASSUME NEW c \in Chip
    PROVE  Linear!adc(c) = AdcValue(c)
<1> DEFINE carry == Linear!CarryIn(c.status)
           sum == c.reg + c.val + carry
           low == (c.reg % 16) + (c.val % 16) + carry
           half == IF low > 9 THEN 1 ELSE 0
           high == (c.reg \div 16) + (c.val \div 16) + half
           lowFixed == IF low > 9 THEN low + 6 ELSE low
           highFixed == IF high > 9 THEN high + 6 ELSE high
           isDecimal == Linear!D \in c.status
           shown == IF isDecimal THEN 16 * (high % 16) + (low % 16) ELSE sum % 256
           carried == IF isDecimal THEN highFixed > 15 ELSE (sum \div 256) % 2 = 1
           overflow == (7 \in Linear!Bits[c.reg]) = (7 \in Linear!Bits[c.val])
                           /\ (7 \in Linear!Bits[c.reg]) # (7 \in Linear!Bits[shown])
           reg == IF isDecimal THEN 16 * (highFixed % 16) + (lowFixed % 16) ELSE sum % 256
           status == Linear!With(Linear!set_ZN(
                         Linear!With(c.status, Linear!C, carried), shown),
                                 Linear!V, overflow)
<1>1. Linear!adc(c) = [c EXCEPT !.reg = reg, !.status = status]
  BY DEF Linear!adc
<1>2. carry = CarryIn(c.status)
  BY SameWith
<1> HIDE DEF carry
<1>3. sum = Sum(c) /\ low = LowNibble(c)
  BY <1>2 DEF Sum, LowNibble
<1> HIDE DEF low, sum
<1>4. high = HighNibble(c)
  BY <1>3 DEF HighNibble
<1>5. low \in 0 .. 31 /\ high \in 0 .. 31 /\ sum \in 0 .. 511
  BY <1>3, <1>4, Nibbles
<1> HIDE DEF high
<1>6. /\ lowFixed = Corrected(low) /\ lowFixed \in 0 .. 37
      /\ highFixed = Corrected(high) /\ highFixed \in 0 .. 37
  BY <1>5 DEF Corrected
<1> HIDE DEF lowFixed, highFixed
<1>7. isDecimal <=> D \in c.status
  BY SameFlags
<1>8. shown = Shown(c)
  <2>1. 16 * (high % 16) = (high % 16) * 16
    BY <1>5
  <2> QED
    BY <1>3, <1>4, <1>7, <2>1 DEF Shown
<1>9. reg = AdcReg(c)
  <2>1. 16 * (highFixed % 16) = (highFixed % 16) * 16
    BY <1>6
  <2> QED
    BY <1>3, <1>4, <1>6, <1>7, <2>1 DEF AdcReg
<1>10. carried = AdcOut(c)
  <2>1. (sum \div 256) % 2 = 1 <=> sum > 255
    BY <1>5, NinthBit
  <2>2. CASE D \in c.status
    <3>1. carried = (highFixed > 15) /\ AdcOut(c) = (Corrected(HighNibble(c)) > 15)
      BY <1>7, <2>2 DEF AdcOut
    <3> QED
      BY <1>4, <1>6, <3>1
  <2>3. CASE D \notin c.status
    <3>1. carried = ((sum \div 256) % 2 = 1) /\ AdcOut(c) = (Sum(c) > 255)
      BY <1>7, <2>3 DEF AdcOut
    <3> QED
      BY <1>3, <2>1, <3>1
  <2> QED
    BY <2>2, <2>3
<1> HIDE DEF carried, reg, shown
<1>11. overflow = AddOverflow(c.reg, c.val, Shown(c))
  BY <1>8, SameBytes DEF AddOverflow, Negative
<1> HIDE DEF overflow
<1>12. status = With(With(SetZeroAndNegative(c.status, shown), C, carried), V, overflow)
  BY SameWith, SameFlags, CarryCommutes
<1> HIDE DEF status
<1> QED
  BY <1>1, <1>8, <1>9, <1>10, <1>11, <1>12, AdcIs

LEMMA SameSbc ==
    ASSUME NEW c \in Chip
    PROVE  Linear!sbc(c) = SbcValue(c)
<1> DEFINE carry == Linear!CarryIn(c.status)
           difference == c.reg + (255 - c.val) + carry
           binary == difference % 256
           overflow == (7 \in Linear!Bits[c.reg]) # (7 \in Linear!Bits[binary])
                           /\ (7 \in Linear!Bits[c.reg]) # (7 \in Linear!Bits[c.val])
           borrow == (c.val % 16) + 1 - carry
           low == IF c.reg % 16 < borrow THEN (difference - 6) % 65536 ELSE difference
           corrected == IF low < 256 THEN (low - 96) % 65536 ELSE low
           reg == (IF Linear!D \in c.status THEN corrected ELSE difference) % 256
           out == difference > 255
           status == Linear!With(Linear!set_ZN(
                         Linear!With(c.status, Linear!C, out), binary), Linear!V, overflow)
<1>1. Linear!sbc(c) = [c EXCEPT !.reg = reg, !.status = status]
  BY DEF Linear!sbc
<1>2. carry = CarryIn(c.status)
  BY SameWith
<1> HIDE DEF carry
<1>3. difference = Difference(c)
  BY <1>2 DEF Difference
<1>4. borrow = (c.val % 16) + (1 - CarryIn(c.status))
  BY <1>2, Nibbles
<1> HIDE DEF borrow, difference
<1>5. corrected = DecimalDifference(c, difference)
  BY <1>4 DEF DecimalDifference
<1> HIDE DEF corrected
<1>6. reg = SbcReg(c)
  BY <1>3, <1>5, SameFlags DEF SbcReg
<1> HIDE DEF reg, out, binary
<1>7. overflow = SubOverflow(c.reg, c.val, binary)
  BY SameBytes DEF SubOverflow, Negative
<1> HIDE DEF overflow
<1>8. status = With(SetZeroAndNegative(With(c.status, C, out), binary), V, overflow)
  BY SameWith, SameFlags
<1> HIDE DEF status
<1>9. SbcValue(c) = [c EXCEPT
          !.reg = SbcReg(c),
          !.status = With(SetZeroAndNegative(With(c.status, C, Difference(c) > 255),
                                             Difference(c) % 256),
                          V, SubOverflow(c.reg, c.val, Difference(c) % 256))]
  BY DEF SbcValue, SbcReg, Difference, Accumulated
<1> QED
  BY <1>1, <1>3, <1>6, <1>7, <1>8, <1>9 DEF out, binary

LEMMA SameCmp ==
    ASSUME NEW c \in Chip
    PROVE  Linear!cmp(c) = CmpValue(c)
BY SameWith, SameFlags DEF Linear!cmp, CmpValue

(* A branch is taken when the condition of linear.c holds.                  *)
LEMMA FlagTested ==
    ASSUME NEW s, NEW flag
    PROVE  /\ (flag \notin s) = ((flag \in s) = FALSE)
           /\ (flag \in s) = ((flag \in s) = TRUE)
OBVIOUS

LEMMA SameBranch ==
    ASSUME NEW c, NEW b \in Branches
    PROVE  /\ b[1] \in DOMAIN Linear!condition(c.status)
           /\ Branch(c, b) = [c EXCEPT !.taken = Linear!condition(c.status)[b[1]]]
<1> DEFINE s == c.status
           holds == Linear!condition(s)
<1>1. /\ DOMAIN holds = {"BCC", "BCS", "BEQ", "BMI", "BNE", "BPL", "BVC", "BVS"}
      /\ holds["BCC"] = (C \notin s) /\ holds["BCS"] = (C \in s)
      /\ holds["BEQ"] = (Z \in s) /\ holds["BNE"] = (Z \notin s)
      /\ holds["BMI"] = (N \in s) /\ holds["BPL"] = (N \notin s)
      /\ holds["BVC"] = (V \notin s) /\ holds["BVS"] = (V \in s)
  BY SameFlags DEF Linear!condition
<1> HIDE DEF s, holds
<1>2. holds[b[1]] = ((b[2] \in s) = b[3])
  <2>1. CASE b = <<"BCC", C, FALSE>>
    <3>1. b[1] = "BCC" /\ b[2] = C /\ b[3] = FALSE
      BY <2>1
    <3> QED
      BY <1>1, <3>1, FlagTested
  <2>2. CASE b = <<"BCS", C, TRUE>>
    <3>1. b[1] = "BCS" /\ b[2] = C /\ b[3] = TRUE
      BY <2>2
    <3> QED
      BY <1>1, <3>1, FlagTested
  <2>3. CASE b = <<"BEQ", Z, TRUE>>
    <3>1. b[1] = "BEQ" /\ b[2] = Z /\ b[3] = TRUE
      BY <2>3
    <3> QED
      BY <1>1, <3>1, FlagTested
  <2>4. CASE b = <<"BMI", N, TRUE>>
    <3>1. b[1] = "BMI" /\ b[2] = N /\ b[3] = TRUE
      BY <2>4
    <3> QED
      BY <1>1, <3>1, FlagTested
  <2>5. CASE b = <<"BNE", Z, FALSE>>
    <3>1. b[1] = "BNE" /\ b[2] = Z /\ b[3] = FALSE
      BY <2>5
    <3> QED
      BY <1>1, <3>1, FlagTested
  <2>6. CASE b = <<"BPL", N, FALSE>>
    <3>1. b[1] = "BPL" /\ b[2] = N /\ b[3] = FALSE
      BY <2>6
    <3> QED
      BY <1>1, <3>1, FlagTested
  <2>7. CASE b = <<"BVC", V, FALSE>>
    <3>1. b[1] = "BVC" /\ b[2] = V /\ b[3] = FALSE
      BY <2>7
    <3> QED
      BY <1>1, <3>1, FlagTested
  <2>8. CASE b = <<"BVS", V, TRUE>>
    <3>1. b[1] = "BVS" /\ b[2] = V /\ b[3] = TRUE
      BY <2>8
    <3> QED
      BY <1>1, <3>1, FlagTested
  <2> QED
    BY <2>1, <2>2, <2>3, <2>4, <2>5, <2>6, <2>7, <2>8 DEF Branches
<1> QED
  BY <1>1, <1>2, BranchParts DEF Branch, s, holds

LEMMA SameSteps ==
    ASSUME NEW c \in Chip
    PROVE  /\ Linear!SetRegister(c, c.val) = Load(c)
           /\ Linear!SetMemory(c, (c.val - 1) % 256) = DecMem(c)
           /\ Linear!SetMemory(c, (c.val + 1) % 256) = IncMem(c)
           /\ Linear!SetRegister(c, (c.reg - 1) % 256) = DecReg(c)
           /\ Linear!SetRegister(c, (c.reg + 1) % 256) = IncReg(c)
BY SameResults DEF Load, DecMem, IncMem, DecReg, IncReg

(* The handlers of ops.h do what the functions of linear.c do, for every    *)
(* register, byte and status: ImplementsLinear, the specification of        *)
(* LinearAlu, holds of Alu.                                                 *)
THEOREM ImplementsLinearCorrect == Spec => ImplementsLinear
<1>1. Init => Linear!Init
  BY DEF Init, Linear!Init
<1>2. TypeOK /\ [Next]_vars => [Linear!Next]_<<chip, op>>
  <2> SUFFICES ASSUME chip \in Chip, [Next]_vars PROVE [Linear!Next]_<<chip, op>>
    BY DEF TypeOK
  <2>1. ASSUME NEW name, NEW result, Instruction(name, result)
        PROVE  Linear!Function(name, result)
    BY <2>1 DEF Instruction, Linear!Function
  <2>2. CASE \/ Instruction("LD", Load(chip)) \/ Instruction("ST", StoreReg(chip))
             \/ Instruction("PHP", PushStatus(chip)) \/ Instruction("PLP", PullStatus(chip))
    <3>1. \/ Linear!Function("LD", Linear!SetRegister(chip, chip.val))
          \/ Linear!Function("ST", [chip EXCEPT !.val = chip.reg])
          \/ Linear!Function("PHP", Linear!php(chip))
          \/ Linear!Function("PLP", Linear!plp(chip))
      BY <2>1, <2>2, SameSteps, SameLogic DEF StoreReg
    <3> QED
      BY <3>1 DEF Linear!Next
  <2>3. CASE \/ Instruction("ASL", AslValue(chip)) \/ Instruction("LSR", LsrValue(chip))
             \/ Instruction("ROL", RolValue(chip)) \/ Instruction("ROR", RorValue(chip))
    <3>1. \/ Linear!Function("ASL", Linear!asl_memory_value(chip))
          \/ Linear!Function("LSR", Linear!lsr_memory_value(chip))
          \/ Linear!Function("ROL", Linear!rol_memory_value(chip))
          \/ Linear!Function("ROR", Linear!ror_memory_value(chip))
      BY <2>1, <2>3, SameShifts
    <3> QED
      BY <3>1 DEF Linear!Next
  <2>4. CASE \/ Instruction("AND", AndValue(chip)) \/ Instruction("EOR", EorValue(chip))
             \/ Instruction("BIT", BitValue(chip)) \/ Instruction("ORA", OraValue(chip))
    <3>1. \/ Linear!Function("AND", Linear!op_and(chip))
          \/ Linear!Function("EOR", Linear!eor_memory_value(chip))
          \/ Linear!Function("BIT", Linear!bit_memory_value(chip))
          \/ Linear!Function("ORA", Linear!or_memory_value(chip))
      BY <2>1, <2>4, SameLogic
    <3> QED
      BY <3>1 DEF Linear!Next
  <2>5. CASE \/ Instruction("ADC", AdcValue(chip)) \/ Instruction("SBC", SbcValue(chip))
             \/ Instruction("CMP", CmpValue(chip))
    <3>1. \/ Linear!Function("ADC", Linear!adc(chip))
          \/ Linear!Function("SBC", Linear!sbc(chip))
          \/ Linear!Function("CMP", Linear!cmp(chip))
      BY <2>1, <2>5, SameAdc, SameSbc, SameCmp
    <3> QED
      BY <3>1 DEF Linear!Next
  <2>6. CASE \/ Instruction("DEC", DecMem(chip)) \/ Instruction("INC", IncMem(chip))
             \/ Instruction("DEX", DecReg(chip)) \/ Instruction("INX", IncReg(chip))
    <3>1. \/ Linear!Function("DEC", Linear!SetMemory(chip, (chip.val - 1) % 256))
          \/ Linear!Function("INC", Linear!SetMemory(chip, (chip.val + 1) % 256))
          \/ Linear!Function("DEX", Linear!SetRegister(chip, (chip.reg - 1) % 256))
          \/ Linear!Function("INX", Linear!SetRegister(chip, (chip.reg + 1) % 256))
      BY <2>1, <2>6, SameSteps
    <3> QED
      BY <3>1 DEF Linear!Next
  <2>7. ASSUME NEW f \in FlagInstructions,
               Instruction(f[1], [chip EXCEPT !.status = With(@, f[2], f[3])])
        PROVE  Linear!Next
    <3>1. f \in Linear!FlagInstructions
      BY SameBytes
    <3>2. Linear!Function(f[1], [chip EXCEPT !.status = Linear!With(@, f[2], f[3])])
      BY <2>1, <2>7, SameWith
    <3> QED
      BY <3>1, <3>2 DEF Linear!Next
  <2>8. ASSUME NEW b \in Branches, Instruction(b[1], Branch(chip, b))
        PROVE  Linear!Next
    <3>1. Linear!Function(b[1], [chip EXCEPT !.taken = Linear!condition(chip.status)[b[1]]])
      BY <2>1, <2>8, SameBranch
    <3> QED
      BY <3>1, SameBranch DEF Linear!Next
  <2>9. CASE Finished \/ UNCHANGED vars
    BY <2>9 DEF Finished, vars
  <2> QED
    BY <2>2, <2>3, <2>4, <2>5, <2>6, <2>7, <2>8, <2>9 DEF Next
<1> QED
  BY <1>1, <1>2, TypeCorrect, PTL DEF Spec, ImplementsLinear, Linear!Spec
=============================================================================
