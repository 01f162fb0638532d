-------------------------------- MODULE Tokens -------------------------------
(***************************************************************************)
(* Token amounts (ic-helpers/src/tokens.rs): Tokens128, a u128, and        *)
(* Tokens256, a U256, with checked and saturating arithmetic and           *)
(* conversions through little endian bytes.  A u128 has two bytes here, a  *)
(* U256 four, and a byte has `Byte` values; an f64 has `Mantissa` values   *)
(* between two powers of two.  Amounts are integers, and None is NoTokens. *)
(***************************************************************************)
EXTENDS Integers, Sequences, FiniteSetsExt

CONSTANTS
  Byte,       \* 256 in the code
  Mantissa    \* 2^52 in the code

ASSUME TokensAssumption ==
  Byte \in Nat /\ Byte >= 2 /\ Mantissa \in Nat \ {0}

VARIABLES
  left, right    \* the operands under inspection, both Tokens256

tokensVars == << left, right >>

BYTE_LENGTH128 == 2
BYTE_LENGTH256 == 4
NoTokens == -1

\* What a one is worth behind k bytes, and behind e bits.
PowersOf(base, n) ==
  LET power[k \in 0 .. n] == IF k = 0 THEN 1 ELSE power[k - 1] * base
  IN [k \in 0 .. n |-> power[k]]

Weight == PowersOf(Byte, 2 * BYTE_LENGTH256)
TwoTo == PowersOf(2, 8 * BYTE_LENGTH128)

MAX128 == Weight[BYTE_LENGTH128] - 1
MAX256 == Weight[BYTE_LENGTH256] - 1

----------------------------------------------------------------------------
\* The operators of Tokens128; `-` and `*` take smaller integers too.
Add128(a, b) == IF a + b > MAX128 THEN NoTokens ELSE a + b
Sub128(a, b) == IF a < b THEN NoTokens ELSE a - b
Mul128(a, b) == IF a * b > MAX256 THEN MAX256 ELSE a * b

SaturatingSub128(a, b) == Max({0, a - b})
SaturatingAdd128(a, b) == IF Add128(a, b) = NoTokens THEN MAX128 ELSE Add128(a, b)

\* to_u64; a u64 has one byte.
ToU64(a) == IF a > Byte - 1 THEN NoTokens ELSE a

\* The operators of Tokens256.
Add256(a, b) == IF a + b > MAX256 THEN NoTokens ELSE a + b
Sub256(a, b) == IF a < b THEN NoTokens ELSE a - b
Mul256(a, b) == IF a * b > MAX256 THEN NoTokens ELSE a * b
Div256(a, b) == IF b = 0 THEN NoTokens ELSE a \div b

SaturatingAdd256(a, b) == IF Add256(a, b) = NoTokens THEN MAX256 ELSE Add256(a, b)
SaturatingSub256(a, b) == IF Sub256(a, b) = NoTokens THEN 0 ELSE Sub256(a, b)

\* sqrt_vartime.
Sqrt(a) == Max({r \in 0 .. MAX128 : r * r <= a})

----------------------------------------------------------------------------
\* Little endian bytes of an amount and of a candid::Nat, which has no leading
\* zeros and at least one byte.
LeBytes(n, length) == [i \in 1 .. length |-> (n \div Weight[i - 1]) % Byte]
NatLength(n) == Min({k \in 1 .. 2 * BYTE_LENGTH256 : n < Weight[k]})
FromLeBytes(bytes) == MapThenSumSet(LAMBDA i : bytes[i] * Weight[i - 1], DOMAIN bytes)

Resize(bytes, length) ==
  [i \in 1 .. length |-> IF i <= Len(bytes) THEN bytes[i] ELSE 0]

\* from_nat of both types.
FromNat(nat, length) ==
  LET bytes == LeBytes(nat, NatLength(nat))
  IN IF Len(bytes) > length THEN NoTokens ELSE FromLeBytes(Resize(bytes, length))

\* Tokens256::to_nat, by way of the limbs: two bytes each.
ToNat256(a) ==
  LET limb(i) == (a \div Weight[2 * i]) % Weight[2]
  IN FromLeBytes(LeBytes(limb(0), 2) \o LeBytes(limb(1), 2))

\* Mutant: the bytes above the u128 are not looked at.
ToTokens128Low(a) == FromLeBytes(SubSeq(LeBytes(a, BYTE_LENGTH256), 1, BYTE_LENGTH128))

\* Tokens256::to_tokens128.
ToTokens128(a) ==
  LET bytes == LeBytes(a, BYTE_LENGTH256)
  IN IF \E i \in BYTE_LENGTH128 + 1 .. BYTE_LENGTH256 : bytes[i] # 0 THEN NoTokens
     ELSE FromLeBytes(SubSeq(bytes, 1, BYTE_LENGTH128))

----------------------------------------------------------------------------
\* The distance between two floats next to n, and the float nearest to n: a
\* cast of an integer rounds to the even neighbour when there are two.
Ulp(n) ==
  TwoTo[Max({0} \cup {e \in 1 .. 8 * BYTE_LENGTH128 : Mantissa * TwoTo[e] <= n})]

AsF64(n) ==
  LET u == Ulp(n)
      down == (n \div u) * u
      rest == n - down
  IN IF 2 * rest < u \/ (2 * rest = u /\ (n \div u) % 2 = 0) THEN down ELSE down + u

\* Tokens128::to_f64 is the cast.
ToF64(a) == AsF64(a)

\* Tokens128::from_f64 for whole amounts: the cast to u128 saturates.
FromF64(f) ==
  IF f < 0 \/ f > AsF64(MAX128) THEN NoTokens ELSE Min({f, MAX128})

\* Tokens256::to_f64 adds up the bytes, and every sum is rounded.
ToF64Of256(a) ==
  LET bytes == LeBytes(a, BYTE_LENGTH256)
      one == AsF64(bytes[1])
      two == AsF64(one + bytes[2] * Weight[1])
      three == AsF64(two + bytes[3] * Weight[2])
  IN AsF64(three + bytes[4] * Weight[3])

\* Tokens256::from_f64 for whole amounts, by way of a BigUint
FromF64Of256(f) == IF f < 0 THEN NoTokens ELSE FromNat(f, BYTE_LENGTH256)

\* 256f64.powi(i) is exact, and so is 2^256.
ASSUME WeightsAreFloats == \A k \in 1 .. BYTE_LENGTH256 : AsF64(Weight[k]) = Weight[k]

----------------------------------------------------------------------------
TokensInit == left = 0 /\ right = 0

\* Takes up every pair of operands.
NextOperands ==
  \/ right = 0 /\ left < MAX256 /\ left' = left + 1 /\ UNCHANGED right
  \/ right < MAX256 /\ right' = right + 1 /\ UNCHANGED left

TokensNext == NextOperands

----------------------------------------------------------------------------
\* What the types promise each other: a product of two Tokens128 never
\* saturates and is taken apart by division and square root, a sum of two
\* Tokens128 exists exactly when the sum as Tokens256 is a Tokens128, and a
\* product of two Tokens256 that exists is exact.
ArithmeticLaws ==
  LET l == left % (MAX128 + 1)
      r == right % (MAX128 + 1)
  IN /\ (right # 0 /\ Mul256(left, right) # NoTokens) => Div256(Mul256(left, right), right) = left
     /\ r # 0 => Div256(Mul128(l, r), r) = l
     /\ Sqrt(Mul128(l, l)) = l
     /\ SaturatingAdd128(SaturatingSub128(l, r), r) = Max({l, r})
     /\ Add128(l, r) = ToTokens128(Add256(l, r))

\* The ways from one type to another agree: to_tokens128 and from_nat of the
\* same Nat accept the same amounts and return the same one, a Nat that is too
\* large is refused by both types, and the way to a Nat and back loses nothing.
ConversionLaws ==
  /\ ToTokens128(left) = FromNat(ToNat256(left), BYTE_LENGTH128)
  /\ ToTokens128(left) = NoTokens <=> left > MAX128
  /\ FromNat(ToNat256(left), BYTE_LENGTH256) = left
  /\ FromNat(left + right, BYTE_LENGTH256) = Add256(left, right)
  /\ left <= MAX128 => ToTokens128(left) = left

\* The ways to f64 keep the order of amounts, also the sum of bytes that is
\* rounded at every byte, and return the amount wherever every integer is a
\* float.  The ways back return the amount that the float is, or None if it is
\* larger than the maximum.  Nothing is said of from_f64 of Tokens128 for the
\* float to which u128::MAX is cast, 2^128: the code accepts it as u128::MAX,
\* its comment says None.
FloatLaws ==
  LET f == ToF64(left)
      g == ToF64Of256(left)
  IN /\ left <= right => f <= ToF64(right) /\ g <= ToF64Of256(right)
     /\ Ulp(left) = 1 => f = left /\ g = left
     /\ f # ToF64(MAX128) => FromF64(f) = IF f > MAX128 THEN NoTokens ELSE f
     /\ FromF64Of256(f) = IF f > MAX256 THEN NoTokens ELSE f
     /\ FromF64Of256(g) = IF g > MAX256 THEN NoTokens ELSE g

\* Tokens128 and Tokens256 compute what the integers do, or None.
TokenArithmetic == ArithmeticLaws /\ ConversionLaws /\ FloatLaws

\* The operands are amounts of Tokens256.
TokensInv == left \in 0 .. MAX256 /\ right \in 0 .. MAX256
=============================================================================
