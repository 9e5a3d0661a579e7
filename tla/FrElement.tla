------------------------------ MODULE FrElement ------------------------------
(***************************************************************************)
(* Elements of the prime field as the program represents them, and the     *)
(* operations on them: fr.hpp, fr.cpp and the part of fr.asm they and the  *)
(* circuits call.  An element is a signed short integer, or a long number  *)
(* below q, and in Montgomery form a long number x stands for x / R.       *)
(*                                                                         *)
(* The four 64-bit words of a long number are one number here, and R is    *)
(* the 2^256 of the code; only Fr_toInt looks at the words one by one.     *)
(* Field arithmetic by the GMP library (mpz_...) is external.              *)
(***************************************************************************)
EXTENDS Integers

CONSTANTS
    q,          \* The prime (Fr_q).
    R,          \* The base of the Montgomery form.
    Word,       \* 2^64: a number has four words.
    ShortLimit  \* Shorts are -ShortLimit .. ShortLimit - 1 (2^31 in the code).

\* Two field elements add up within a long number, two shorts multiply to a number
\* below q (q > 2^253), and the lowest word of q is no less than 2^31.
ASSUME FrAssumption ==
    /\ q \in Nat /\ q > 1 /\ R \in Nat /\ 2 * q <= R
    /\ ShortLimit \in Nat /\ ShortLimit > 0 /\ ShortLimit * ShortLimit < q
    /\ Word \in Nat /\ Word > 1 /\ ShortLimit <= q % Word

Field == 0 .. q - 1

\* q is prime: what is not zero has an inverse.
ASSUME InverseAssumption == \A x \in Field \ {0} : \E y \in Field : (x * y) % q = 1
ShortVal == -ShortLimit .. ShortLimit - 1

\* Constants in the data section of fr.asm.  The code's np is that of one word: it
\* reduces a product four times, word by word, which gives what one reduction by R does.
np == CHOOSE n \in 0 .. R - 1 : (n * q + 1) % R = 0
R2 == (R * R) % q
R3 == (R * R * R) % q
ASSUME NpAssumption == np \in 0 .. R - 1 /\ (np * q + 1) % R = 0

Short(v) == [type |-> "SHORT", v |-> v]
Long(v) == [type |-> "LONG", v |-> v]
LongMontgomery(v) == [type |-> "LONGMONTGOMERY", v |-> v]
\* A short whose long part holds its Montgomery form.
ShortMontgomery(v) == [type |-> "SHORTMONTGOMERY", v |-> v]

IsLong(a) == a.type \in {"LONG", "LONGMONTGOMERY"}
IsMontgomery(a) == a.type \in {"SHORTMONTGOMERY", "LONGMONTGOMERY"}

-----------------------------------------------------------------------------
(* Long numbers.                                                           *)

\* Mutant: one subtraction of q too few.
NotReduced(t) == (t + ((t * np) % R) * q) \div R

\* The Montgomery product: t + m * q is a multiple of R.
Reduce(t) ==
    LET u == (t + ((t * np) % R) * q) \div R
    IN  IF u >= q THEN u - q ELSE u

Fr_rawMMul(a, b) == Reduce(a * b)
Fr_rawFromMontgomery(a) == Reduce(a)
Fr_rawToMontgomery(a) == Fr_rawMMul(a, R2)

Fr_rawAdd(a, b) == IF a + b >= q THEN a + b - q ELSE a + b
Fr_rawSub(a, b) == IF a < b THEN a - b + q ELSE a - b
Fr_rawNeg(a) == IF a = 0 THEN 0 ELSE q - a

\* A long number for an integer between -q and q.
rawCopyS2L(v) == IF v < 0 THEN v + q ELSE v

\* The product of a long number and a short one.
MMulShort(long, v) ==
    IF v >= 0 THEN Fr_rawMMul(long, v) ELSE Fr_rawNeg(Fr_rawMMul(long, -v))

-----------------------------------------------------------------------------
(* Conversions between representations.                                    *)

\* The long part of a, in Montgomery form.
Montgomery(a) ==
    CASE a.type = "LONGMONTGOMERY" -> a.v
      [] a.type = "LONG" -> Fr_rawToMontgomery(a.v)
      [] OTHER -> MMulShort(R2, a.v)

Fr_toMontgomery(a) ==
    IF IsMontgomery(a) THEN a
    ELSE IF IsLong(a) THEN LongMontgomery(Montgomery(a)) ELSE ShortMontgomery(a.v)

\* A short in Montgomery form keeps its short value, and is left as it is.
Fr_toNormal(a) ==
    IF a.type = "LONGMONTGOMERY" THEN Long(Fr_rawFromMontgomery(a.v)) ELSE a

Fr_toLongNormal(a) ==
    IF IsLong(a) THEN Long(Fr_toNormal(a).v) ELSE Long(rawCopyS2L(a.v))

LowestWord(n) == n % Word
HigherWords(n) ==
    LET rest == n \div Word
    IN  <<rest % Word, (rest \div Word) % Word, (rest \div Word) \div Word>>

\* A long number that is not below ShortLimit is read as if it were just below q:
\* what its lowest word lacks from that of q.  Fr_fail if this does not borrow, or is
\* no short, or if a higher word exceeds that of q; nothing tests that the higher
\* words are those of q.  (Not for Montgomery form: the code then reads the words
\* of the unconverted number.)
Fr_toInt(a) ==
    IF ~IsLong(a) \/ a.v < ShortLimit THEN a.v ELSE LowestWord(a.v) - LowestWord(q)
Fr_toIntFails(a) ==
    /\ IsLong(a) /\ a.v >= ShortLimit
    /\ \/ LowestWord(a.v) - LowestWord(q) \notin -ShortLimit .. -1
       \/ \E i \in 1 .. 3 : HigherWords(a.v)[i] > HigherWords(q)[i]

-----------------------------------------------------------------------------
(* Arithmetic: a sum, a difference or the negative of shorts is short when *)
(* it fits; a product never is.  The result must not be an operand that    *)
(* add or sub converts first: its type is written before (the circuits     *)
(* always compute into another variable).                                  *)

FromShort(v) == IF v \in ShortVal THEN Short(v) ELSE Long(rawCopyS2L(v))

\* Whether add and sub work on the Montgomery forms.
InMontgomery(a, b) == "LONGMONTGOMERY" \in {a.type, b.type}

\* A long or short operand as a long number in normal form.
Normal(a) == IF IsLong(a) THEN a.v ELSE rawCopyS2L(a.v)

Fr_add(a, b) ==
    IF ~IsLong(a) /\ ~IsLong(b) THEN FromShort(a.v + b.v)
    ELSE IF InMontgomery(a, b) THEN LongMontgomery(Fr_rawAdd(Montgomery(a), Montgomery(b)))
    ELSE Long(Fr_rawAdd(Normal(a), Normal(b)))

Fr_sub(a, b) ==
    IF ~IsLong(a) /\ ~IsLong(b) THEN FromShort(a.v - b.v)
    ELSE IF InMontgomery(a, b) THEN LongMontgomery(Fr_rawSub(Montgomery(a), Montgomery(b)))
    ELSE Long(Fr_rawSub(Normal(a), Normal(b)))

Fr_neg(a) ==
    IF IsLong(a) THEN [a EXCEPT !.v = Fr_rawNeg(a.v)] ELSE FromShort(-a.v)

\* The Montgomery product of the long parts, or of a long part and a short.
Product(a, b) ==
    CASE a.type = "SHORT" -> MMulShort(b.v, a.v)
      [] b.type = "SHORT" -> MMulShort(a.v, b.v)
      [] a.type = "SHORTMONTGOMERY" -> Fr_rawMMul(Montgomery(a), b.v)
      [] b.type = "SHORTMONTGOMERY" -> Fr_rawMMul(a.v, Montgomery(b))
      [] OTHER -> Fr_rawMMul(a.v, b.v)

\* The product of two shorts: the short that fits is stored, and overwritten by the
\* long one, since the code goes on to it.
ProductOfShorts(v, w) == Long(rawCopyS2L(v * w))

\* Mutant: the product of a normal and a Montgomery number stays in Montgomery form.
MulMontgomery(a, b) ==
    IF ~IsLong(a) /\ ~IsLong(b) THEN ProductOfShorts(a.v, b.v)
    ELSE IF IsMontgomery(a) \/ IsMontgomery(b) THEN LongMontgomery(Product(a, b))
    ELSE LongMontgomery(Fr_rawMMul(Product(a, b), R3))

\* The product of a normal and a Montgomery number is normal; with two normal ones
\* a second product by R^3 brings it to Montgomery form.
Fr_mul(a, b) ==
    IF ~IsLong(a) /\ ~IsLong(b) THEN ProductOfShorts(a.v, b.v)
    ELSE IF IsMontgomery(a) /\ IsMontgomery(b) THEN LongMontgomery(Product(a, b))
    ELSE IF IsMontgomery(a) \/ IsMontgomery(b) THEN Long(Product(a, b))
    ELSE LongMontgomery(Fr_rawMMul(Product(a, b), R3))

Fr_square(a) ==
    CASE a.type = "LONGMONTGOMERY" -> LongMontgomery(Fr_rawMMul(a.v, a.v))
      [] a.type = "LONG" -> LongMontgomery(Fr_rawMMul(Fr_rawMMul(a.v, a.v), R3))
      [] OTHER -> ProductOfShorts(a.v, a.v)

-----------------------------------------------------------------------------
(* fr.cpp: through GMP integers.                                           *)

\* Mutant: a negative short is not brought into the field.
MpzOfShort(a) == Fr_toNormal(a).v

Fr_toMpz(a) ==
    LET tmp == Fr_toNormal(a)
    IN  IF ~IsLong(tmp) /\ tmp.v < 0 THEN tmp.v + q ELSE tmp.v

\* mpz_fits_sint_p: v is a short.
Fr_fromMpz(v) == IF v \in ShortVal THEN Short(v) ELSE Long(v)

Fr_str2element(v) == Fr_fromMpz(v % q)

\* The number that the digits say.
Fr_element2str(a) ==
    IF ~IsLong(a) THEN IF a.v >= 0 THEN a.v ELSE a.v + q
    ELSE Fr_toNormal(a).v

\* Division by zero ends the program.
Fr_idiv(a, b) == Fr_fromMpz(Fr_toMpz(a) \div Fr_toMpz(b))
Fr_mod(a, b) == Fr_fromMpz(Fr_toMpz(a) % Fr_toMpz(b))

\* mpz_powm: the power, reduced; 0^0 = 1.
PowM(x, n) ==
    LET p[k \in Nat] == IF k = 0 THEN 1 % q ELSE (x * p[k - 1]) % q
    IN  {y \in Field : y = p[n]}

\* mpz_invert: the inverse, and an unspecified value for a number without one.
Invert(x) == LET inverse == {y \in Field : (x * y) % q = 1 % q}
             IN  IF inverse = {} THEN Field ELSE inverse

\* The results of pow, inv and div.
Fr_pow(a, b) == {Fr_fromMpz(y) : y \in PowM(Fr_toMpz(a), Fr_toMpz(b))}
Fr_inv(a) == {Fr_fromMpz(y) : y \in Invert(Fr_toMpz(a))}
Fr_div(a, b) == {Fr_mul(a, tmp) : tmp \in Fr_inv(b)}

-----------------------------------------------------------------------------
(* class RawFr: elements that are always in Montgomery form.               *)

RawFr_fromMpz(v) == Fr_rawToMontgomery(v)
RawFr_fromString(v) == RawFr_fromMpz(v % q)
RawFr_fromUI(v) == RawFr_fromMpz(v)
RawFr_toMpz(a) == Fr_rawFromMontgomery(a)
RawFr_toString(a) == Fr_rawFromMontgomery(a)
fOne == RawFr_fromString(1)
fNegOne == Fr_rawNeg(fOne)

\* The inverse of x R times R^3, divided by R twice.
RawFr_inv(a) == {Fr_rawMMul(y, R3) : y \in Invert(a)}
RawFr_div(a, b) == {Fr_rawMMul(a, tmp) : tmp \in RawFr_inv(b)}

BIT_IS_SET(s, p) == (s \div 2^p) % 2 = 1

\* One round of the loop of exp, for bit p of the scalar, from the result r so far:
\* nothing before the first bit that is set, then a square for every bit and a
\* product for those that are.
RawFr_expBit(loop, base, scalar, p) ==
    LET square == Fr_rawMMul(loop.r, loop.r)
    IN  IF ~loop.found
        THEN IF BIT_IS_SET(scalar, p) THEN [loop EXCEPT !.found = TRUE, !.r = base] ELSE loop
        ELSE [loop EXCEPT !.r = IF BIT_IS_SET(scalar, p)
                                THEN Fr_rawMMul(square, base) ELSE square]
=============================================================================
