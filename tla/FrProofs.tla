------------------------------ MODULE FrProofs ------------------------------
(***************************************************************************)
(* Proofs about the field library for every prime (odd number), base of    *)
(* the Montgomery form and range of shorts that FrAssumption allows: its   *)
(* numbers stay in range, and it implements PrimeField, that is, in        *)
(* whatever representation the operands are, a call gives what the         *)
(* operation gives on the elements they stand for.                         *)
(***************************************************************************)
EXTENDS Fr, Induction, TLAPS

\* The numbers that Reduce takes are below q R: products of two field elements are.
LEMMA ProductBound ==
    ASSUME NEW a \in Field, NEW b \in Field
    PROVE  a * b \in Nat /\ a * b < q * R
<1>1. q \in Nat /\ R \in Nat /\ q > 1 /\ q < R /\ a \in Nat /\ b \in Nat /\ a < q /\ b < q
  BY FrAssumption DEF Field
<1>2. a * b <= a * q
  BY <1>1
<1>3. a * q <= q * q
  BY <1>1
<1>4. q * q < q * R
  BY <1>1
<1> QED
  BY <1>1, <1>2, <1>3, <1>4

\* One conditional subtraction of q brings the Montgomery product below q.
LEMMA ReduceInField ==
    ASSUME NEW t \in Nat, t < q * R
    PROVE  Reduce(t) \in Field
<1> DEFINE m == (t * np) % R
           u == (t + m * q) \div R
<1>1. q \in Nat /\ R \in Nat /\ q > 1 /\ R > 0 /\ np \in Nat
  BY FrAssumption, NpAssumption
<1>2. m \in Nat /\ m < R
  <2>1. t * np \in Nat
    BY <1>1
  <2> QED
    BY <2>1, <1>1
<1>3. m * q \in Nat /\ m * q < R * q
  BY <1>1, <1>2
<1>4. t + m * q \in Nat /\ t + m * q < (2 * q) * R
  BY <1>1, <1>3
<1>5. u \in Nat /\ u * R <= t + m * q
  <2> DEFINE n == t + m * q
  <2>1. n \in Nat
    BY <1>4
  <2> HIDE DEF n
  <2>2. n \div R \in Nat /\ (n \div R) * R <= n
    BY <2>1, <1>1
  <2> QED
    BY <2>2 DEF n
<1> HIDE DEF m, u
<1>6. u < 2 * q
  <2>1. u * R < (2 * q) * R
    BY <1>1, <1>3, <1>4, <1>5
  <2> QED
    BY <2>1, <1>1, <1>5
<1>7. Reduce(t) = IF u >= q THEN u - q ELSE u
  BY DEF Reduce, m, u
<1> QED
  BY <1>1, <1>5, <1>6, <1>7 DEF Field

LEMMA MMulInField ==
    ASSUME NEW a \in Field, NEW b \in Field
    PROVE  Fr_rawMMul(a, b) \in Field
  BY ProductBound, ReduceInField DEF Fr_rawMMul

LEMMA FromMontgomeryInField ==
    ASSUME NEW a \in Field
    PROVE  Fr_rawFromMontgomery(a) \in Field
<1>1. a \in Nat /\ a < q /\ q \in Nat /\ R \in Nat /\ R > 1
  BY FrAssumption DEF Field
<1>2. q < q * R
  BY <1>1
<1> QED
  BY <1>1, <1>2, ReduceInField DEF Fr_rawFromMontgomery

-----------------------------------------------------------------------------
(* Every operation gives a canonical element for canonical operands.       *)

Shorts == [type : {"SHORT", "SHORTMONTGOMERY"}, v : ShortVal]
Longs == [type : {"LONG", "LONGMONTGOMERY"}, v : Field]
Element == Shorts \cup Longs

\* Sums, differences and products of shorts are between -q and q.
LEMMA ShortBounds ==
    /\ q \in Nat /\ q > 1 /\ ShortLimit \in Nat /\ ShortLimit < q
    /\ \A v, w \in ShortVal :
          /\ v + w \in -q .. q - 1 /\ v - w \in -q .. q - 1
          /\ v * w \in -q .. q - 1 /\ -v \in -q .. q - 1
<1>1. /\ q \in Nat /\ q > 1 /\ ShortLimit \in Nat /\ ShortLimit > 0
      /\ ShortLimit * ShortLimit < q
  BY FrAssumption
<1>2. ShortLimit <= ShortLimit * ShortLimit
  BY <1>1
<1>3. ShortLimit >= 2 => 2 * ShortLimit <= ShortLimit * ShortLimit
  BY <1>1
<1>4. ASSUME NEW v \in ShortVal, NEW w \in ShortVal
      PROVE  v * w \in -q .. q - 1
  <2>1. v \in Int /\ w \in Int /\ v >= -ShortLimit /\ v <= ShortLimit
        /\ w >= -ShortLimit /\ w <= ShortLimit
    BY <1>1, <1>4 DEF ShortVal
  <2>2. v * w <= ShortLimit * ShortLimit /\ v * w >= -(ShortLimit * ShortLimit)
    BY <1>1, <2>1
  <2> QED
    BY <1>1, <2>1, <2>2
<1>5. ASSUME NEW v \in ShortVal, NEW w \in ShortVal
      PROVE  /\ v + w \in -q .. q - 1 /\ v - w \in -q .. q - 1 /\ -v \in -q .. q - 1
  BY <1>1, <1>2, <1>3, <1>5 DEF ShortVal
<1> QED
  BY <1>1, <1>2, <1>4, <1>5

LEMMA RawInField ==
    ASSUME NEW a \in Field, NEW b \in Field
    PROVE  /\ Fr_rawAdd(a, b) \in Field /\ Fr_rawSub(a, b) \in Field
           /\ Fr_rawNeg(a) \in Field
  BY FrAssumption DEF Field, Fr_rawAdd, Fr_rawSub, Fr_rawNeg

LEMMA CopyInField ==
    ASSUME NEW v \in -q .. q - 1
    PROVE  rawCopyS2L(v) \in Field
  BY FrAssumption DEF Field, rawCopyS2L

LEMMA ConstantsInField ==
    R2 \in Field /\ R3 \in Field /\ 1 % q \in Field /\ fOne \in Field /\ fNegOne \in Field
<1>1. R2 \in Field /\ R3 \in Field /\ 1 % q \in Field
  BY FrAssumption DEF R2, R3, Field
<1>2. fOne \in Field
  BY <1>1, MMulInField DEF fOne, RawFr_fromString, RawFr_fromMpz, Fr_rawToMontgomery
<1> QED
  BY <1>1, <1>2, RawInField DEF fNegOne

LEMMA MMulShortInField ==
    ASSUME NEW a \in Field, NEW v \in ShortVal
    PROVE  MMulShort(a, v) \in Field
<1>1. v >= 0 => v \in Field
  BY ShortBounds DEF ShortVal, Field
<1>2. v < 0 => -v \in Field
  BY ShortBounds DEF ShortVal, Field
<1>3. v \in Int
  BY ShortBounds DEF ShortVal
<1> QED
  BY <1>1, <1>2, <1>3, MMulInField, RawInField DEF MMulShort

LEMMA FromShortElement ==
    ASSUME NEW v \in -q .. q - 1
    PROVE  FromShort(v) \in Element
  BY CopyInField DEF FromShort, Short, Long, Element, Shorts, Longs

LEMMA ProductElement ==
    ASSUME NEW v \in ShortVal, NEW w \in ShortVal
    PROVE  ProductOfShorts(v, w) \in Element
  BY ShortBounds, CopyInField DEF ProductOfShorts, Long, Element, Longs

LEMMA FromMpzElement ==
    ASSUME NEW v \in Field
    PROVE  Fr_fromMpz(v) \in Element
  BY DEF Fr_fromMpz, Short, Long, Element, Shorts, Longs

\* What IsLong and IsMontgomery say about an element.
LEMMA Kinds ==
    ASSUME NEW a \in Element
    PROVE  /\ IsLong(a) => a \in Longs /\ a.v \in Field
           /\ ~IsLong(a) => a \in Shorts /\ a.v \in ShortVal
           /\ ~IsRaw(a)
  BY DEF Element, Shorts, Longs, IsLong, IsRaw

LEMMA LongForms ==
    ASSUME NEW a \in Element
    PROVE  /\ Montgomery(a) \in Field /\ Normal(a) \in Field
           /\ Fr_toNormal(a) \in Element /\ Fr_toLongNormal(a) \in Element
           /\ Fr_toMontgomery(a) \in Element
           /\ Fr_toMpz(a) \in Field
<1>1. CASE ~IsLong(a)
  <2>1. a.v \in ShortVal /\ a \in Shorts /\ a.v \in -q .. q - 1
    BY <1>1, Kinds, ShortBounds DEF ShortVal
  <2>2. Montgomery(a) = MMulShort(R2, a.v)
    BY <1>1 DEF Montgomery, IsLong
  <2>3. Normal(a) = rawCopyS2L(a.v) /\ Fr_toNormal(a) = a
        /\ Fr_toLongNormal(a) = Long(rawCopyS2L(a.v))
    BY <1>1 DEF Normal, Fr_toNormal, Fr_toLongNormal, IsLong
  <2>4. Fr_toMontgomery(a) \in {a, ShortMontgomery(a.v)}
    BY <1>1 DEF Fr_toMontgomery
  <2>5. Fr_toMpz(a) = rawCopyS2L(a.v)
    BY <1>1, <2>1, <2>3 DEF Fr_toMpz, rawCopyS2L
  <2>6. rawCopyS2L(a.v) \in Field
    BY <2>1, CopyInField
  <2>7. Montgomery(a) \in Field
    BY <2>1, <2>2, MMulShortInField, ConstantsInField
  <2> QED
    BY <2>1, <2>3, <2>4, <2>5, <2>6, <2>7
    DEF Element, Shorts, Longs, Long, ShortMontgomery
<1>2. CASE IsLong(a)
  <2>1. a \in Longs /\ a.v \in Field
    BY <1>2, Kinds
  <2>2. Montgomery(a) \in Field
    BY <2>1, MMulInField, ConstantsInField DEF Montgomery, Longs, Fr_rawToMontgomery
  <2>3. Fr_toNormal(a) \in Longs
    BY <2>1, FromMontgomeryInField DEF Fr_toNormal, Longs, Long
  <2>4. IsLong(Fr_toNormal(a))
    BY <2>3 DEF Longs, IsLong
  <2>5. Fr_toMpz(a) = Fr_toNormal(a).v /\ Fr_toLongNormal(a) = Long(Fr_toNormal(a).v)
    BY <1>2, <2>4 DEF Fr_toMpz, Fr_toLongNormal
  <2>6. Normal(a) = a.v
    BY <1>2 DEF Normal
  <2>7. Fr_toMontgomery(a) \in {a, LongMontgomery(Montgomery(a))}
    BY <1>2 DEF Fr_toMontgomery
  <2> QED
    BY <2>1, <2>2, <2>3, <2>5, <2>6, <2>7 DEF Element, Longs, Long, LongMontgomery
<1> QED
  BY <1>1, <1>2

LEMMA ProductInField ==
    ASSUME NEW a \in Element, NEW b \in Element, IsLong(a) \/ IsLong(b)
    PROVE  Product(a, b) \in Field
<1>1. CASE a.type = "SHORT"
  BY <1>1, Kinds, MMulShortInField DEF Product, IsLong
<1>2. CASE a.type # "SHORT" /\ b.type = "SHORT"
  BY <1>2, Kinds, MMulShortInField DEF Product, IsLong
<1>3. CASE a.type = "SHORTMONTGOMERY" /\ b.type # "SHORT"
  BY <1>3, Kinds, LongForms, MMulInField DEF Product, IsLong
<1>4. CASE IsLong(a) /\ b.type = "SHORTMONTGOMERY"
  BY <1>4, Kinds, LongForms, MMulInField DEF Product, IsLong
<1>5. CASE IsLong(a) /\ IsLong(b)
  BY <1>5, Kinds, MMulInField DEF Product, IsLong
<1> QED
  BY <1>1, <1>2, <1>3, <1>4, <1>5 DEF Element, Shorts, Longs, IsLong

LEMMA LongElement ==
    ASSUME NEW v \in Field
    PROVE  Long(v) \in Element /\ LongMontgomery(v) \in Element
  BY DEF Element, Longs, Long, LongMontgomery

LEMMA AddElement ==
    ASSUME NEW a \in Element, NEW b \in Element
    PROVE  Fr_add(a, b) \in Element /\ Fr_sub(a, b) \in Element
<1>1. CASE ~IsLong(a) /\ ~IsLong(b)
  BY <1>1, Kinds, ShortBounds, FromShortElement DEF Fr_add, Fr_sub
<1>2. CASE (IsLong(a) \/ IsLong(b)) /\ InMontgomery(a, b)
  BY <1>2, LongForms, RawInField, LongElement DEF Fr_add, Fr_sub
<1>3. CASE (IsLong(a) \/ IsLong(b)) /\ ~InMontgomery(a, b)
  BY <1>3, LongForms, RawInField, LongElement DEF Fr_add, Fr_sub
<1> QED
  BY <1>1, <1>2, <1>3

LEMMA MulElement ==
    ASSUME NEW a \in Element, NEW b \in Element
    PROVE  Fr_mul(a, b) \in Element
<1>1. CASE ~IsLong(a) /\ ~IsLong(b)
  BY <1>1, Kinds, ProductElement DEF Fr_mul
<1>2. CASE IsLong(a) \/ IsLong(b)
  <2>1. Product(a, b) \in Field
    BY <1>2, ProductInField
  <2>2. Fr_rawMMul(Product(a, b), R3) \in Field
    BY <2>1, MMulInField, ConstantsInField
  <2> QED
    BY <1>2, <2>1, <2>2, LongElement DEF Fr_mul
<1> QED
  BY <1>1, <1>2

LEMMA SquareNegElement ==
    ASSUME NEW a \in Element
    PROVE  Fr_square(a) \in Element /\ Fr_neg(a) \in Element
<1>1. CASE ~IsLong(a)
  BY <1>1, Kinds, ShortBounds, FromShortElement, ProductElement DEF Fr_square, Fr_neg, IsLong
<1>2. CASE IsLong(a)
  <2>1. a.v \in Field /\ a \in Longs
    BY <1>2, Kinds
  <2>2. Fr_square(a) \in Element
    BY <2>1, MMulInField, ConstantsInField, LongElement DEF Fr_square, Longs
  <2>3. Fr_neg(a) \in Element
    BY <1>2, <2>1, RawInField DEF Fr_neg, Element, Longs
  <2> QED
    BY <2>2, <2>3
<1> QED
  BY <1>1, <1>2

LEMMA MpzElement ==
    ASSUME NEW a \in Element, NEW b \in Element
    PROVE  /\ \A x \in Fr_pow(a, b) \cup Fr_inv(a) \cup Fr_div(a, b) : x \in Element
           /\ Fr_toMpz(b) # 0 => Fr_idiv(a, b) \in Element /\ Fr_mod(a, b) \in Element
<1>1. Fr_toMpz(a) \in Field /\ Fr_toMpz(b) \in Field
  BY LongForms
<1>2. \A x \in Fr_pow(a, b) : x \in Element
  BY FromMpzElement DEF Fr_pow, PowM
<1>3. \A x \in Fr_inv(a) \cup Fr_inv(b) : x \in Element
  BY FromMpzElement DEF Fr_inv, Invert
<1>4. \A x \in Fr_div(a, b) : x \in Element
  BY <1>3, MulElement DEF Fr_div
<1>5. ASSUME Fr_toMpz(b) # 0
      PROVE  Fr_idiv(a, b) \in Element /\ Fr_mod(a, b) \in Element
  <2> DEFINE m == Fr_toMpz(a)
             n == Fr_toMpz(b)
  <2>1. m \in Nat /\ m < q /\ n \in Nat /\ n > 0 /\ n < q /\ q \in Nat
    BY <1>1, <1>5, FrAssumption DEF Field
  <2> HIDE DEF m, n
  <2>2. m \div n \in Nat /\ m \div n <= m
    <3>1. m \div n \in Nat /\ (m \div n) * n <= m
      BY <2>1
    <3> QED
      BY <2>1, <3>1
  <2>3. m % n \in Nat /\ m % n < n
    BY <2>1
  <2>4. m \div n \in Field /\ m % n \in Field
    BY <2>1, <2>2, <2>3 DEF Field
  <2> QED
    BY <2>4, FromMpzElement DEF Fr_idiv, Fr_mod, m, n
<1> QED
  BY <1>2, <1>3, <1>4, <1>5

LEMMA StrElement ==
    ASSUME NEW v \in Int
    PROVE  Fr_str2element(v) \in Element /\ RawFr_fromString(v) \in Field
<1>1. v % q \in Field
  BY FrAssumption DEF Field
<1> QED
  BY <1>1, FromMpzElement, MMulInField, ConstantsInField
  DEF Fr_str2element, RawFr_fromString, RawFr_fromMpz, Fr_rawToMontgomery

-----------------------------------------------------------------------------
(* The invariant: what the variables hold, the loop of exp and the call    *)
(* under way, whose operands stay of the types it needs.                   *)

LoopTyped == loop \in [i : 0 .. ScalarBits, found : BOOLEAN, r : Field]
CallTyped == call # <<>> => \E c \in Calls : call = <<c>> /\ WellTyped(c)
IInv == Canonical /\ LoopTyped /\ CallTyped

LEMMA ElementIsCanonical ==
    /\ \A x \in Element : x \in CanonicalElement /\ ~IsRaw(x)
    /\ \A v \in Field : Raw(v) \in CanonicalElement
    /\ \A x \in CanonicalElement : IF IsRaw(x) THEN x.v \in Field ELSE x \in Element
  BY DEF Element, Shorts, Longs, CanonicalElement, IsRaw, Raw

LEMMA CallsTyped ==
    ASSUME NEW c \in Calls
    PROVE  /\ c.r \in Var /\ c.a \in Var /\ c.b \in Var
           /\ c.op \in {"str2element", "fromString"} => c.v \in Int
           /\ c.op = "fromUI" => c.v \in Field
<1>1. CASE c \in {Apply(op, r, a, b, 0) : op \in FrBinary, r \in Var, a \in Var, b \in Var}
  BY <1>1 DEF Apply, FrBinary, Binary
<1>2. CASE c \in {Apply(op, r, a, a, 0) : op \in FrUnary \cup RawUnary, r \in Var, a \in Var}
  BY <1>2 DEF Apply, FrUnary, RawUnary, Unary
<1>3. CASE c \in {Apply(op, r, r, r, v) : op \in {"str2element", "fromString"}, r \in Var,
                                         v \in Numbers}
  BY <1>3, NumbersAssumption DEF Apply
<1>4. CASE c \in {Apply("fromUI", r, r, r, v) : r \in Var, v \in Unsigned}
  BY <1>4, NumbersAssumption DEF Apply, Unsigned
<1>5. CASE c \in {Apply("exp", r, a, a, v) : r \in Var, a \in Var, v \in Exponents}
  BY <1>5 DEF Apply
<1>6. CASE c \in {Apply("negOne", r, r, r, 0) : r \in Var}
  BY <1>6 DEF Apply
<1> QED
  BY <1>1, <1>2, <1>3, <1>4, <1>5, <1>6 DEF Calls

\* What a step that completes a call may rely on.
LEMMA CallFacts ==
    ASSUME IInv, call # <<>>
    PROVE  /\ Call.r \in Var /\ A \in CanonicalElement /\ B \in CanonicalElement
           /\ Call.op \in {"str2element", "fromString"} => Call.v \in Int
           /\ Call.op = "fromUI" => Call.v \in Field
           /\ Call.op \in Binary => (IsRaw(A) <=> IsRaw(B))
           /\ Call.op \in {"toNormal", "toLongNormal", "toMontgomery", "toRaw",
                            "idiv", "mod", "pow"} => ~IsRaw(A) /\ ~IsRaw(B)
           /\ Call.op \in {"fromRaw", "exp"} => IsRaw(A)
<1>1. PICK c \in Calls : call = <<c>> /\ WellTyped(c)
  BY DEF IInv, CallTyped
<1>2. Call = c
  BY <1>1 DEF Call
<1>3. Call.r \in Var /\ Call.a \in Var /\ Call.b \in Var
      /\ (Call.op \in {"str2element", "fromString"} => Call.v \in Int)
      /\ (Call.op = "fromUI" => Call.v \in Field)
  BY <1>2, CallsTyped
<1>4. A \in CanonicalElement /\ B \in CanonicalElement
  BY <1>3 DEF IInv, Canonical, A, B
<1>5. /\ Call.op \in Binary => (IsRaw(A) <=> IsRaw(B))
      /\ Call.op \in {"toNormal", "toLongNormal", "toMontgomery", "toRaw",
                       "idiv", "mod", "pow"} => ~IsRaw(A) /\ ~IsRaw(B)
      /\ Call.op \in {"fromRaw", "exp"} => IsRaw(A)
  <2>1. WellTyped(Call)
    BY <1>1, <1>2
  <2>2. IsRaw(A) \in BOOLEAN /\ IsRaw(B) \in BOOLEAN
    BY DEF IsRaw
  <2> QED
    BY <2>1, <2>2 DEF WellTyped, A, B, FrUnary, FrBinary, RawUnary, Unary, Binary
<1> QED
  BY <1>3, <1>4, <1>5

LEMMA InitInv == Init => IInv
<1> SUFFICES ASSUME Init PROVE IInv
  OBVIOUS
<1>1. Canonical
  <2>1. \A v \in Numbers : Fr_str2element(v) \in CanonicalElement
    BY NumbersAssumption, StrElement, ElementIsCanonical
  <2> QED
    BY <2>1 DEF Init, Canonical
<1>2. LoopTyped
  BY NumbersAssumption, ConstantsInField DEF Init, NoLoop, LoopTyped
<1> QED
  BY <1>1, <1>2 DEF Init, IInv, CallTyped

\* A call that returns a canonical element keeps the invariant.
LEMMA ReturnInv ==
    ASSUME IInv, call # <<>>, NEW results,
           \A x \in results : x \in CanonicalElement, Return(results)
    PROVE  IInv'
<1>1. PICK x \in CanonicalElement : var' = [var EXCEPT ![Call.r] = x]
  BY DEF Return
<1>2. Canonical'
  BY <1>1 DEF IInv, Canonical
<1>3. LoopTyped'
  BY NumbersAssumption, ConstantsInField DEF Return, NoLoop, LoopTyped
<1> QED
  BY <1>2, <1>3 DEF Return, IInv, CallTyped

LEMMA ConvertInv ==
    ASSUME IInv, Convert
    PROVE  IInv'
<1>1. call # <<>>
  BY DEF Convert, Is
<1>2. CASE Is("str2element") /\ Return({Fr_str2element(Call.v)})
  BY <1>1, <1>2, CallFacts, StrElement, ElementIsCanonical, ReturnInv DEF Is
<1>3. CASE Is("fromString") /\ Return({Raw(RawFr_fromString(Call.v))})
  BY <1>1, <1>3, CallFacts, StrElement, ElementIsCanonical, ReturnInv DEF Is
<1>4. CASE Is("fromUI") /\ Return({Raw(RawFr_fromUI(Call.v))})
  <2>1. RawFr_fromUI(Call.v) \in Field
    BY <1>1, <1>4, CallFacts, MMulInField, ConstantsInField
    DEF Is, RawFr_fromUI, RawFr_fromMpz, Fr_rawToMontgomery
  <2> QED
    BY <1>1, <1>4, <2>1, ElementIsCanonical, ReturnInv
<1>5. CASE Is("negOne") /\ Return({Raw(fNegOne)})
  BY <1>1, <1>5, ConstantsInField, ElementIsCanonical, ReturnInv
<1>6. CASE Is("copy") /\ Return({A})
  BY <1>1, <1>6, CallFacts, ReturnInv
<1>7. CASE Is("toNormal") /\ Return({Fr_toNormal(A)})
  BY <1>1, <1>7, CallFacts, LongForms, ElementIsCanonical, ReturnInv DEF Is
<1>8. CASE Is("toLongNormal") /\ Return({Fr_toLongNormal(A)})
  BY <1>1, <1>8, CallFacts, LongForms, ElementIsCanonical, ReturnInv DEF Is
<1>9. CASE Is("toMontgomery") /\ Return({Fr_toMontgomery(A)})
  BY <1>1, <1>9, CallFacts, LongForms, ElementIsCanonical, ReturnInv DEF Is
<1>10. CASE Is("toRaw") /\ Return({Raw(RawFr_fromMpz(Fr_toMpz(A)))})
  <2>1. Fr_toMpz(A) \in Field
    BY <1>1, <1>10, CallFacts, LongForms, ElementIsCanonical DEF Is
  <2>2. RawFr_fromMpz(Fr_toMpz(A)) \in Field
    BY <2>1, MMulInField, ConstantsInField DEF RawFr_fromMpz, Fr_rawToMontgomery
  <2> QED
    BY <1>1, <1>10, <2>2, ElementIsCanonical, ReturnInv
<1>11. CASE Is("fromRaw") /\ Return({Fr_fromMpz(RawFr_toMpz(A.v))})
  <2>1. RawFr_toMpz(A.v) \in Field
    BY <1>1, <1>11, CallFacts, ElementIsCanonical, FromMontgomeryInField DEF Is, RawFr_toMpz
  <2> QED
    BY <1>1, <1>11, <2>1, FromMpzElement, ElementIsCanonical, ReturnInv
<1> QED
  BY <1>2, <1>3, <1>4, <1>5, <1>6, <1>7, <1>8, <1>9, <1>10, <1>11 DEF Convert

LEMMA ComputeInv ==
    ASSUME IInv, Compute
    PROVE  IInv'
<1>1. call # <<>> /\ A \in Element
  BY CallFacts, ElementIsCanonical DEF Compute
<1>2. Call.op \in Binary \cup {"idiv", "mod", "pow"} => B \in Element
  BY <1>1, CallFacts, ElementIsCanonical DEF Binary
<1>3. CASE Is("add") /\ Return({Fr_add(A, B)})
  BY <1>1, <1>2, <1>3, AddElement, ElementIsCanonical, ReturnInv DEF Is, Binary
<1>4. CASE Is("sub") /\ Return({Fr_sub(A, B)})
  BY <1>1, <1>2, <1>4, AddElement, ElementIsCanonical, ReturnInv DEF Is, Binary
<1>5. CASE Is("mul") /\ Return({Fr_mul(A, B)})
  BY <1>1, <1>2, <1>5, MulElement, ElementIsCanonical, ReturnInv DEF Is, Binary
<1>6. CASE Is("neg") /\ Return({Fr_neg(A)})
  BY <1>1, <1>6, SquareNegElement, ElementIsCanonical, ReturnInv
<1>7. CASE Is("square") /\ Return({Fr_square(A)})
  BY <1>1, <1>7, SquareNegElement, ElementIsCanonical, ReturnInv
<1>8. CASE Is("pow") /\ Return(Fr_pow(A, B))
  BY <1>1, <1>2, <1>8, MpzElement, ElementIsCanonical, ReturnInv DEF Is
<1>9. CASE Is("inv") /\ Return(Fr_inv(A))
  BY <1>1, <1>9, MpzElement, ElementIsCanonical, ReturnInv
<1>10. CASE Is("div") /\ Return(Fr_div(A, B))
  BY <1>1, <1>2, <1>10, MpzElement, ElementIsCanonical, ReturnInv DEF Is, Binary
<1>11. CASE Is("idiv") /\ Fr_toMpz(B) # 0 /\ Return({Fr_idiv(A, B)})
  BY <1>1, <1>2, <1>11, MpzElement, ElementIsCanonical, ReturnInv DEF Is
<1>12. CASE Is("mod") /\ Fr_toMpz(B) # 0 /\ Return({Fr_mod(A, B)})
  BY <1>1, <1>2, <1>12, MpzElement, ElementIsCanonical, ReturnInv DEF Is
<1> QED
  BY <1>3, <1>4, <1>5, <1>6, <1>7, <1>8, <1>9, <1>10, <1>11, <1>12 DEF Compute

LEMMA ComputeRawInv ==
    ASSUME IInv, ComputeRaw
    PROVE  IInv'
<1>1. call # <<>> /\ A.v \in Field
  BY CallFacts, ElementIsCanonical DEF ComputeRaw
<1>2. Call.op \in Binary => B.v \in Field
  BY <1>1, CallFacts, ElementIsCanonical DEF ComputeRaw
<1>3. CASE Is("add") /\ Return({Raw(Fr_rawAdd(A.v, B.v))})
  BY <1>1, <1>2, <1>3, RawInField, ElementIsCanonical, ReturnInv DEF Is, Binary
<1>4. CASE Is("sub") /\ Return({Raw(Fr_rawSub(A.v, B.v))})
  BY <1>1, <1>2, <1>4, RawInField, ElementIsCanonical, ReturnInv DEF Is, Binary
<1>5. CASE Is("mul") /\ Return({Raw(Fr_rawMMul(A.v, B.v))})
  BY <1>1, <1>2, <1>5, MMulInField, ElementIsCanonical, ReturnInv DEF Is, Binary
<1>6. CASE Is("neg") /\ Return({Raw(Fr_rawNeg(A.v))})
  BY <1>1, <1>6, RawInField, ElementIsCanonical, ReturnInv
<1>7. CASE Is("square") /\ Return({Raw(Fr_rawMMul(A.v, A.v))})
  BY <1>1, <1>7, MMulInField, ElementIsCanonical, ReturnInv
<1>8. \A a \in Field : \A y \in RawFr_inv(a) : y \in Field
  BY MMulInField, ConstantsInField DEF RawFr_inv, Invert
<1>9. CASE Is("inv") /\ Return({Raw(y) : y \in RawFr_inv(A.v)})
  BY <1>1, <1>8, <1>9, ElementIsCanonical, ReturnInv
<1>10. CASE Is("div") /\ Return({Raw(y) : y \in RawFr_div(A.v, B.v)})
  <2>1. \A y \in RawFr_div(A.v, B.v) : y \in Field
    BY <1>1, <1>2, <1>8, <1>10, MMulInField DEF RawFr_div, Is, Binary
  <2> QED
    BY <1>1, <1>10, <2>1, ElementIsCanonical, ReturnInv
<1> QED
  BY <1>3, <1>4, <1>5, <1>6, <1>7, <1>9, <1>10 DEF ComputeRaw

\* The loop of exp: its result is always a field element.
LEMMA ExpInv ==
    ASSUME IInv, RawFr_exp
    PROVE  IInv'
<1>1. call # <<>> /\ IsRaw(A) /\ A.v \in Field /\ loop.r \in Field
  BY CallFacts, ElementIsCanonical DEF RawFr_exp, Is, IInv, LoopTyped
<1>2. CASE /\ Is("exp") /\ loop.i > 0
           /\ loop' = [RawFr_expBit(loop, A.v, Call.v, loop.i - 1) EXCEPT !.i = loop.i - 1]
           /\ UNCHANGED <<var, call, failed>>
  <2> DEFINE next == RawFr_expBit(loop, A.v, Call.v, loop.i - 1)
  <2>1. Fr_rawMMul(loop.r, loop.r) \in Field
        /\ Fr_rawMMul(Fr_rawMMul(loop.r, loop.r), A.v) \in Field
    BY <1>1, MMulInField
  <2>2. next \in [i : 0 .. ScalarBits, found : BOOLEAN, r : Field]
    BY <1>1, <2>1 DEF RawFr_expBit, IInv, LoopTyped
  <2>3. loop.i - 1 \in 0 .. ScalarBits
    BY <1>2, NumbersAssumption DEF IInv, LoopTyped
  <2>4. LoopTyped'
    BY <1>2, <2>2, <2>3 DEF LoopTyped
  <2>5. Canonical' /\ CallTyped'
    BY <1>2 DEF IInv, Canonical, CallTyped, WellTyped
  <2> QED
    BY <2>4, <2>5 DEF IInv
<1>3. CASE Is("exp") /\ loop.i = 0 /\ Return({Raw(loop.r)})
  BY <1>1, <1>3, ElementIsCanonical, ReturnInv
<1> QED
  BY <1>2, <1>3 DEF RawFr_exp

LEMMA NextInv == IInv /\ [Next]_vars => IInv'
<1> SUFFICES ASSUME IInv, [Next]_vars PROVE IInv'
  OBVIOUS
<1>1. CASE Start
  BY <1>1 DEF Start, IInv, Canonical, LoopTyped, CallTyped, WellTyped
<1>2. CASE Convert
  BY <1>2, ConvertInv
<1>3. CASE Compute
  BY <1>3, ComputeInv
<1>4. CASE DivideByZero
  BY <1>4 DEF DivideByZero, IInv, Canonical, LoopTyped, CallTyped
<1>5. CASE RawFr_exp
  BY <1>5, ExpInv
<1>6. CASE ComputeRaw
  BY <1>6, ComputeRawInv
<1>7. CASE UNCHANGED vars
  BY <1>7 DEF vars, IInv, Canonical, LoopTyped, CallTyped, WellTyped
<1> QED
  BY <1>1, <1>2, <1>3, <1>4, <1>5, <1>6, <1>7 DEF Next

\* Whatever is called in whatever order, every variable holds a canonical element:
\* a short in range, or a long number below q.
THEOREM AlwaysCanonical == Spec => []Canonical
<1>1. IInv => Canonical
  BY DEF IInv
<1> QED
  BY InitInv, NextInv, <1>1, PTL DEF Spec

-----------------------------------------------------------------------------
(* Reading elements.                                                       *)

LEMMA WordBounds ==
    /\ Word \in Nat /\ Word > 1 /\ ShortLimit <= q % Word
    /\ \A i \in 1 .. 3 : HigherWords(q)[i] \in Int
<1>1. /\ Word \in Nat /\ Word > 1 /\ ShortLimit <= q % Word /\ q \in Nat
  BY FrAssumption
<1> DEFINE rest == q \div Word
<1>2. rest \in Int
  BY <1>1
<1> HIDE DEF rest
<1>3. rest % Word \in Int /\ rest \div Word \in Int
  BY <1>1, <1>2
<1>4. (rest \div Word) % Word \in Int /\ (rest \div Word) \div Word \in Int
  BY <1>1, <1>3
<1>5. HigherWords(q) = <<rest % Word, (rest \div Word) % Word, (rest \div Word) \div Word>>
  BY DEF HigherWords, rest
<1> QED
  BY <1>1, <1>3, <1>4, <1>5

\* What is less than 2^31 below q differs from it in the lowest word only.
LEMMA NextToQ ==
    ASSUME NEW n \in Nat, n < q, n >= q - ShortLimit
    PROVE  /\ n \div Word = q \div Word
           /\ LowestWord(n) - LowestWord(q) = n - q
<1> DEFINE h == q \div Word
           l == q % Word
<1>1. /\ Word \in Nat /\ Word > 1 /\ q \in Nat /\ ShortLimit \in Nat
      /\ ShortLimit <= l
  BY WordBounds, ShortBounds
<1>2. h \in Int /\ l \in Int /\ 0 <= l /\ l < Word /\ q = Word * h + l
  BY <1>1
<1> HIDE DEF h, l
<1>3. n = Word * h + (l + (n - q)) /\ 0 <= l + (n - q) /\ l + (n - q) < Word
  BY <1>1, <1>2
<1> DEFINE r == l + (n - q)
<1>4. r \in Int /\ 0 <= r /\ r < Word /\ n = Word * h + r
  BY <1>1, <1>2, <1>3
<1> HIDE DEF r
<1>5. n % Word = r /\ n \div Word = h
  BY <1>1, <1>2, <1>4
<1> QED
  BY <1>1, <1>2, <1>5 DEF LowestWord, h, l, r

LEMMA ElementReads ==
    ASSUME NEW x \in Element
    PROVE  /\ Fr_element2str(x) = Fr_toMpz(x)
           /\ Fr_toLongNormal(x) = Long(Fr_toMpz(x))
           /\ x.type # "LONGMONTGOMERY" /\ NearZero(Fr_toMpz(x)) =>
                 ~Fr_toIntFails(x) /\ Fr_toInt(x) % q = Fr_toMpz(x)
<1>1. CASE ~IsLong(x)
  <2>1. x.v \in ShortVal /\ Fr_toNormal(x) = x
    BY <1>1, Kinds DEF Fr_toNormal, IsLong
  <2>2. Fr_toMpz(x) = (IF x.v < 0 THEN x.v + q ELSE x.v)
    BY <1>1, <2>1 DEF Fr_toMpz
  <2>3. x.v % q = (IF x.v < 0 THEN x.v + q ELSE x.v)
    BY <2>1, ShortBounds DEF ShortVal
  <2>4. Fr_toInt(x) = x.v /\ ~Fr_toIntFails(x)
    BY <1>1 DEF Fr_toInt, Fr_toIntFails
  <2>5. Fr_element2str(x) = (IF x.v >= 0 THEN x.v ELSE x.v + q)
    BY <1>1 DEF Fr_element2str
  <2>6. x.v \in Int
    BY <2>1, ShortBounds DEF ShortVal
  <2> QED
    BY <1>1, <2>2, <2>3, <2>4, <2>5, <2>6 DEF Fr_toLongNormal, rawCopyS2L
<1>2. CASE IsLong(x)
  <2>1. x \in Longs /\ x.v \in Field
    BY <1>2, Kinds
  <2>2. IsLong(Fr_toNormal(x))
    BY <2>1 DEF Longs, Fr_toNormal, Long, IsLong
  <2>3. /\ Fr_toMpz(x) = Fr_toNormal(x).v /\ Fr_element2str(x) = Fr_toNormal(x).v
        /\ Fr_toLongNormal(x) = Long(Fr_toNormal(x).v)
    BY <1>2, <2>2 DEF Fr_toMpz, Fr_element2str, Fr_toLongNormal
  <2>4. ASSUME x.type # "LONGMONTGOMERY", NearZero(x.v)
        PROVE  ~Fr_toIntFails(x) /\ Fr_toInt(x) % q = x.v
    <3>1. x.v \in Nat /\ x.v < q /\ q \in Nat /\ ShortLimit \in Nat
      BY <2>1, ShortBounds DEF Field
    <3>2. CASE x.v < ShortLimit
      BY <3>1, <3>2 DEF Fr_toInt, Fr_toIntFails
    <3>3. CASE x.v >= ShortLimit
      <4>1. x.v >= q - ShortLimit
        BY <2>4, <3>1, <3>3 DEF NearZero
      <4>2. /\ x.v \div Word = q \div Word
            /\ LowestWord(x.v) - LowestWord(q) = x.v - q
        BY <3>1, <4>1, NextToQ
      <4>3. HigherWords(x.v) = HigherWords(q)
        BY <4>2 DEF HigherWords
      <4>4. \A i \in 1 .. 3 : HigherWords(q)[i] \in Int
        BY WordBounds
      <4>5. Fr_toInt(x) = x.v - q
        BY <1>2, <3>1, <3>3, <4>2 DEF Fr_toInt
      <4>6. ~Fr_toIntFails(x)
        <5>1. x.v - q \in -ShortLimit .. -1
          BY <3>1, <4>1
        <5>2. \A i \in 1 .. 3 : ~(HigherWords(x.v)[i] > HigherWords(q)[i])
          BY <4>3, <4>4
        <5> QED
          BY <4>2, <5>1, <5>2 DEF Fr_toIntFails
      <4>7. (x.v - q) % q = x.v
        BY <3>1
      <4> QED
        BY <4>5, <4>6, <4>7
    <3> QED
      BY <3>1, <3>2, <3>3
  <2>5. x.type # "LONGMONTGOMERY" => Fr_toNormal(x) = x
    BY DEF Fr_toNormal
  <2> QED
    BY <2>3, <2>4, <2>5
<1> QED
  BY <1>1, <1>2

\* All ways to read an element give the same number, in every reachable state: the
\* digits, the GMP integer, the long form, and the index of a number near zero.
THEOREM AlwaysReadsAgree == Spec => []ReadsAgree
<1>1. IInv => ReadsAgree
  <2> SUFFICES ASSUME IInv, NEW r \in Var, ~IsRaw(var[r])
               PROVE  /\ Fr_element2str(var[r]) = Fr_toMpz(var[r])
                      /\ Fr_toLongNormal(var[r]) = Long(Fr_toMpz(var[r]))
                      /\ var[r].type # "LONGMONTGOMERY" /\ NearZero(Fr_toMpz(var[r]))
                            => /\ ~Fr_toIntFails(var[r])
                               /\ Fr_toInt(var[r]) % q = Fr_toMpz(var[r])
    BY DEF ReadsAgree
  <2>1. var[r] \in Element
    BY ElementIsCanonical DEF IInv, Canonical
  <2> QED
    BY <2>1, ElementReads
<1> QED
  BY InitInv, NextInv, <1>1, PTL DEF Spec

-----------------------------------------------------------------------------
(* The Montgomery product is the product divided by R.                     *)

\* A number and the one a multiple of n away leave the same remainder.
LEMMA SameRemainder ==
    ASSUME NEW n \in Nat, n > 0, NEW a \in Int, NEW k \in Int
    PROVE  (a + k * n) % n = a % n
<1> DEFINE b == a + k * n
           d == a \div n
           e == b \div n
<1>1. b \in Int
  OBVIOUS
<1>2. d \in Int /\ a % n \in Int /\ 0 <= a % n /\ a % n < n /\ a = n * d + (a % n)
  OBVIOUS
<1> HIDE DEF b, d
<1>3. e \in Int /\ b % n \in Int /\ 0 <= b % n /\ b % n < n /\ b = n * e + (b % n)
  BY <1>1
<1> HIDE DEF e
<1> DEFINE f == d + k - e
<1>4. f \in Int /\ n * f = (b % n) - (a % n)
  <2>1. b = n * (d + k) + (a % n)
    BY <1>2 DEF b
  <2>2. n * (d + k) - n * e = n * (d + k - e)
    BY <1>2, <1>3
  <2> QED
    BY <2>1, <2>2, <1>2, <1>3
<1> HIDE DEF f
<1>5. f = 0
  <2>1. -n < n * f /\ n * f < n
    BY <1>2, <1>3, <1>4
  <2>2. f >= 1 => n * f >= n
    BY <1>4
  <2>3. f <= -1 => n * f <= -n
    BY <1>4
  <2> QED
    BY <2>1, <2>2, <2>3, <1>4
<1> QED
  BY <1>2, <1>3, <1>4, <1>5 DEF b

\* What is added makes the sum a multiple of R.
LEMMA SumIsMultiple ==
    ASSUME NEW t \in Nat
    PROVE  LET m == (t * np) % R IN ((t + m * q) \div R) * R = t + m * q
<1> DEFINE m == (t * np) % R
           k == (t * np) \div R
           c == (np * q + 1) \div R
           s == t + m * q
<1>1. q \in Nat /\ R \in Nat /\ q > 0 /\ R > 0 /\ np \in Nat
  BY FrAssumption, NpAssumption
<1>2. c \in Int /\ np * q + 1 = R * c
  <2> DEFINE x == np * q + 1
  <2>1. x \in Nat /\ x % R = 0
    BY <1>1, NpAssumption
  <2> HIDE DEF x
  <2>2. x \div R \in Int /\ x = R * (x \div R)
    BY <2>1, <1>1
  <2> QED
    BY <2>2 DEF x
<1>3. k \in Int /\ m \in Nat /\ t * np = R * k + m
  <2> DEFINE x == t * np
  <2>1. x \in Nat
    BY <1>1
  <2> HIDE DEF x
  <2>2. x \div R \in Int /\ x % R \in Nat /\ x = R * (x \div R) + (x % R)
    BY <2>1, <1>1
  <2> QED
    BY <2>2 DEF x
<1> HIDE DEF m, k, c
<1>4. s = R * (t * c - k * q)
  <2>1. m * q = (t * np) * q - (R * k) * q
    BY <1>1, <1>3
  <2>2. (t * np) * q + t = t * (np * q + 1)
    BY <1>1
  <2>3. t * (np * q + 1) = t * (R * c)
    BY <1>2
  <2>4. t * (R * c) = R * (t * c) /\ (R * k) * q = R * (k * q)
    BY <1>1, <1>2, <1>3
  <2>5. t * c \in Int /\ k * q \in Int /\ m * q \in Int /\ (t * np) * q \in Int
    BY <1>1, <1>2, <1>3
  <2>6. R * (t * c) - R * (k * q) = R * (t * c - k * q)
    BY <1>1, <2>5
  <2>7. s = R * (t * c) - R * (k * q)
    BY <2>1, <2>2, <2>3, <2>4, <2>5, <1>1
  <2> QED
    BY <2>6, <2>7
<1> DEFINE w == t * c - k * q
<1>5. w \in Int
  BY <1>1, <1>2, <1>3
<1> HIDE DEF w
<1>6. (R * w) \div R = w
  BY <1>1, <1>5
<1>7. s = R * w
  BY <1>4 DEF w
<1>8. (s \div R) * R = s
  BY <1>1, <1>5, <1>6, <1>7
<1> QED
  BY <1>8 DEF m

\* The reduction divides by R: what it gives, times R, is t in the field.
LEMMA ReduceDivides ==
    ASSUME NEW t \in Nat
    PROVE  (Reduce(t) * R) % q = t % q
<1> DEFINE m == (t * np) % R
           u == (t + m * q) \div R
<1>1. q \in Nat /\ R \in Nat /\ q > 0 /\ R > 0 /\ np \in Nat
  BY FrAssumption, NpAssumption
<1>2. m \in Nat /\ u \in Int
  <2>1. t * np \in Nat
    BY <1>1
  <2>2. m \in Nat
    BY <2>1, <1>1
  <2>3. t + m * q \in Nat
    BY <2>2, <1>1
  <2> QED
    BY <2>2, <2>3, <1>1
<1>3. u * R = t + m * q
  BY SumIsMultiple
<1>4. Reduce(t) = IF u >= q THEN u - q ELSE u
  BY DEF Reduce
<1> HIDE DEF m, u
<1>5. CASE u >= q
  <2>1. Reduce(t) * R = t + (m - R) * q
    <3>1. (u - q) * R = u * R - q * R
      BY <1>1, <1>2
    <3>2. (m - R) * q = m * q - q * R
      BY <1>1, <1>2
    <3>3. m * q \in Int /\ q * R \in Int
      BY <1>1, <1>2
    <3> QED
      BY <3>1, <3>2, <3>3, <1>3, <1>4, <1>5
  <2>2. m - R \in Int /\ t \in Int
    BY <1>1, <1>2
  <2>3. (t + (m - R) * q) % q = t % q
    BY <2>2, <1>1, SameRemainder, Zenon
  <2> QED
    BY <2>1, <2>3
<1>6. CASE ~(u >= q)
  <2>1. Reduce(t) * R = t + m * q
    BY <1>3, <1>4, <1>6
  <2>2. m \in Int /\ t \in Int
    BY <1>2
  <2>3. (t + m * q) % q = t % q
    BY <2>2, <1>1, SameRemainder, Zenon
  <2> QED
    BY <2>1, <2>3
<1> QED
  BY <1>5, <1>6

\* MontgomeryProduct: Fr_rawMMul of two field elements is in the field, and R times it
\* is their product; Fr_rawFromMontgomery takes the factor R away.
THEOREM MontgomeryProduct ==
    ASSUME NEW a \in Field, NEW b \in Field
    PROVE  /\ Fr_rawMMul(a, b) \in Field
           /\ (Fr_rawMMul(a, b) * R) % q = (a * b) % q
           /\ (Fr_rawFromMontgomery(a) * R) % q = a
<1>1. a * b \in Nat /\ a \in Nat /\ a < q /\ q \in Nat
  BY ProductBound, FrAssumption DEF Field
<1>2. a % q = a
  BY <1>1
<1> QED
  BY <1>1, <1>2, MMulInField, ReduceDivides DEF Fr_rawMMul, Fr_rawFromMontgomery

-----------------------------------------------------------------------------
(* Congruence modulo q.                                                    *)

Same(a, b) == a % q = b % q

\* Congruent numbers differ by a multiple of q.
LEMMA SameIsMultiple ==
    ASSUME NEW a \in Int, NEW b \in Int
    PROVE  Same(a, b) <=> \E k \in Int : a = b + k * q
<1>1. q \in Nat /\ q > 0
  BY FrAssumption
<1>2. ASSUME Same(a, b) PROVE \E k \in Int : a = b + k * q
  <2>1. a \div q \in Int /\ b \div q \in Int /\ a % q \in Int
        /\ a = q * (a \div q) + (a % q) /\ b = q * (b \div q) + (b % q)
    BY <1>1
  <2> DEFINE d == a \div q
             e == b \div q
             r == a % q
  <2>2. d \in Int /\ e \in Int /\ r \in Int /\ a = q * d + r /\ b = q * e + r
    BY <1>2, <2>1 DEF Same
  <2> HIDE DEF d, e, r
  <2>3. d - e \in Int /\ a = b + (d - e) * q
    BY <1>1, <2>2
  <2> QED
    BY <2>3
<1>3. ASSUME NEW k \in Int, a = b + k * q PROVE Same(a, b)
  <2>1. (b + k * q) % q = b % q
    BY <1>1, SameRemainder, Zenon
  <2> QED
    BY <1>3, <2>1 DEF Same
<1> QED
  BY <1>2, <1>3

\* Sums, differences and products of congruent numbers are congruent.
LEMMA SameArithmetic ==
    ASSUME NEW a \in Int, NEW b \in Int, NEW c \in Int, NEW d \in Int,
           Same(a, b), Same(c, d)
    PROVE  Same(a + c, b + d) /\ Same(a - c, b - d) /\ Same(a * c, b * d)
<1>1. PICK k \in Int : a = b + k * q
  BY SameIsMultiple
<1>2. PICK l \in Int : c = d + l * q
  BY SameIsMultiple
<1>3. q \in Nat
  BY FrAssumption
<1>4. Same(a + c, b + d)
  <2>1. k + l \in Int /\ a + c = (b + d) + (k + l) * q
    BY <1>1, <1>2, <1>3
  <2> QED
    BY <2>1, SameIsMultiple
<1>5. Same(a - c, b - d)
  <2>1. k - l \in Int /\ a - c = (b - d) + (k - l) * q
    BY <1>1, <1>2, <1>3
  <2> QED
    BY <2>1, SameIsMultiple
<1>6. Same(a * c, b * d)
  <2> DEFINE n == b * l + k * d + k * l * q
  <2>1. n \in Int /\ a * c = b * d + n * q
    BY <1>1, <1>2, <1>3
  <2>2. a * c \in Int /\ b * d \in Int
    OBVIOUS
  <2> HIDE DEF n
  <2> QED
    BY <2>1, <2>2, SameIsMultiple
<1> QED
  BY <1>4, <1>5, <1>6

LEMMA SameTransitive ==
    /\ \A a \in Int : Same(a, a) /\ Same(a % q, a) /\ Same(a, a % q) /\ a % q \in Field
    /\ \A a, b \in Int : Same(a, b) => Same(b, a)
    /\ \A a, b, c \in Int : Same(a, b) /\ Same(b, c) => Same(a, c)
    /\ \A a \in Field : a % q = a
    /\ \A a \in Field, b \in Int : Same(a, b) => a = b % q
<1>1. q \in Nat /\ q > 0
  BY FrAssumption
<1>2. \A a \in Int : a % q \in Field
  BY <1>1 DEF Field
<1>3. \A a \in Field : a % q = a
  BY <1>1 DEF Field
<1> QED
  BY <1>2, <1>3 DEF Same

\* A factor changes nothing of what is congruent.
LEMMA SameFactor ==
    ASSUME NEW a \in Int, NEW b \in Int, NEW c \in Int, Same(a, b)
    PROVE  Same(a * c, b * c) /\ Same(c * a, c * b)
  BY SameArithmetic, SameTransitive

-----------------------------------------------------------------------------
(* Montgomery forms.                                                       *)

LEMMA InverseOfR ==
    RInverse \in Field /\ Same(R * RInverse, 1)
<1> DEFINE c == (np * q + 1) \div R
<1>1. q \in Nat /\ q > 1 /\ R \in Nat /\ R > 0 /\ np \in Nat
  BY FrAssumption, NpAssumption
<1>2. c \in Int /\ R * c = 1 + np * q
  <2> DEFINE x == np * q + 1
  <2>1. x \in Nat /\ x % R = 0
    BY <1>1, NpAssumption
  <2> HIDE DEF x
  <2>2. x \div R \in Int /\ x = R * (x \div R)
    BY <2>1, <1>1
  <2> QED
    BY <2>2, <1>1 DEF x
<1> HIDE DEF c
<1>3. Same(R * c, 1)
  BY <1>1, <1>2, SameIsMultiple
<1>4. Same(R * (c % q), R * c) /\ c % q \in Field
  <2>1. Same(c % q, c) /\ c % q \in Field /\ c % q \in Int
    BY <1>1, <1>2, SameTransitive
  <2> QED
    BY <2>1, <1>1, <1>2, SameFactor
<1>5. Same(R * (c % q), 1)
  <2>1. R * (c % q) \in Int /\ R * c \in Int
    BY <1>1, <1>2
  <2> QED
    BY <1>3, <1>4, <2>1, SameTransitive
<1>6. 1 % q = 1
  BY <1>1
<1>7. \E x \in Field : (R * x) % q = 1
  BY <1>4, <1>5, <1>6 DEF Same
<1> QED
  BY <1>6, <1>7 DEF RInverse, Same

LEMMA AreIntegers ==
    /\ q \in Int /\ R \in Int /\ RInverse \in Int /\ R2 \in Int /\ R3 \in Int
    /\ \A a \in Field : a \in Int
    /\ \A v \in ShortVal : v \in Int
  BY FrAssumption, InverseOfR, ConstantsInField DEF Field, ShortVal

\* R and its inverse cancel.
LEMMA Cancel ==
    ASSUME NEW a \in Int
    PROVE  Same((a * R) * RInverse, a) /\ Same((a * RInverse) * R, a)
<1> DEFINE c == R * RInverse
<1>1. c \in Int /\ Same(c, 1) /\ 1 \in Int
  BY InverseOfR, AreIntegers
<1>2. Same(a * c, a * 1)
  <2> HIDE DEF c
  <2> QED
    BY <1>1, SameFactor
<1>3. (a * R) * RInverse = a * c /\ (a * RInverse) * R = a * c /\ a * 1 = a
  BY AreIntegers
<1> QED
  BY <1>2, <1>3

\* The Montgomery product and its inverse, up to congruence.
LEMMA MMulSame ==
    ASSUME NEW a \in Field, NEW b \in Field
    PROVE  /\ Same(Fr_rawMMul(a, b), (a * b) * RInverse)
           /\ Same(Fr_rawFromMontgomery(a), a * RInverse)
<1>1. a \in Int /\ b \in Int /\ a * b \in Int /\ (a * b) * RInverse \in Int
      /\ a * RInverse \in Int
  BY AreIntegers
<1>2. ASSUME NEW m \in Field, NEW n \in Int, Same(m * R, n)
      PROVE  Same(m, n * RInverse)
  <2>1. m \in Int /\ m * R \in Int /\ (m * R) * RInverse \in Int /\ n * RInverse \in Int
    BY AreIntegers
  <2>2. Same((m * R) * RInverse, n * RInverse)
    BY <1>2, <2>1, AreIntegers, SameFactor
  <2>3. Same(m, (m * R) * RInverse)
    BY <2>1, Cancel, SameTransitive
  <2> QED
    BY <2>1, <2>2, <2>3, SameTransitive
<1>3. Same(Fr_rawMMul(a, b) * R, a * b) /\ Fr_rawMMul(a, b) \in Field
  BY MontgomeryProduct DEF Same
<1>4. Same(Fr_rawFromMontgomery(a) * R, a) /\ Fr_rawFromMontgomery(a) \in Field
  BY MontgomeryProduct, FromMontgomeryInField, SameTransitive DEF Same
<1> QED
  BY <1>1, <1>2, <1>3, <1>4

LEMMA RawSame ==
    ASSUME NEW a \in Field, NEW b \in Field
    PROVE  /\ Same(Fr_rawAdd(a, b), a + b)
           /\ Same(Fr_rawSub(a, b), a - b)
           /\ Same(Fr_rawNeg(a), -a)
<1>1. a \in Int /\ b \in Int /\ q \in Int
  BY AreIntegers
<1>2. ASSUME NEW c \in Int
      PROVE  Same(c - q, c) /\ Same(c + q, c)
  <2>1. c - q \in Int /\ c + q \in Int /\ c - q = c + (-1) * q /\ c + q = c + 1 * q
    BY <1>1
  <2> QED
    BY <2>1, SameIsMultiple
<1>3. Same(a + b - q, a + b) /\ Same(a - b + q, a - b) /\ Same(q - a, -a)
  <2> DEFINE s == a + b
             d == a - b
             n == -a
  <2>1. /\ s \in Int /\ d \in Int /\ n \in Int
        /\ a + b - q = s - q /\ a - b + q = d + q /\ q - a = n + q
    BY <1>1
  <2> HIDE DEF s, d, n
  <2>2. Same(a + b - q, s) /\ Same(a - b + q, d) /\ Same(q - a, n)
    BY <1>2, <2>1
  <2> QED
    BY <2>2 DEF s, d, n
<1>4. Same(a + b, a + b) /\ Same(a - b, a - b) /\ (a = 0 => Same(0, -a))
  BY <1>1 DEF Same
<1> QED
  BY <1>3, <1>4 DEF Fr_rawAdd, Fr_rawSub, Fr_rawNeg

LEMMA CopySame ==
    ASSUME NEW v \in Int
    PROVE  Same(rawCopyS2L(v), v)
<1>1. v + q \in Int /\ v + q = v + 1 * q
  BY AreIntegers
<1> QED
  BY <1>1, SameIsMultiple DEF rawCopyS2L, Same

LEMMA MMulShortSame ==
    ASSUME NEW a \in Field, NEW v \in ShortVal
    PROVE  Same(MMulShort(a, v), (a * v) * RInverse)
<1>1. a \in Int /\ v \in Int
  BY AreIntegers
<1>2. CASE v >= 0
  <2>1. v \in Field
    BY <1>2, ShortBounds DEF ShortVal, Field
  <2> QED
    BY <1>2, <2>1, MMulSame DEF MMulShort
<1>3. CASE v < 0
  <2>1. -v \in Field
    BY <1>3, ShortBounds DEF ShortVal, Field
  <2> DEFINE m == Fr_rawMMul(a, -v)
  <2>2. Same(m, (a * (-v)) * RInverse) /\ m \in Field
    BY <2>1, MMulSame, MMulInField
  <2>3. Same(Fr_rawNeg(m), -m) /\ Fr_rawNeg(m) \in Field
    BY <2>2, RawSame, RawInField
  <2>4. MMulShort(a, v) = Fr_rawNeg(m)
    BY <1>1, <1>3 DEF MMulShort
  <2> HIDE DEF m
  <2>5. m \in Int /\ -m \in Int /\ Fr_rawNeg(m) \in Int
    BY <2>2, <2>3, AreIntegers
  <2> DEFINE x == (a * (-v)) * RInverse
  <2>6. x \in Int /\ 0 - x = (a * v) * RInverse /\ 0 - m = -m
    BY <1>1, <2>5, AreIntegers
  <2>7. Same(0 - m, 0 - x)
    BY <2>2, <2>5, <2>6, SameArithmetic, SameTransitive
  <2>8. Same(-m, (a * v) * RInverse)
    BY <2>6, <2>7
  <2>9. (a * v) * RInverse \in Int
    BY <1>1, AreIntegers
  <2> QED
    BY <2>3, <2>4, <2>5, <2>8, <2>9, SameTransitive
<1> QED
  BY <1>1, <1>2, <1>3

-----------------------------------------------------------------------------
(* What an element stands for.                                             *)

LEMMA ValueOfForms ==
    /\ \A v \in Field : Value(Long(v)) = v /\ Value(Fr_fromMpz(v)) = v
    /\ \A v \in Field : Value(LongMontgomery(v)) = (v * RInverse) % q
                        /\ Value(Raw(v)) = (v * RInverse) % q
    /\ \A v \in Int : Value(Short(v)) = v % q /\ Value(ShortMontgomery(v)) = v % q
                      /\ Value(FromShort(v)) = v % q
    /\ \A v, w \in Int : Value(ProductOfShorts(v, w)) = (v * w) % q
<1>1. \A v \in Field : Value(Long(v)) = v /\ Value(Short(v)) = v
  BY SameTransitive DEF Value, Long, Short
<1>2. \A v \in Int : Value(Short(v)) = v % q /\ Value(ShortMontgomery(v)) = v % q
  BY DEF Value, Short, ShortMontgomery
<1>3. ASSUME NEW v \in Int PROVE Value(FromShort(v)) = v % q
  <2>1. Value(Long(rawCopyS2L(v))) = rawCopyS2L(v) % q
    BY DEF Value, Long
  <2> QED
    BY <1>2, <2>1, CopySame DEF FromShort, Same
<1>4. ASSUME NEW v \in Int, NEW w \in Int
      PROVE  Value(ProductOfShorts(v, w)) = (v * w) % q
  <2>1. Value(Long(rawCopyS2L(v * w))) = rawCopyS2L(v * w) % q
    BY DEF Value, Long
  <2>2. v * w \in Int
    BY <1>4
  <2> QED
    BY <2>1, <2>2, CopySame DEF ProductOfShorts, Same
<1> QED
  BY <1>1, <1>2, <1>3, <1>4 DEF Value, LongMontgomery, Raw, Fr_fromMpz

\* An element stands for its number, or for that divided by R.
LEMMA ValueSame ==
    ASSUME NEW a \in Element
    PROVE  /\ Value(a) \in Field /\ Value(a) \in Int /\ a.v \in Int
           /\ a.type # "LONGMONTGOMERY" => Value(a) = a.v % q /\ Same(a.v, Value(a))
           /\ a.type = "LONGMONTGOMERY" => /\ Value(a) = (a.v * RInverse) % q
                                           /\ Same(a.v, Value(a) * R)
<1>1. a.v \in Int /\ a.type # "RAW"
  BY AreIntegers DEF Element, Shorts, Longs
<1>2. CASE a.type # "LONGMONTGOMERY"
  BY <1>1, <1>2, AreIntegers, SameTransitive DEF Value
<1>3. CASE a.type = "LONGMONTGOMERY"
  <2> DEFINE x == a.v * RInverse
  <2>1. x \in Int
    BY <1>1, AreIntegers
  <2>2. Value(a) = x % q
    BY <1>3 DEF Value
  <2> HIDE DEF x
  <2>3. Value(a) \in Field /\ Value(a) \in Int /\ Same(x, Value(a))
    BY <2>1, <2>2, AreIntegers, SameTransitive
  <2>4. Same(x * R, Value(a) * R) /\ x * R \in Int /\ Value(a) * R \in Int
    <3> DEFINE w == Value(a)
    <3>1. w \in Int /\ Same(x, w)
      BY <2>3
    <3> HIDE DEF w
    <3>2. R \in Int
      BY AreIntegers
    <3>3. x * R \in Int /\ w * R \in Int
      BY <2>1, <3>1, <3>2
    <3>4. Same(x * R, w * R)
      BY <2>1, <3>1, <3>2, SameFactor, Zenon
    <3> QED
      BY <3>3, <3>4 DEF w
  <2>5. Same(a.v, x * R)
    BY <1>1, <2>4, Cancel, SameTransitive DEF x
  <2>6. Same(a.v, Value(a) * R)
    BY <1>1, <2>4, <2>5, SameTransitive
  <2> QED
    BY <1>1, <1>3, <2>2, <2>3, <2>6 DEF x
<1> QED
  BY <1>2, <1>3

\* R2 is R squared and R3 its third power.
LEMMA PowersOfR ==
    /\ Same(R2, R * R) /\ Same(R3, (R * R) * R)
    /\ R2 \in Field /\ R3 \in Field
<1>1. R * R \in Int /\ R * R * R \in Int /\ R * R * R = (R * R) * R
  BY AreIntegers
<1> QED
  BY <1>1, SameTransitive, ConstantsInField DEF R2, R3

\* A product with R2, divided by R, is a product with R.
LEMMA TimesR2 ==
    ASSUME NEW x \in Int, NEW v \in Int, Same(x, (v * R2) * RInverse)
    PROVE  Same(x, v * R)
<1> DEFINE w == (v * R2) * RInverse
           y == (v * (R * R)) * RInverse
<1>1. v * R2 \in Int /\ v * (R * R) \in Int /\ w \in Int /\ y \in Int /\ v * R \in Int
      /\ R * R \in Int
  BY AreIntegers
<1>2. Same(v * R2, v * (R * R))
  BY <1>1, AreIntegers, PowersOfR, SameFactor
<1>3. Same(w, y)
  BY <1>1, <1>2, AreIntegers, SameFactor
<1>4. Same(y, v * R)
  <2>1. y = ((v * R) * R) * RInverse
    BY AreIntegers
  <2> QED
    BY <1>1, <2>1, Cancel
<1> HIDE DEF w, y
<1>5. Same(x, w)
  BY DEF w
<1> QED
  BY <1>1, <1>3, <1>4, <1>5, SameTransitive

LEMMA MontgomerySame ==
    ASSUME NEW a \in Element
    PROVE  Same(Montgomery(a), Value(a) * R) /\ Montgomery(a) \in Field
<1>1. Value(a) \in Int /\ a.v \in Int /\ Montgomery(a) \in Field /\ Montgomery(a) \in Int
      /\ Value(a) * R \in Int /\ a.v * R \in Int
  BY ValueSame, LongForms, AreIntegers
<1>2. CASE a.type = "LONGMONTGOMERY"
  BY <1>1, <1>2, ValueSame DEF Montgomery
<1>3. CASE a.type # "LONGMONTGOMERY"
  <2>1. Same(Montgomery(a), (a.v * R2) * RInverse)
    <3>1. CASE a.type = "LONG"
      <4>1. Montgomery(a) = Fr_rawMMul(a.v, R2) /\ a.v \in Field
        BY <3>1, Kinds DEF Montgomery, Fr_rawToMontgomery, IsLong
      <4> QED
        BY <4>1, PowersOfR, MMulSame
    <3>2. CASE ~IsLong(a)
      <4>1. Montgomery(a) = MMulShort(R2, a.v) /\ a.v \in ShortVal
        BY <3>2, Kinds DEF Montgomery, IsLong
      <4>2. Same(Montgomery(a), (R2 * a.v) * RInverse)
        BY <4>1, PowersOfR, MMulShortSame
      <4>3. R2 * a.v = a.v * R2
        BY <1>1, AreIntegers
      <4> QED
        BY <4>2, <4>3
    <3> QED
      BY <1>3, <3>1, <3>2 DEF IsLong
  <2>2. Same(Montgomery(a), a.v * R)
    BY <1>1, <2>1, TimesR2
  <2>3. Same(a.v * R, Value(a) * R)
    BY <1>1, <1>3, ValueSame, AreIntegers, SameFactor
  <2> QED
    BY <1>1, <2>2, <2>3, SameTransitive
<1> QED
  BY <1>2, <1>3

\* Taking the Montgomery form back gives the number of before.
LEMMA FromMontgomerySame ==
    ASSUME NEW m \in Field, NEW v \in Int, Same(m, v * R)
    PROVE  /\ (m * RInverse) % q = v % q
           /\ Fr_rawFromMontgomery(m) = v % q
<1> DEFINE x == m * RInverse
           y == (v * R) * RInverse
<1>1. m \in Int /\ v * R \in Int /\ x \in Int /\ y \in Int
  BY AreIntegers
<1>2. Same(x, y)
  BY <1>1, AreIntegers, SameFactor
<1>3. Same(y, v)
  BY Cancel
<1>4. Same(Fr_rawFromMontgomery(m), x) /\ Fr_rawFromMontgomery(m) \in Field
  BY MMulSame, FromMontgomeryInField
<1> HIDE DEF x, y
<1>5. Same(x, v)
  BY <1>1, <1>2, <1>3, SameTransitive
<1>6. Same(Fr_rawFromMontgomery(m), v)
  BY <1>1, <1>4, <1>5, AreIntegers, SameTransitive
<1>7. x % q = v % q
  BY <1>5 DEF Same
<1> QED
  BY <1>4, <1>6, <1>7, SameTransitive DEF x

LEMMA NormalValue ==
    ASSUME NEW a \in Element
    PROVE  /\ Fr_toMpz(a) = Value(a)
           /\ Value(Fr_toNormal(a)) = Value(a)
           /\ Value(Fr_toLongNormal(a)) = Value(a)
           /\ Value(Fr_toMontgomery(a)) = Value(a)
           /\ a.type # "LONGMONTGOMERY" => Normal(a) \in Field /\ Same(Normal(a), Value(a))
<1>1. Value(a) \in Field /\ Value(a) \in Int /\ a.v \in Int
  BY ValueSame
<1>2. Value(Fr_toMontgomery(a)) = Value(a)
  <2>1. CASE IsMontgomery(a)
    BY <2>1 DEF Fr_toMontgomery
  <2>2. CASE a.type = "SHORT"
    BY <1>1, <2>2, ValueOfForms, ValueSame DEF Fr_toMontgomery, IsMontgomery, IsLong
  <2>3. CASE a.type = "LONG"
    <3>1. Fr_toMontgomery(a) = LongMontgomery(Montgomery(a))
      BY <2>3 DEF Fr_toMontgomery, IsMontgomery, IsLong
    <3>2. (Montgomery(a) * RInverse) % q = Value(a) % q /\ Montgomery(a) \in Field
      BY <1>1, MontgomerySame, FromMontgomerySame
    <3> QED
      BY <1>1, <3>1, <3>2, ValueOfForms, SameTransitive
  <2> QED
    BY <2>1, <2>2, <2>3 DEF Element, Shorts, Longs, IsMontgomery
<1>3. CASE a.type = "LONGMONTGOMERY"
  <2>1. a.v \in Field
    BY <1>3, Kinds DEF IsLong
  <2>2. Fr_toNormal(a) = Long(Fr_rawFromMontgomery(a.v))
    BY <1>3 DEF Fr_toNormal
  <2>3. Fr_rawFromMontgomery(a.v) = Value(a)
    BY <1>1, <1>3, <2>1, ValueSame, FromMontgomerySame, SameTransitive
  <2>4. Fr_toNormal(a) = Long(Value(a)) /\ IsLong(a)
    BY <1>3, <2>2, <2>3 DEF IsLong
  <2>5. Fr_toMpz(a) = Value(a) /\ Fr_toLongNormal(a) = Long(Value(a))
    BY <2>4 DEF Fr_toMpz, Fr_toLongNormal, IsLong, Long
  <2> QED
    BY <1>1, <1>2, <1>3, <2>4, <2>5, ValueOfForms
<1>4. CASE a.type # "LONGMONTGOMERY"
  <2>1. Fr_toNormal(a) = a /\ Value(a) = a.v % q
    BY <1>4, ValueSame DEF Fr_toNormal
  <2>2. Same(Normal(a), Value(a)) /\ Normal(a) \in Field
    <3>1. Same(Normal(a), a.v)
      BY <1>1, CopySame, SameTransitive DEF Normal
    <3> QED
      BY <1>1, <1>4, <3>1, ValueSame, LongForms, AreIntegers, SameTransitive
  <2>3. Normal(a) = Value(a)
    BY <1>1, <2>2, SameTransitive
  <2>4. Fr_toMpz(a) = Normal(a)
    BY <2>1 DEF Fr_toMpz, Normal, rawCopyS2L
  <2>5. Fr_toLongNormal(a) = Long(Normal(a))
    BY <2>1 DEF Fr_toLongNormal, Normal
  <2> QED
    BY <1>1, <1>2, <2>1, <2>2, <2>3, <2>4, <2>5, ValueOfForms
<1> QED
  BY <1>3, <1>4

-----------------------------------------------------------------------------
(* Sums and differences.                                                   *)

\* Sum and difference of the Montgomery forms are those of the sum and difference.
LEMMA SumSame ==
    ASSUME NEW x \in Int, NEW y \in Int, NEW m \in Int, NEW n \in Int,
           Same(m, x * R), Same(n, y * R)
    PROVE  Same(m + n, (x + y) * R) /\ Same(m - n, (x - y) * R)
<1> DEFINE a == x * R
           b == y * R
<1>1. a \in Int /\ b \in Int /\ a + b = (x + y) * R /\ a - b = (x - y) * R
  BY AreIntegers
<1>2. Same(m, a) /\ Same(n, b)
  OBVIOUS
<1> HIDE DEF a, b
<1>3. Same(m + n, a + b) /\ Same(m - n, a - b)
  BY <1>1, <1>2, SameArithmetic
<1> QED
  BY <1>1, <1>3

LEMMA ShortsOnly ==
    ASSUME NEW a \in Element, NEW b \in Element, ~IsLong(a), ~IsLong(b)
    PROVE  /\ Value(FromShort(a.v + b.v)) = (Value(a) + Value(b)) % q
           /\ Value(FromShort(a.v - b.v)) = (Value(a) - Value(b)) % q
           /\ Value(ProductOfShorts(a.v, b.v)) = (Value(a) * Value(b)) % q
           /\ Value(FromShort(-a.v)) = (-Value(a)) % q
<1> DEFINE x == a.v
           y == b.v
           m == Value(a)
           n == Value(b)
<1>1. x \in Int /\ y \in Int /\ m \in Int /\ n \in Int /\ Same(x, m) /\ Same(y, n)
  BY ValueSame DEF IsLong
<1> HIDE DEF x, y, m, n
<1>2. Same(x + y, m + n) /\ Same(x - y, m - n) /\ Same(x * y, m * n)
  BY <1>1, SameArithmetic
<1>3. Same(-x, -m)
  <2>1. Same(0 - x, 0 - m)
    BY <1>1, SameArithmetic, SameTransitive
  <2>2. 0 - x = -x /\ 0 - m = -m
    BY <1>1
  <2> QED
    BY <2>1, <2>2
<1>4. x + y \in Int /\ x - y \in Int /\ x * y \in Int /\ -x \in Int
  BY <1>1
<1>5. Value(ProductOfShorts(x, y)) = (x * y) % q
  BY <1>1, ValueOfForms
<1>6. /\ Value(FromShort(x + y)) = (m + n) % q
      /\ Value(FromShort(x - y)) = (m - n) % q
      /\ Value(ProductOfShorts(x, y)) = (m * n) % q
      /\ Value(FromShort(-x)) = (-m) % q
  BY <1>2, <1>3, <1>4, <1>5, ValueOfForms DEF Same
<1> QED
  BY <1>6 DEF x, y, m, n

LEMMA AddValue ==
    ASSUME NEW a \in Element, NEW b \in Element
    PROVE  /\ Value(Fr_add(a, b)) = (Value(a) + Value(b)) % q
           /\ Value(Fr_sub(a, b)) = (Value(a) - Value(b)) % q
<1> DEFINE x == Value(a)
           y == Value(b)
<1>1. x \in Int /\ y \in Int
  BY ValueSame
<1>2. CASE ~IsLong(a) /\ ~IsLong(b)
  BY <1>2, ShortsOnly DEF Fr_add, Fr_sub
<1>3. CASE (IsLong(a) \/ IsLong(b)) /\ InMontgomery(a, b)
  <2> DEFINE m == Montgomery(a)
             n == Montgomery(b)
  <2>1. m \in Field /\ n \in Field /\ Same(m, x * R) /\ Same(n, y * R)
    BY MontgomerySame
  <2>2. Fr_add(a, b) = LongMontgomery(Fr_rawAdd(m, n))
        /\ Fr_sub(a, b) = LongMontgomery(Fr_rawSub(m, n))
    BY <1>3 DEF Fr_add, Fr_sub
  <2> HIDE DEF m, n, x, y
  <2>3. m \in Int /\ n \in Int
    BY <2>1, AreIntegers
  <2>4. Same(m + n, (x + y) * R) /\ Same(m - n, (x - y) * R)
    BY <1>1, <2>1, <2>3, SumSame
  <2>5. Same(Fr_rawAdd(m, n), m + n) /\ Same(Fr_rawSub(m, n), m - n)
        /\ Fr_rawAdd(m, n) \in Field /\ Fr_rawSub(m, n) \in Field
    BY <2>1, RawSame, RawInField
  <2>6. m + n \in Int /\ m - n \in Int /\ (x + y) * R \in Int /\ (x - y) * R \in Int
        /\ x + y \in Int /\ x - y \in Int
    BY <1>1, <2>3, AreIntegers
  <2>7. Same(Fr_rawAdd(m, n), (x + y) * R) /\ Same(Fr_rawSub(m, n), (x - y) * R)
    BY <2>4, <2>5, <2>6, AreIntegers, SameTransitive
  <2>8. (Fr_rawAdd(m, n) * RInverse) % q = (x + y) % q
        /\ (Fr_rawSub(m, n) * RInverse) % q = (x - y) % q
    BY <2>5, <2>6, <2>7, FromMontgomerySame
  <2>9. Value(Fr_add(a, b)) = (x + y) % q /\ Value(Fr_sub(a, b)) = (x - y) % q
    BY <2>2, <2>5, <2>8, ValueOfForms
  <2> QED
    BY <2>9 DEF x, y
<1>4. CASE (IsLong(a) \/ IsLong(b)) /\ ~InMontgomery(a, b)
  <2> DEFINE m == Normal(a)
             n == Normal(b)
  <2>1. m \in Field /\ n \in Field /\ Same(m, x) /\ Same(n, y)
    BY <1>4, NormalValue DEF InMontgomery
  <2>2. Fr_add(a, b) = Long(Fr_rawAdd(m, n)) /\ Fr_sub(a, b) = Long(Fr_rawSub(m, n))
    BY <1>4 DEF Fr_add, Fr_sub
  <2> HIDE DEF m, n, x, y
  <2>3. m \in Int /\ n \in Int
    BY <2>1, AreIntegers
  <2>4. Same(m + n, x + y) /\ Same(m - n, x - y)
    BY <1>1, <2>1, <2>3, SameArithmetic
  <2>5. Same(Fr_rawAdd(m, n), m + n) /\ Same(Fr_rawSub(m, n), m - n)
        /\ Fr_rawAdd(m, n) \in Field /\ Fr_rawSub(m, n) \in Field
    BY <2>1, RawSame, RawInField
  <2>6. m + n \in Int /\ m - n \in Int /\ x + y \in Int /\ x - y \in Int
    BY <1>1, <2>3
  <2>7. Fr_rawAdd(m, n) = (x + y) % q /\ Fr_rawSub(m, n) = (x - y) % q
    BY <2>4, <2>5, <2>6, AreIntegers, SameTransitive
  <2>8. Value(Fr_add(a, b)) = (x + y) % q /\ Value(Fr_sub(a, b)) = (x - y) % q
    BY <2>2, <2>5, <2>7, ValueOfForms
  <2> QED
    BY <2>8 DEF x, y
<1> QED
  BY <1>2, <1>3, <1>4

-----------------------------------------------------------------------------
(* Products.                                                               *)

\* What the long part of an operand is congruent to.
Factor(a) == IF IsMontgomery(a) THEN Value(a) * R ELSE Value(a)

LEMMA FactorSame ==
    ASSUME NEW a \in Element
    PROVE  /\ Factor(a) \in Int
           /\ a.type # "SHORTMONTGOMERY" => Same(a.v, Factor(a))
           /\ a.type = "SHORTMONTGOMERY" => Same(Montgomery(a), Factor(a))
  BY ValueSame, MontgomerySame, AreIntegers DEF Factor, IsMontgomery

LEMMA ProductOf ==
    ASSUME NEW p \in Int, NEW m \in Int, NEW n \in Int, NEW x \in Int, NEW y \in Int,
           Same(p, (m * n) * RInverse), Same(m, x), Same(n, y)
    PROVE  Same(p, (x * y) * RInverse) /\ Same(p, (y * x) * RInverse)
<1> DEFINE a == m * n
           b == x * y
<1>1. a \in Int /\ b \in Int /\ Same(a, b) /\ y * x = b
  BY SameArithmetic
<1>2. Same(p, a * RInverse)
  OBVIOUS
<1> HIDE DEF a, b
<1>3. RInverse \in Int /\ a * RInverse \in Int /\ b * RInverse \in Int
  BY <1>1, AreIntegers
<1>4. Same(a * RInverse, b * RInverse)
  BY <1>1, <1>3, SameFactor, Zenon
<1>5. Same(p, b * RInverse)
  BY <1>2, <1>3, <1>4, SameTransitive
<1> QED
  BY <1>1, <1>5 DEF b

LEMMA ProductSame ==
    ASSUME NEW a \in Element, NEW b \in Element, IsLong(a) \/ IsLong(b)
    PROVE  Same(Product(a, b), (Factor(a) * Factor(b)) * RInverse)
<1>1. /\ Product(a, b) \in Int /\ Factor(a) \in Int /\ Factor(b) \in Int
      /\ a.v \in Int /\ b.v \in Int /\ Montgomery(a) \in Int /\ Montgomery(b) \in Int
  BY ProductInField, LongForms, FactorSame, ValueSame, AreIntegers
<1>2. CASE a.type = "SHORT"
  <2>1. Product(a, b) = MMulShort(b.v, a.v) /\ b.v \in Field /\ a.v \in ShortVal
        /\ b.type # "SHORTMONTGOMERY"
    BY <1>2, Kinds DEF Product, IsLong
  <2>2. Same(Product(a, b), (b.v * a.v) * RInverse)
    BY <2>1, MMulShortSame
  <2> QED
    BY <1>1, <1>2, <2>1, <2>2, FactorSame, ProductOf
<1>3. CASE a.type # "SHORT" /\ b.type = "SHORT"
  <2>1. Product(a, b) = MMulShort(a.v, b.v) /\ a.v \in Field /\ b.v \in ShortVal
        /\ a.type # "SHORTMONTGOMERY"
    BY <1>3, Kinds DEF Product, IsLong
  <2>2. Same(Product(a, b), (a.v * b.v) * RInverse)
    BY <2>1, MMulShortSame
  <2> QED
    BY <1>1, <1>3, <2>1, <2>2, FactorSame, ProductOf
<1>4. CASE a.type = "SHORTMONTGOMERY" /\ b.type # "SHORT"
  <2>1. Product(a, b) = Fr_rawMMul(Montgomery(a), b.v) /\ b.v \in Field
        /\ Montgomery(a) \in Field /\ b.type # "SHORTMONTGOMERY"
    BY <1>4, Kinds, LongForms DEF Product, IsLong
  <2>2. Same(Product(a, b), (Montgomery(a) * b.v) * RInverse)
    BY <2>1, MMulSame
  <2> QED
    BY <1>1, <1>4, <2>1, <2>2, FactorSame, ProductOf
<1>5. CASE IsLong(a) /\ b.type = "SHORTMONTGOMERY"
  <2>1. Product(a, b) = Fr_rawMMul(a.v, Montgomery(b)) /\ a.v \in Field
        /\ Montgomery(b) \in Field /\ a.type # "SHORTMONTGOMERY"
    BY <1>5, Kinds, LongForms DEF Product, IsLong
  <2>2. Same(Product(a, b), (a.v * Montgomery(b)) * RInverse)
    BY <2>1, MMulSame
  <2> QED
    BY <1>1, <1>5, <2>1, <2>2, FactorSame, ProductOf
<1>6. CASE IsLong(a) /\ IsLong(b)
  <2>1. Product(a, b) = Fr_rawMMul(a.v, b.v) /\ a.v \in Field /\ b.v \in Field
        /\ a.type # "SHORTMONTGOMERY" /\ b.type # "SHORTMONTGOMERY"
    BY <1>6, Kinds DEF Product, IsLong
  <2>2. Same(Product(a, b), (a.v * b.v) * RInverse)
    BY <2>1, MMulSame
  <2> QED
    BY <1>1, <2>1, <2>2, FactorSame, ProductOf
<1> QED
  BY <1>2, <1>3, <1>4, <1>5, <1>6 DEF Element, Shorts, Longs, IsLong

\* The product of two Montgomery forms is the Montgomery form of the product.
LEMMA BothMontgomery ==
    ASSUME NEW p \in Field, NEW x \in Int, NEW y \in Int,
           Same(p, ((x * R) * (y * R)) * RInverse)
    PROVE  (p * RInverse) % q = (x * y) % q
<1> DEFINE w == (x * y) * R
<1>1. w \in Int /\ p \in Int /\ x * y \in Int /\ (w * R) * RInverse \in Int
  BY AreIntegers
<1>2. ((x * R) * (y * R)) * RInverse = (w * R) * RInverse
  BY AreIntegers
<1>3. Same((w * R) * RInverse, w)
  <2> HIDE DEF w
  <2> QED
    BY <1>1, Cancel
<1>4. Same(p, w)
  BY <1>1, <1>2, <1>3, SameTransitive
<1> QED
  BY <1>1, <1>4, FromMontgomerySame

\* The product with one Montgomery form is the product.
LEMMA OneMontgomery ==
    ASSUME NEW p \in Field, NEW x \in Int, NEW y \in Int, Same(p, ((x * y) * R) * RInverse)
    PROVE  p = (x * y) % q
<1> DEFINE w == x * y
<1>1. w \in Int /\ p \in Int
  BY AreIntegers
<1>2. Same(p, (w * R) * RInverse)
  OBVIOUS
<1> HIDE DEF w
<1>3. Same((w * R) * RInverse, w) /\ (w * R) * RInverse \in Int
  BY <1>1, Cancel, AreIntegers
<1>4. Same(p, w)
  BY <1>1, <1>2, <1>3, SameTransitive
<1>5. p = w % q
  BY <1>1, <1>4, SameTransitive
<1> QED
  BY <1>5 DEF w

\* A product with R3, divided by R, is a product with R twice.
LEMMA TimesR3 ==
    ASSUME NEW p \in Field
    PROVE  Same(Fr_rawMMul(p, R3), (p * R) * R) /\ Fr_rawMMul(p, R3) \in Field
<1> DEFINE m == Fr_rawMMul(p, R3)
           c == (R * R) * R
           w == (p * R) * R
<1>1. m \in Field /\ Same(m, (p * R3) * RInverse)
  BY PowersOfR, MMulSame, MMulInField
<1>2. p \in Int /\ c \in Int /\ w \in Int /\ Same(p, p) /\ Same(R3, c) /\ m \in Int
  <2>1. p \in Int /\ c \in Int /\ w \in Int /\ m \in Int
    BY <1>1, AreIntegers
  <2> QED
    BY <2>1, PowersOfR, SameTransitive
<1>3. (p * c) * RInverse = (w * R) * RInverse
  BY <1>2, AreIntegers
<1> HIDE DEF m, c, w
<1>4. Same(m, (p * c) * RInverse)
  BY <1>1, <1>2, AreIntegers, ProductOf
<1>5. Same((w * R) * RInverse, w) /\ (w * R) * RInverse \in Int
  BY <1>2, Cancel, AreIntegers
<1>6. Same(m, w)
  BY <1>2, <1>3, <1>4, <1>5, SameTransitive
<1> QED
  BY <1>1, <1>6 DEF m, w

\* The product of two normal numbers, brought to Montgomery form.
LEMMA NoMontgomery ==
    ASSUME NEW p \in Field, NEW w \in Int, Same(p, w * RInverse)
    PROVE  (Fr_rawMMul(p, R3) * RInverse) % q = w % q
<1> DEFINE m == Fr_rawMMul(p, R3)
           d == p * R
           e == (w * RInverse) * R
<1>1. m \in Field /\ Same(m, d * R)
  BY TimesR3
<1>2. /\ d \in Int /\ e \in Int /\ p \in Int /\ w * RInverse \in Int /\ m \in Int
      /\ d * R \in Int /\ w * R \in Int
  BY <1>1, AreIntegers
<1>3. Same(d, e)
  BY <1>2, AreIntegers, SameFactor
<1>4. Same(e, w)
  BY Cancel
<1> HIDE DEF m, d, e
<1>5. Same(d, w)
  BY <1>2, <1>3, <1>4, SameTransitive
<1>6. Same(d * R, w * R)
  BY <1>2, <1>5, AreIntegers, SameFactor
<1>7. Same(m, w * R)
  BY <1>1, <1>2, <1>6, SameTransitive
<1>8. (m * RInverse) % q = w % q
  BY <1>1, <1>7, FromMontgomerySame
<1> QED
  BY <1>8 DEF m

LEMMA MulValue ==
    ASSUME NEW a \in Element, NEW b \in Element
    PROVE  Value(Fr_mul(a, b)) = (Value(a) * Value(b)) % q
<1> DEFINE x == Value(a)
           y == Value(b)
           p == Product(a, b)
<1>1. x \in Int /\ y \in Int
  BY ValueSame
<1>2. CASE ~IsLong(a) /\ ~IsLong(b)
  BY <1>2, ShortsOnly DEF Fr_mul
<1>3. CASE IsLong(a) \/ IsLong(b)
  <2>1. p \in Field /\ Same(p, (Factor(a) * Factor(b)) * RInverse)
    BY <1>3, ProductInField, ProductSame
  <2>2. CASE IsMontgomery(a) /\ IsMontgomery(b)
    <3>1. Fr_mul(a, b) = LongMontgomery(p) /\ Factor(a) = x * R /\ Factor(b) = y * R
      BY <1>3, <2>2 DEF Fr_mul, Factor
    <3> HIDE DEF x, y, p
    <3>2. Same(p, ((x * R) * (y * R)) * RInverse)
      BY <2>1, <3>1
    <3>3. (p * RInverse) % q = (x * y) % q
      BY <1>1, <2>1, <3>2, BothMontgomery
    <3>4. Value(Fr_mul(a, b)) = (x * y) % q
      BY <2>1, <3>1, <3>3, ValueOfForms
    <3> QED
      BY <3>4 DEF x, y
  <2>3. CASE IsMontgomery(a) # IsMontgomery(b)
    <3>1. Fr_mul(a, b) = Long(p)
      BY <1>3, <2>3 DEF Fr_mul, IsMontgomery
    <3>2. \/ Factor(a) = x * R /\ Factor(b) = y
          \/ Factor(a) = x /\ Factor(b) = y * R
      BY <2>3 DEF Factor, IsMontgomery
    <3> HIDE DEF x, y, p
    <3>3. (x * R) * y = (x * y) * R /\ x * (y * R) = (x * y) * R
      BY <1>1, AreIntegers
    <3>4. Same(p, ((x * y) * R) * RInverse)
      BY <2>1, <3>2, <3>3
    <3>5. p = (x * y) % q
      BY <1>1, <2>1, <3>4, OneMontgomery
    <3>6. Value(Fr_mul(a, b)) = (x * y) % q
      BY <2>1, <3>1, <3>5, ValueOfForms
    <3> QED
      BY <3>6 DEF x, y
  <2>4. CASE ~IsMontgomery(a) /\ ~IsMontgomery(b)
    <3>1. Fr_mul(a, b) = LongMontgomery(Fr_rawMMul(p, R3)) /\ Factor(a) = x /\ Factor(b) = y
      BY <1>3, <2>4 DEF Fr_mul, Factor
    <3> HIDE DEF x, y, p
    <3>2. x * y \in Int /\ Same(p, (x * y) * RInverse)
      BY <1>1, <2>1, <3>1
    <3>3. (Fr_rawMMul(p, R3) * RInverse) % q = (x * y) % q /\ Fr_rawMMul(p, R3) \in Field
      BY <2>1, <3>2, NoMontgomery, TimesR3
    <3>4. Value(Fr_mul(a, b)) = (x * y) % q
      BY <3>1, <3>3, ValueOfForms
    <3> QED
      BY <3>4 DEF x, y
  <2> QED
    BY <2>2, <2>3, <2>4 DEF IsMontgomery
<1> QED
  BY <1>2, <1>3

\* A square is the product of a number with itself, in the same representation.
LEMMA SquareNegValue ==
    ASSUME NEW a \in Element
    PROVE  /\ Value(Fr_square(a)) = (Value(a) * Value(a)) % q
           /\ Value(Fr_neg(a)) = (-Value(a)) % q
<1>1. Fr_square(a) = Fr_mul(a, a)
  <2>1. CASE ~IsLong(a)
    BY <2>1 DEF Fr_square, Fr_mul, IsLong
  <2>2. CASE IsLong(a)
    BY <2>2 DEF Fr_square, Fr_mul, Product, IsLong, IsMontgomery
  <2> QED
    BY <2>1, <2>2
<1>2. CASE ~IsLong(a)
  BY <1>1, <1>2, MulValue, ShortsOnly DEF Fr_neg
<1>3. CASE IsLong(a)
  <2> DEFINE m == a.v
             x == Value(a)
             n == Fr_rawNeg(m)
  <2>1. m \in Field /\ a \in Longs /\ x \in Int
    BY <1>3, Kinds, ValueSame
  <2>2. n \in Field /\ Same(n, -m)
    BY <2>1, RawSame, RawInField
  <2>3. m \in Int /\ -m \in Int /\ n \in Int /\ -x \in Int /\ 0 - m = -m
    BY <2>1, <2>2, AreIntegers
  <2>4. Fr_neg(a) = [a EXCEPT !.v = n]
    BY <1>3 DEF Fr_neg
  <2>5. CASE a.type = "LONG"
    <3>1. Same(m, x) /\ Fr_neg(a) = Long(n)
      BY <2>1, <2>4, <2>5, ValueSame DEF Longs, Long
    <3> HIDE DEF m, x, n
    <3>2. Same(0 - m, 0 - x) /\ 0 - x = -x
      BY <2>1, <2>3, <3>1, SameArithmetic, SameTransitive
    <3>3. n = (-x) % q
      BY <2>2, <2>3, <3>2, SameTransitive
    <3>4. Value(Fr_neg(a)) = (-x) % q
      BY <2>2, <3>1, <3>3, ValueOfForms
    <3> QED
      BY <1>1, <3>4, MulValue DEF x
  <2>6. CASE a.type = "LONGMONTGOMERY"
    <3>1. Same(m, x * R) /\ Fr_neg(a) = LongMontgomery(n)
      BY <2>1, <2>4, <2>6, ValueSame DEF Longs, LongMontgomery
    <3> HIDE DEF m, x, n
    <3>2. x * R \in Int /\ 0 - (x * R) = (-x) * R /\ (-x) * R \in Int
      BY <2>1, AreIntegers
    <3>3. Same(0 - m, 0 - (x * R))
      BY <2>3, <3>1, <3>2, SameArithmetic, SameTransitive
    <3>4. Same(n, (-x) * R)
      BY <2>2, <2>3, <3>2, <3>3, SameTransitive
    <3>5. (n * RInverse) % q = (-x) % q
      BY <2>2, <2>3, <3>4, FromMontgomerySame
    <3>6. Value(Fr_neg(a)) = (-x) % q
      BY <2>2, <3>1, <3>5, ValueOfForms
    <3> QED
      BY <1>1, <3>6, MulValue DEF x
  <2> QED
    BY <1>3, <2>5, <2>6 DEF IsLong
<1> QED
  BY <1>2, <1>3

-----------------------------------------------------------------------------
(* Inverses, quotients and the other operations through GMP.               *)

\* A raw element stands for what the same long number in Montgomery form stands for.
LEMMA RawIsMontgomery ==
    ASSUME NEW v \in Field
    PROVE  /\ Value(Raw(v)) = Value(LongMontgomery(v))
           /\ LongMontgomery(v) \in Element
           /\ Value(Raw(v)) \in Field /\ Value(Raw(v)) \in Int
           /\ Same(v, Value(Raw(v)) * R)
<1>1. LongMontgomery(v) \in Element /\ Value(Raw(v)) = Value(LongMontgomery(v))
  BY LongElement, ValueOfForms
<1>2. LongMontgomery(v).type = "LONGMONTGOMERY" /\ LongMontgomery(v).v = v
  BY DEF LongMontgomery
<1> QED
  BY <1>1, <1>2, ValueSame

LEMMA RawArithmetic ==
    ASSUME NEW v \in Field, NEW w \in Field
    PROVE  /\ Value(Raw(Fr_rawAdd(v, w))) = (Value(Raw(v)) + Value(Raw(w))) % q
           /\ Value(Raw(Fr_rawSub(v, w))) = (Value(Raw(v)) - Value(Raw(w))) % q
           /\ Value(Raw(Fr_rawMMul(v, w))) = (Value(Raw(v)) * Value(Raw(w))) % q
           /\ Value(Raw(Fr_rawNeg(v))) = (-Value(Raw(v))) % q
<1> DEFINE a == LongMontgomery(v)
           b == LongMontgomery(w)
<1>1. a \in Element /\ b \in Element /\ Value(Raw(v)) = Value(a) /\ Value(Raw(w)) = Value(b)
  BY RawIsMontgomery
<1>2. /\ Fr_rawAdd(v, w) \in Field /\ Fr_rawSub(v, w) \in Field
      /\ Fr_rawMMul(v, w) \in Field /\ Fr_rawNeg(v) \in Field
  BY RawInField, MMulInField
<1>3. a.type = "LONGMONTGOMERY" /\ b.type = "LONGMONTGOMERY" /\ a.v = v /\ b.v = w
  BY DEF LongMontgomery
<1>4. IsLong(a) /\ IsLong(b) /\ InMontgomery(a, b) /\ IsMontgomery(a) /\ IsMontgomery(b)
      /\ Montgomery(a) = v /\ Montgomery(b) = w /\ Product(a, b) = Fr_rawMMul(v, w)
  BY <1>3 DEF IsLong, InMontgomery, IsMontgomery, Montgomery, Product
<1>5. Fr_neg(a) = LongMontgomery(Fr_rawNeg(v))
  BY <1>4 DEF Fr_neg, LongMontgomery
<1>6. /\ Fr_add(a, b) = LongMontgomery(Fr_rawAdd(v, w))
      /\ Fr_sub(a, b) = LongMontgomery(Fr_rawSub(v, w))
      /\ Fr_mul(a, b) = LongMontgomery(Fr_rawMMul(v, w))
  BY <1>4 DEF Fr_add, Fr_sub, Fr_mul
<1> HIDE DEF a, b
<1> QED
  BY <1>1, <1>2, <1>5, <1>6, RawIsMontgomery, AddValue, MulValue, SquareNegValue

\* What mpz_invert gives of a number that is not zero is its inverse.
LEMMA InvertIsInverse ==
    ASSUME NEW x \in Field, NEW y \in Invert(x)
    PROVE  y \in Field /\ (x # 0 => Same(x * y, 1) /\ (x * y) % q = 1)
<1>1. 1 % q = 1
  BY FrAssumption
<1>2. y \in Field
  BY DEF Invert
<1>3. ASSUME x # 0 PROVE (x * y) % q = 1
  <2>1. \E z \in Field : (x * z) % q = 1 % q
    BY <1>1, <1>3, InverseAssumption
  <2> QED
    BY <1>1, <2>1 DEF Invert
<1> QED
  BY <1>1, <1>2, <1>3 DEF Same

LEMMA InvValue ==
    ASSUME NEW a \in Element, NEW z \in Fr_inv(a)
    PROVE  z \in Element /\ Value(z) \in Numeric!Quotients(1, Value(a))
<1>1. PICK y \in Invert(Value(a)) : z = Fr_fromMpz(y)
  BY NormalValue DEF Fr_inv
<1>2. Value(a) \in Field /\ Value(a) \in Int
  BY ValueSame
<1>3. y \in Field /\ y \in Int /\ (Value(a) # 0 => (Value(a) * y) % q = 1)
  BY <1>2, InvertIsInverse, AreIntegers
<1>4. Value(z) = y /\ z \in Element
  BY <1>1, <1>3, ValueOfForms, FromMpzElement
<1>5. y * Value(a) = Value(a) * y
  BY <1>2, <1>3
<1> QED
  BY <1>3, <1>4, <1>5 DEF Numeric!Quotients, Numeric!Field, Field

\* A product with an inverse is a quotient.
LEMMA QuotientOfProduct ==
    ASSUME NEW x \in Field, NEW y \in Field, NEW i \in Field, y # 0 => (i * y) % q = 1
    PROVE  (x * i) % q \in IF y = 0 THEN Numeric!Field ELSE Numeric!Quotients(x, y)
<1> DEFINE z == (x * i) % q
<1>1. x \in Int /\ y \in Int /\ i \in Int /\ z \in Field /\ z \in Int /\ x * i \in Int
  BY AreIntegers, SameTransitive
<1>2. Same(z, x * i)
  BY <1>1, SameTransitive
<1>3. ASSUME y # 0 PROVE (z * y) % q = x
  <2>1. i * y \in Int /\ Same(i * y, 1) /\ (x * i) * y = x * (i * y) /\ x * 1 = x
    <3>1. 1 % q = 1
      BY FrAssumption
    <3> QED
      BY <1>1, <1>3, <3>1 DEF Same
  <2> DEFINE n == i * y
             m == x * i
  <2>2. n \in Int /\ m \in Int /\ Same(n, 1) /\ Same(z, m) /\ m * y = x * n
    BY <1>1, <1>2, <2>1
  <2> HIDE DEF n, m, z
  <2>3. Same(x * n, x * 1)
    <3>1. 1 \in Int
      OBVIOUS
    <3> QED
      BY <1>1, <2>2, <3>1, SameFactor, Zenon
  <2>4. Same(z * y, m * y)
    BY <1>1, <2>2, SameFactor
  <2>5. z * y \in Int /\ m * y \in Int /\ x * n \in Int
    BY <1>1, <2>2
  <2>6. Same(z * y, x)
    BY <1>1, <2>1, <2>2, <2>3, <2>4, <2>5, SameTransitive
  <2> QED
    BY <2>6, SameTransitive DEF Same
<1> HIDE DEF z
<1>4. z \in IF y = 0 THEN Numeric!Field ELSE Numeric!Quotients(x, y)
  BY <1>1, <1>3 DEF Numeric!Field, Numeric!Quotients, Field
<1> QED
  BY <1>4 DEF z

LEMMA DivValue ==
    ASSUME NEW a \in Element, NEW b \in Element, NEW z \in Fr_div(a, b)
    PROVE  Value(z) \in IF Value(b) = 0 THEN Numeric!Field
                        ELSE Numeric!Quotients(Value(a), Value(b))
<1>1. PICK tmp \in Fr_inv(b) : z = Fr_mul(a, tmp)
  BY DEF Fr_div
<1>2. tmp \in Element /\ Value(tmp) \in Numeric!Quotients(1, Value(b))
  BY InvValue
<1>3. Value(b) # 0 => (Value(tmp) * Value(b)) % q = 1
  BY <1>2 DEF Numeric!Quotients
<1>4. Value(z) = (Value(a) * Value(tmp)) % q
  BY <1>1, <1>2, MulValue
<1>5. Value(a) \in Field /\ Value(b) \in Field /\ Value(tmp) \in Field
  BY <1>2, ValueSame
<1> QED
  BY <1>3, <1>4, <1>5, QuotientOfProduct

LEMMA RawInvValue ==
    ASSUME NEW v \in Field, NEW z \in RawFr_inv(v)
    PROVE  z \in Field /\ Value(Raw(z)) \in Numeric!Quotients(1, Value(Raw(v)))
<1>1. PICK y \in Invert(v) : z = Fr_rawMMul(y, R3)
  BY DEF RawFr_inv
<1>2. y \in Field /\ (v # 0 => Same(v * y, 1))
  BY InvertIsInverse
<1>3. z \in Field /\ Same(z, (y * R) * R)
  BY <1>1, <1>2, TimesR3
<1> DEFINE x == Value(Raw(v))
           w == Value(Raw(z))
           n == y * R
<1>4. x \in Field /\ x \in Int /\ Same(v, x * R) /\ x = (v * RInverse) % q
  BY RawIsMontgomery, ValueOfForms
<1>5. w = (z * RInverse) % q /\ w \in Field /\ w \in Int
  BY <1>3, RawIsMontgomery, ValueOfForms
<1>6. y \in Int /\ v \in Int /\ n \in Int /\ z \in Int
  BY <1>2, <1>3, AreIntegers
<1>7. w = n % q
  <2> HIDE DEF w, x
  <2>1. Same(z, n * R)
    BY <1>3
  <2> HIDE DEF n
  <2>2. (z * RInverse) % q = n % q
    BY <1>3, <1>6, <2>1, FromMontgomerySame
  <2> QED
    BY <1>5, <2>2
<1>8. v = 0 => x = 0
  <2>1. v = 0 => v * RInverse = 0
    BY AreIntegers
  <2>2. 0 % q = 0
    BY FrAssumption
  <2> QED
    BY <1>4, <2>1, <2>2
<1>9. ASSUME x # 0 PROVE (w * x) % q = 1
  <2>1. Same(v * y, 1) /\ v * y \in Int
    BY <1>2, <1>6, <1>8, <1>9
  <2>2. Same(w, n)
    BY <1>6, <1>7, SameTransitive
  <2> HIDE DEF w, x
  <2>3. Same(w * x, n * x)
    BY <1>4, <1>5, <1>6, <2>2, SameFactor
  <2>4. n * x = (x * R) * y
    BY <1>4, <1>6, AreIntegers
  <2> DEFINE m == x * R
  <2>5. m \in Int /\ Same(v, m)
    BY <1>4, AreIntegers
  <2>6. n * x = m * y
    BY <2>4
  <2> HIDE DEF m, n
  <2>7. Same(v * y, m * y)
    BY <1>6, <2>5, SameFactor
  <2>8. w * x \in Int /\ m * y \in Int
    BY <1>4, <1>5, <1>6, <2>5
  <2>9. Same(w * x, 1)
    BY <2>1, <2>3, <2>6, <2>7, <2>8, SameTransitive
  <2>10. 1 % q = 1
    BY FrAssumption
  <2> QED
    BY <2>9, <2>10 DEF Same
<1> HIDE DEF x, w
<1>10. w \in Numeric!Quotients(1, x)
  BY <1>5, <1>9 DEF Numeric!Quotients, Numeric!Field, Field
<1> QED
  BY <1>3, <1>10 DEF x, w

LEMMA RawDivValue ==
    ASSUME NEW v \in Field, NEW u \in Field, NEW z \in RawFr_div(v, u)
    PROVE  Value(Raw(z)) \in IF Value(Raw(u)) = 0 THEN Numeric!Field
                             ELSE Numeric!Quotients(Value(Raw(v)), Value(Raw(u)))
<1>1. PICK tmp \in RawFr_inv(u) : z = Fr_rawMMul(v, tmp)
  BY DEF RawFr_div
<1>2. tmp \in Field /\ Value(Raw(tmp)) \in Numeric!Quotients(1, Value(Raw(u)))
  BY RawInvValue
<1>3. Value(Raw(u)) # 0 => (Value(Raw(tmp)) * Value(Raw(u))) % q = 1
  BY <1>2 DEF Numeric!Quotients
<1>4. Value(Raw(z)) = (Value(Raw(v)) * Value(Raw(tmp))) % q
  BY <1>1, <1>2, RawArithmetic
<1>5. Value(Raw(v)) \in Field /\ Value(Raw(u)) \in Field /\ Value(Raw(tmp)) \in Field
  BY <1>2, RawIsMontgomery
<1> QED
  BY <1>3, <1>4, <1>5, QuotientOfProduct

LEMMA IntegerValue ==
    ASSUME NEW a \in Element, NEW b \in Element
    PROVE  /\ \A z \in Fr_pow(a, b) : Value(z) = Numeric!Power(Value(a), Value(b))
           /\ Value(b) # 0 => /\ Value(Fr_idiv(a, b)) = Value(a) \div Value(b)
                             /\ Value(Fr_mod(a, b)) = Value(a) % Value(b)
<1> DEFINE m == Value(a)
           n == Value(b)
<1>1. Fr_toMpz(a) = m /\ Fr_toMpz(b) = n /\ m \in Field /\ n \in Field
  BY NormalValue, ValueSame
<1> HIDE DEF m, n
<1>2. ASSUME NEW y \in PowM(m, n) PROVE y \in Field /\ y = Numeric!Power(m, n)
  BY <1>2 DEF PowM, Numeric!Power
<1>3. \A z \in Fr_pow(a, b) : Value(z) = Numeric!Power(m, n)
  BY <1>1, <1>2, ValueOfForms DEF Fr_pow
<1>4. ASSUME n # 0
      PROVE  Value(Fr_idiv(a, b)) = m \div n /\ Value(Fr_mod(a, b)) = m % n
  <2>1. m \in Nat /\ m < q /\ n \in Nat /\ n > 0 /\ n < q /\ q \in Nat
    BY <1>1, <1>4, FrAssumption DEF Field
  <2>2. m \div n \in Nat /\ m \div n <= m
    <3>1. m \div n \in Nat /\ (m \div n) * n <= m
      BY <2>1
    <3> QED
      BY <2>1, <3>1
  <2>3. m % n \in Nat /\ m % n < n
    BY <2>1
  <2>4. m \div n \in Field /\ m % n \in Field
    BY <2>1, <2>2, <2>3 DEF Field
  <2> QED
    BY <1>1, <2>4, ValueOfForms DEF Fr_idiv, Fr_mod
<1> QED
  BY <1>3, <1>4 DEF m, n

LEMMA StringValue ==
    ASSUME NEW v \in Int
    PROVE  /\ Value(Fr_str2element(v)) = v % q
           /\ Value(Raw(RawFr_fromString(v))) = v % q
           /\ v \in Field => Value(Raw(RawFr_fromMpz(v))) = v % q
<1>1. ASSUME NEW w \in Field PROVE Value(Raw(RawFr_fromMpz(w))) = w
  <2> DEFINE m == RawFr_fromMpz(w)
  <2>1. m = Fr_rawMMul(w, R2)
    BY DEF RawFr_fromMpz, Fr_rawToMontgomery
  <2>2. m \in Field /\ Same(m, (w * R2) * RInverse) /\ w \in Int /\ m \in Int
    BY <2>1, PowersOfR, MMulSame, MMulInField, AreIntegers
  <2> HIDE DEF m
  <2>3. Same(m, w * R)
    BY <2>2, TimesR2
  <2>4. (m * RInverse) % q = w % q
    BY <2>2, <2>3, FromMontgomerySame
  <2>5. Value(Raw(m)) = w
    BY <2>2, <2>4, ValueOfForms, SameTransitive
  <2> QED
    BY <2>5 DEF m
<1>2. v % q \in Field /\ (v \in Field => v % q = v)
  BY SameTransitive
<1> QED
  BY <1>1, <1>2, ValueOfForms DEF Fr_str2element, RawFr_fromString

LEMMA ConstantValue ==
    Value(Raw(fNegOne)) = q - 1
<1>1. Value(Raw(fOne)) = 1 % q /\ 1 % q = 1 /\ fOne \in Field
  BY StringValue, ConstantsInField, FrAssumption DEF fOne
<1>2. Value(Raw(fNegOne)) = (-1) % q
  BY <1>1, RawArithmetic DEF fNegOne
<1>3. (-1) % q = q - 1
  BY FrAssumption
<1> QED
  BY <1>2, <1>3

\* A raw element and an element of the other class stand for the same number.
LEMMA BetweenClasses ==
    /\ \A a \in Element : Value(Raw(RawFr_fromMpz(Fr_toMpz(a)))) = Value(a)
    /\ \A v \in Field : Value(Fr_fromMpz(RawFr_toMpz(v))) = Value(Raw(v))
<1>1. ASSUME NEW a \in Element
      PROVE  Value(Raw(RawFr_fromMpz(Fr_toMpz(a)))) = Value(a)
  <2>1. Fr_toMpz(a) = Value(a) /\ Value(a) \in Field /\ Value(a) \in Int
    BY NormalValue, ValueSame
  <2> QED
    BY <2>1, StringValue, SameTransitive
<1>2. ASSUME NEW v \in Field
      PROVE  Value(Fr_fromMpz(RawFr_toMpz(v))) = Value(Raw(v))
  <2> DEFINE x == Value(Raw(v))
  <2>1. x \in Field /\ x \in Int /\ Same(v, x * R)
    BY RawIsMontgomery
  <2> HIDE DEF x
  <2>2. Fr_rawFromMontgomery(v) = x
    BY <2>1, FromMontgomerySame, SameTransitive
  <2> QED
    BY <2>1, <2>2, ValueOfForms DEF RawFr_toMpz, x
<1> QED
  BY <1>1, <1>2

-----------------------------------------------------------------------------
(* Every step is a step of PrimeField or a stutter.                        *)

Values == [r \in Var |-> Value(var[r])]

\* Elements of either class have a value in the field.
LEMMA ValueInField ==
    ASSUME NEW x \in CanonicalElement
    PROVE  /\ Value(x) \in Field
           /\ IsRaw(x) => x = Raw(x.v) /\ x.v \in Field
           /\ ~IsRaw(x) => x \in Element
<1>1. IsRaw(x) => x = Raw(x.v) /\ x.v \in Field
  BY DEF CanonicalElement, IsRaw, Raw
<1>2. ~IsRaw(x) => x \in Element
  BY ElementIsCanonical
<1> QED
  BY <1>1, <1>2, ValueSame, RawIsMontgomery

LEMMA InitImplements == Init => Numeric!Init
<1> SUFFICES ASSUME Init PROVE Numeric!Init
  OBVIOUS
<1>1. \A r \in Var : Value(var[r]) \in Field
  BY InitInv, ValueInField DEF IInv, Canonical
<1> QED
  BY <1>1 DEF Init, Numeric!Init, Numeric!Field, Field

\* A call that returns something PrimeField allows is a step of it.
LEMMA ReturnImplements ==
    ASSUME IInv, call # <<>>, NEW results, Return(results),
           Call.op \in {"idiv", "mod"} => Value(B) # 0,
           \A x \in results :
               Value(x) \in Numeric!Results(Call.op, Value(A), Value(B), Call.v)
    PROVE  Numeric!Finish
<1>1. PICK x \in results : var' = [var EXCEPT ![Call.r] = x]
  BY DEF Return
<1>2. Call.r \in Var /\ var \in [Var -> CanonicalElement]
  BY CallFacts DEF IInv, Canonical
<1>3. Call.a \in Var /\ Call.b \in Var
  BY CallsTyped DEF IInv, CallTyped, Call
<1>4. Values[Call.a] = Value(A) /\ Values[Call.b] = Value(B)
  BY <1>3 DEF Values, A, B
<1>5. Values' = [Values EXCEPT ![Call.r] = Value(x)]
  BY <1>1, <1>2 DEF Values
<1>6. call' = <<>> /\ UNCHANGED failed
  BY DEF Return
<1>7. ~(Call.op \in {"idiv", "mod"} /\ Values[Call.b] = 0)
  BY <1>4
<1>8. \E z \in Numeric!Results(Call.op, Values[Call.a], Values[Call.b], Call.v) :
         Values' = [Values EXCEPT ![Call.r] = z]
  BY <1>4, <1>5
<1> QED
  BY <1>6, <1>7, <1>8 DEF Numeric!Finish, Values, Call

LEMMA ConvertImplements ==
    ASSUME IInv, Convert
    PROVE  Numeric!Finish
<1>1. call # <<>>
  BY DEF Convert, Is
<1>2. CASE Is("str2element") /\ Return({Fr_str2element(Call.v)})
  <2>1. Value(Fr_str2element(Call.v)) = Call.v % q
    BY <1>1, <1>2, CallFacts, StringValue DEF Is
  <2> QED
    BY <1>1, <1>2, <2>1, ReturnImplements DEF Is, Numeric!Results
<1>3. CASE Is("fromString") /\ Return({Raw(RawFr_fromString(Call.v))})
  <2>1. Value(Raw(RawFr_fromString(Call.v))) = Call.v % q
    BY <1>1, <1>3, CallFacts, StringValue DEF Is
  <2> QED
    BY <1>1, <1>3, <2>1, ReturnImplements DEF Is, Numeric!Results
<1>4. CASE Is("fromUI") /\ Return({Raw(RawFr_fromUI(Call.v))})
  <2>1. Value(Raw(RawFr_fromUI(Call.v))) = Call.v % q
    BY <1>1, <1>4, CallFacts, StringValue, AreIntegers DEF Is, RawFr_fromUI
  <2> QED
    BY <1>1, <1>4, <2>1, ReturnImplements DEF Is, Numeric!Results
<1>5. CASE Is("negOne") /\ Return({Raw(fNegOne)})
  BY <1>1, <1>5, ConstantValue, ReturnImplements DEF Is, Numeric!Results
<1>6. CASE Is("copy") /\ Return({A})
  BY <1>1, <1>6, ReturnImplements DEF Is, Numeric!Results
<1>7. Call.op \in {"toNormal", "toLongNormal", "toMontgomery", "toRaw"} => A \in Element
  BY <1>1, CallFacts, ValueInField
<1>8. CASE Is("toNormal") /\ Return({Fr_toNormal(A)})
  BY <1>1, <1>7, <1>8, NormalValue, ReturnImplements DEF Is, Numeric!Results
<1>9. CASE Is("toLongNormal") /\ Return({Fr_toLongNormal(A)})
  BY <1>1, <1>7, <1>9, NormalValue, ReturnImplements DEF Is, Numeric!Results
<1>10. CASE Is("toMontgomery") /\ Return({Fr_toMontgomery(A)})
  BY <1>1, <1>7, <1>10, NormalValue, ReturnImplements DEF Is, Numeric!Results
<1>11. CASE Is("toRaw") /\ Return({Raw(RawFr_fromMpz(Fr_toMpz(A)))})
  BY <1>1, <1>7, <1>11, BetweenClasses, ReturnImplements DEF Is, Numeric!Results
<1>12. CASE Is("fromRaw") /\ Return({Fr_fromMpz(RawFr_toMpz(A.v))})
  <2>1. A = Raw(A.v) /\ A.v \in Field
    BY <1>1, <1>12, CallFacts, ValueInField DEF Is
  <2>2. Value(Fr_fromMpz(RawFr_toMpz(A.v))) = Value(A)
    BY <2>1, BetweenClasses
  <2> QED
    BY <1>1, <1>12, <2>2, ReturnImplements DEF Is, Numeric!Results
<1> QED
  BY <1>2, <1>3, <1>4, <1>5, <1>6, <1>8, <1>9, <1>10, <1>11, <1>12 DEF Convert

LEMMA ComputeImplements ==
    ASSUME IInv, Compute
    PROVE  Numeric!Finish
<1>1. call # <<>> /\ A \in Element
  BY CallFacts, ValueInField DEF Compute
<1>2. Call.op \in Binary \cup {"idiv", "mod", "pow"} => B \in Element
  BY <1>1, CallFacts, ValueInField DEF Compute
<1>3. CASE Is("add") /\ Return({Fr_add(A, B)})
  BY <1>1, <1>2, <1>3, AddValue, ReturnImplements DEF Is, Binary, Numeric!Results
<1>4. CASE Is("sub") /\ Return({Fr_sub(A, B)})
  BY <1>1, <1>2, <1>4, AddValue, ReturnImplements DEF Is, Binary, Numeric!Results
<1>5. CASE Is("mul") /\ Return({Fr_mul(A, B)})
  BY <1>1, <1>2, <1>5, MulValue, ReturnImplements DEF Is, Binary, Numeric!Results
<1>6. CASE Is("neg") /\ Return({Fr_neg(A)})
  BY <1>1, <1>6, SquareNegValue, ReturnImplements DEF Is, Numeric!Results
<1>7. CASE Is("square") /\ Return({Fr_square(A)})
  BY <1>1, <1>7, SquareNegValue, ReturnImplements DEF Is, Numeric!Results
<1>8. CASE Is("pow") /\ Return(Fr_pow(A, B))
  BY <1>1, <1>2, <1>8, IntegerValue, ReturnImplements DEF Is, Numeric!Results
<1>9. CASE Is("inv") /\ Return(Fr_inv(A))
  BY <1>1, <1>9, InvValue, ReturnImplements DEF Is, Numeric!Results
<1>10. CASE Is("div") /\ Return(Fr_div(A, B))
  BY <1>1, <1>2, <1>10, DivValue, ReturnImplements DEF Is, Binary, Numeric!Results
<1>11. CASE Is("idiv") /\ Fr_toMpz(B) # 0 /\ Return({Fr_idiv(A, B)})
  BY <1>1, <1>2, <1>11, IntegerValue, NormalValue, ReturnImplements DEF Is, Numeric!Results
<1>12. CASE Is("mod") /\ Fr_toMpz(B) # 0 /\ Return({Fr_mod(A, B)})
  BY <1>1, <1>2, <1>12, IntegerValue, NormalValue, ReturnImplements DEF Is, Numeric!Results
<1> QED
  BY <1>3, <1>4, <1>5, <1>6, <1>7, <1>8, <1>9, <1>10, <1>11, <1>12 DEF Compute

LEMMA ComputeRawImplements ==
    ASSUME IInv, ComputeRaw
    PROVE  Numeric!Finish
<1>1. call # <<>> /\ A.v \in Field /\ A = Raw(A.v)
  BY CallFacts, ValueInField DEF ComputeRaw
<1>2. Call.op \in Binary => B.v \in Field /\ B = Raw(B.v)
  BY <1>1, CallFacts, ValueInField DEF ComputeRaw
<1>3. CASE Is("add") /\ Return({Raw(Fr_rawAdd(A.v, B.v))})
  BY <1>1, <1>2, <1>3, RawArithmetic, ReturnImplements DEF Is, Binary, Numeric!Results
<1>4. CASE Is("sub") /\ Return({Raw(Fr_rawSub(A.v, B.v))})
  BY <1>1, <1>2, <1>4, RawArithmetic, ReturnImplements DEF Is, Binary, Numeric!Results
<1>5. CASE Is("mul") /\ Return({Raw(Fr_rawMMul(A.v, B.v))})
  BY <1>1, <1>2, <1>5, RawArithmetic, ReturnImplements DEF Is, Binary, Numeric!Results
<1>6. CASE Is("neg") /\ Return({Raw(Fr_rawNeg(A.v))})
  BY <1>1, <1>6, RawArithmetic, ReturnImplements DEF Is, Numeric!Results
<1>7. CASE Is("square") /\ Return({Raw(Fr_rawMMul(A.v, A.v))})
  BY <1>1, <1>7, RawArithmetic, ReturnImplements DEF Is, Numeric!Results
<1>8. CASE Is("inv") /\ Return({Raw(y) : y \in RawFr_inv(A.v)})
  BY <1>1, <1>8, RawInvValue, ReturnImplements DEF Is, Numeric!Results
<1>9. CASE Is("div") /\ Return({Raw(y) : y \in RawFr_div(A.v, B.v)})
  BY <1>1, <1>2, <1>9, RawDivValue, ReturnImplements DEF Is, Binary, Numeric!Results
<1> QED
  BY <1>3, <1>4, <1>5, <1>6, <1>7, <1>8, <1>9 DEF ComputeRaw

-----------------------------------------------------------------------------
(* Powers.                                                                 *)

\* The power of PrimeField, as an operator of this module.
Pow(x, n) == Numeric!Power(x, n)

\* The recursion of Power.
LEMMA PowerSteps ==
    ASSUME NEW x \in Int
    PROVE  /\ Pow(x, 0) = 1
           /\ \A n \in Nat : Pow(x, n) \in Field /\ Pow(x, n + 1) = (x * Pow(x, n)) % q
<1> DEFINE step == [w \in Field \X Nat |-> (x * w[1]) % q]
           p == CHOOSE f : f = [k \in Nat |-> IF k = 0 THEN 1 % q ELSE (x * f[k - 1]) % q]
<1>1. 1 % q = 1 /\ 1 \in Field /\ q \in Nat \ {0}
  BY FrAssumption DEF Field
<1>2. \A z \in Field : (x * z) % q \in Field
  <2>1. \A z \in Field : x * z \in Int
    BY AreIntegers
  <2> QED
    BY <2>1, SameTransitive
<1>3. step \in [Field \X Nat -> Field]
  BY <1>2
<1>4. \A z \in Field, k \in Nat : step[<<z, k>>] = (x * z) % q
  OBVIOUS
<1> HIDE DEF step
<1>5. PICK f \in [Nat -> Field] : StepsFrom(f, 1, step)
  BY <1>1, <1>3, Recursion
<1>6. ASSUME NEW k \in Nat PROVE f[k] = IF k = 0 THEN 1 % q ELSE (x * f[k - 1]) % q
  <2>1. CASE k = 0
    BY <1>1, <1>5, <2>1 DEF StepsFrom
  <2>2. CASE k # 0
    <3>1. k - 1 \in Nat /\ (k - 1) + 1 = k
      BY <2>2
    <3>2. f[k] = step[<<f[k - 1], k>>]
      BY <1>5, <3>1 DEF StepsFrom
    <3> QED
      BY <1>4, <2>2, <3>1, <3>2
  <2> QED
    BY <2>1, <2>2
<1>7. f = [k \in Nat |-> IF k = 0 THEN 1 % q ELSE (x * f[k - 1]) % q]
  BY <1>6
<1>8. p = [k \in Nat |-> IF k = 0 THEN 1 % q ELSE (x * p[k - 1]) % q]
  BY <1>7
<1>9. \A n : Pow(x, n) = p[n]
  BY DEF Pow, Numeric!Power
<1> HIDE DEF p
<1>10. p[0] = 1 /\ \A n \in Nat : p[n + 1] = (x * p[n]) % q
  <2>1. p[0] = 1
    BY <1>1, <1>8
  <2>2. ASSUME NEW n \in Nat PROVE p[n + 1] = (x * p[n]) % q
    <3>1. n + 1 \in Nat /\ n + 1 # 0 /\ (n + 1) - 1 = n
      OBVIOUS
    <3> QED
      BY <1>8, <3>1
  <2> QED
    BY <2>1, <2>2
<1>11. \A n \in Nat : p[n] \in Field
  <2> DEFINE S == {n \in Nat : p[n] \in Field}
  <2>1. 0 \in S
    BY <1>1, <1>10
  <2>2. \A n \in Nat : n \in S => n + 1 \in S
    BY <1>2, <1>10
  <2> HIDE DEF S
  <2>3. Nat \subseteq S
    BY <2>1, <2>2, SetInduction
  <2> QED
    BY <2>3 DEF S
<1> QED
  BY <1>9, <1>10, <1>11

\* The product of two powers is the power of the sum.
LEMMA PowerSum ==
    ASSUME NEW x \in Int, NEW m \in Nat, NEW n \in Nat
    PROVE  Pow(x, m + n) = (Pow(x, m) * Pow(x, n)) % q
<1> DEFINE a == Pow(x, n)
           S == {k \in Nat : Pow(x, k + n) = (Pow(x, k) * a) % q}
<1>1. a \in Field /\ a \in Int
  BY PowerSteps, AreIntegers
<1> HIDE DEF a
<1>2. 0 \in S
  <2>1. Pow(x, 0) = 1 /\ 0 + n = n /\ Pow(x, n) = a
    BY PowerSteps DEF a
  <2>2. (1 * a) % q = a
    BY <1>1, SameTransitive
  <2> QED
    BY <2>1, <2>2
<1>3. ASSUME NEW k \in Nat, k \in S PROVE k + 1 \in S
  <2> DEFINE b == Pow(x, k)
             c == Pow(x, k + n)
  <2>1. b \in Field /\ c \in Field /\ Pow(x, k + 1) = (x * b) % q
        /\ Pow(x, (k + n) + 1) = (x * c) % q /\ (k + n) + 1 = (k + 1) + n
    BY PowerSteps
  <2>2. b \in Int /\ c \in Int
    BY <2>1, AreIntegers
  <2>3. c = (b * a) % q
    BY <1>3
  <2> HIDE DEF b, c
  <2>4. b * a \in Int /\ x * c \in Int /\ x * b \in Int /\ (x * b) * a \in Int
        /\ x * (b * a) = (x * b) * a
    BY <1>1, <2>2
  <2>5. Same(c, b * a)
    BY <2>3, <2>4, SameTransitive
  <2>6. Same(x * c, x * (b * a))
    BY <2>2, <2>4, <2>5, SameFactor
  <2>7. (x * b) % q \in Int /\ Same((x * b) % q, x * b)
    BY <2>4, SameTransitive, AreIntegers
  <2>8. Same(((x * b) % q) * a, (x * b) * a)
    BY <1>1, <2>4, <2>7, SameFactor
  <2>9. ((x * b) % q) * a \in Int
    BY <1>1, <2>7
  <2>10. (x * c) % q = (((x * b) % q) * a) % q
    BY <2>4, <2>6, <2>8 DEF Same
  <2>11. Pow(x, (k + 1) + n) = (Pow(x, k + 1) * a) % q
    BY <2>1, <2>10
  <2> QED
    BY <2>11
<1> HIDE DEF S
<1>4. Nat \subseteq S
  BY <1>2, <1>3, SetInduction
<1> QED
  BY <1>4 DEF S, a

-----------------------------------------------------------------------------
(* The loop of exp.                                                        *)

\* The bits of the scalar that the loop has been through.
Seen == Call.v \div 2^loop.i

\* ExpLoop: the result of the loop is the power by the bits seen so far; before the
\* first that is set there is none.
ExpLoop ==
    IF Is("exp") THEN /\ Value(Raw(loop.r)) = Pow(Value(A), Seen)
                      /\ ~loop.found => Seen = 0 /\ loop.r = fOne
    ELSE loop = NoLoop

LEMMA ExpScalar ==
    ASSUME NEW c \in Calls, c.op = "exp"
    PROVE  c.v \in Nat /\ c.v < 2^ScalarBits
<1>1. c.op \notin {"str2element", "fromString", "fromUI", "negOne"}
      /\ c.op \notin FrBinary /\ c.op \notin FrUnary /\ c.op \notin RawUnary
  BY DEF FrBinary, FrUnary, RawUnary, Unary, Binary
<1>2. c.v \in Exponents
  BY <1>1 DEF Calls, Apply
<1> QED
  BY <1>2, NumbersAssumption

LEMMA ExpCall ==
    ASSUME IInv, Is("exp")
    PROVE  /\ Call.v \in Nat /\ Call.v < 2^ScalarBits
           /\ A = Raw(A.v) /\ A.v \in Field /\ loop.r \in Field
           /\ loop.i \in 0 .. ScalarBits /\ loop.found \in BOOLEAN
<1>1. PICK c \in Calls : call = <<c>>
  BY DEF Is, IInv, CallTyped
<1>2. c = Call /\ c.op = "exp"
  BY <1>1 DEF Is, Call
<1>3. c.v \in Nat /\ c.v < 2^ScalarBits
  BY <1>2, ExpScalar
<1>4. A \in CanonicalElement /\ IsRaw(A)
  BY <1>1, <1>2, CallFacts DEF Is
<1> QED
  BY <1>2, <1>3, <1>4, ValueInField, NumbersAssumption DEF IInv, LoopTyped

LEMMA FirstPower ==
    \A x \in Field : Pow(x, 0) = 1 /\ Pow(x, 1) = x
<1>1. ASSUME NEW x \in Field PROVE Pow(x, 0) = 1 /\ Pow(x, 1) = x
  <2>1. x \in Int /\ x % q = x
    BY AreIntegers, SameTransitive
  <2>2. Pow(x, 0) = 1 /\ Pow(x, 0 + 1) = (x * Pow(x, 0)) % q
    BY <2>1, PowerSteps
  <2>3. x * 1 = x /\ 0 + 1 = 1
    BY <2>1
  <2> QED
    BY <2>1, <2>2, <2>3
<1> QED
  BY <1>1

LEMMA OneValue == Value(Raw(fOne)) = 1
  BY StringValue, FrAssumption DEF fOne

\* One round adds a bit to those that were seen.
LEMMA RoundSees ==
    ASSUME IInv, Is("exp"), loop.i > 0
    PROVE  LET next == Call.v \div 2^(loop.i - 1)
           IN  /\ Seen \in Nat /\ next \in Nat
               /\ BIT_IS_SET(Call.v, loop.i - 1) => next = 2 * Seen + 1
               /\ ~BIT_IS_SET(Call.v, loop.i - 1) => next = 2 * Seen
<1> DEFINE k == loop.i - 1
           n == 2^k
           v == Call.v
<1>1. k \in Nat /\ loop.i = k + 1 /\ v \in Nat
  BY ExpCall
<1>2. n \in Nat \ {0} /\ 2^(k + 1) = 2 * n
  <2> HIDE DEF k
  <2> QED
    BY <1>1, PowersOfTwo
<1>3. Seen = v \div (2 * n)
  BY <1>1, <1>2 DEF Seen
<1>4. BIT_IS_SET(v, k) <=> (v \div n) % 2 = 1
  BY DEF BIT_IS_SET
<1> HIDE DEF n, v, k
<1>5. /\ v \div (2 * n) \in Nat /\ v \div n \in Nat /\ (v \div n) % 2 \in {0, 1}
      /\ v \div n = 2 * (v \div (2 * n)) + ((v \div n) % 2)
  BY <1>1, <1>2, Halves
<1>6. /\ Seen \in Nat /\ v \div n \in Nat
      /\ BIT_IS_SET(v, k) => v \div n = 2 * Seen + 1
      /\ ~BIT_IS_SET(v, k) => v \div n = 2 * Seen
  BY <1>3, <1>4, <1>5
<1> QED
  BY <1>6 DEF n, v, k

\* One round: the square, and the product if the bit is set.
LEMMA RoundPower ==
    ASSUME IInv, ExpLoop, Is("exp"), loop.i > 0
    PROVE  LET next == Call.v \div 2^(loop.i - 1)
               after == RawFr_expBit(loop, A.v, Call.v, loop.i - 1)
           IN  /\ Value(Raw(after.r)) = Pow(Value(A), next)
               /\ ~after.found => next = 0 /\ after.r = fOne
<1> DEFINE next == Call.v \div 2^(loop.i - 1)
           after == RawFr_expBit(loop, A.v, Call.v, loop.i - 1)
           isSet == BIT_IS_SET(Call.v, loop.i - 1)
           x == Value(A)
           square == Fr_rawMMul(loop.r, loop.r)
<1>1. /\ A = Raw(A.v) /\ A.v \in Field /\ loop.r \in Field
      /\ x \in Field /\ x \in Int /\ x = Value(Raw(A.v))
  BY ExpCall, RawIsMontgomery
<1>2. Seen \in Nat /\ next \in Nat /\ (isSet => next = 2 * Seen + 1) /\ (~isSet => next = 2 * Seen)
  BY RoundSees
<1>3. after = IF ~loop.found THEN IF isSet THEN [loop EXCEPT !.found = TRUE, !.r = A.v] ELSE loop
              ELSE [loop EXCEPT !.r = IF isSet THEN Fr_rawMMul(square, A.v) ELSE square]
  BY DEF RawFr_expBit
<1>4. Value(Raw(loop.r)) = Pow(x, Seen) /\ (~loop.found => Seen = 0 /\ loop.r = fOne)
  BY DEF ExpLoop
<1>5. loop \in [i : 0 .. ScalarBits, found : BOOLEAN, r : Field]
  BY DEF IInv, LoopTyped
<1> HIDE DEF next, after, isSet, x
<1>6. CASE ~loop.found /\ ~isSet
  <2>1. after = loop /\ next = 0 /\ Seen = 0
    BY <1>2, <1>3, <1>4, <1>6
  <2> QED
    BY <1>4, <1>6, <2>1 DEF next, after, x
<1>7. CASE ~loop.found /\ isSet
  <2>1. after.r = A.v /\ after.found = TRUE /\ next = 1
    BY <1>2, <1>3, <1>4, <1>5, <1>7
  <2> QED
    BY <1>1, <2>1, FirstPower DEF next, after, x
<1>8. CASE loop.found
  <2>1. square \in Field /\ Value(Raw(square)) = (Pow(x, Seen) * Pow(x, Seen)) % q
    <3>1. square \in Field
      BY <1>1, MMulInField
    <3>2. Value(Raw(square)) = (Value(Raw(loop.r)) * Value(Raw(loop.r))) % q
      BY <1>1, RawArithmetic, Zenon
    <3>3. Value(Raw(loop.r)) = Pow(x, Seen)
      <4> HIDE DEF square
      <4> QED
        BY <1>4, <1>8
    <3> QED
      BY <3>1, <3>2, <3>3, Zenon
  <2>2. Value(Raw(square)) = Pow(x, 2 * Seen)
    <3>1. Seen + Seen = 2 * Seen
      BY <1>2
    <3> HIDE DEF square
    <3> QED
      BY <1>1, <1>2, <2>1, <3>1, PowerSum
  <2>3. after.found
    BY <1>3, <1>5, <1>8
  <2>4. CASE ~isSet
    <3>1. after.r = square /\ next = 2 * Seen
      BY <1>2, <1>3, <1>5, <1>8, <2>4
    <3> QED
      BY <2>2, <2>3, <3>1 DEF next, after, x
  <2>5. CASE isSet
    <3>1. after.r = Fr_rawMMul(square, A.v) /\ next = 2 * Seen + 1
      BY <1>2, <1>3, <1>5, <1>8, <2>5
    <3> DEFINE m == 2 * Seen
    <3>2. m \in Nat /\ next = m + 1
      BY <1>2, <3>1
    <3>3. Value(Raw(square)) = Pow(x, m)
      BY <2>2
    <3> HIDE DEF m, square
    <3>4. Value(Raw(after.r)) = (Pow(x, m) * x) % q
      BY <1>1, <2>1, <3>1, <3>3, RawArithmetic
    <3>5. Pow(x, m + 1) = (Pow(x, m) * x) % q
      BY <1>1, <3>2, PowerSum, FirstPower
    <3> QED
      BY <2>3, <3>2, <3>4, <3>5 DEF next, after, x
  <2> QED
    BY <2>4, <2>5
<1> QED
  BY <1>6, <1>7, <1>8

\* Calls that return leave the loop as it was before the first round.
LEMMA OthersReturn ==
    ASSUME Convert \/ Compute \/ ComputeRaw \/ DivideByZero, ExpLoop
    PROVE  call' = <<>> /\ loop' = NoLoop
<1>1. CASE Convert
  BY <1>1 DEF Convert, Return
<1>2. CASE Compute
  BY <1>2 DEF Compute, Return
<1>3. CASE ComputeRaw
  BY <1>3 DEF ComputeRaw, Return
<1>4. CASE DivideByZero
  BY <1>4 DEF DivideByZero, ExpLoop, Is
<1> QED
  BY <1>1, <1>2, <1>3, <1>4

LEMMA ExpLoopStep ==
    ASSUME IInv, ExpLoop, [Next]_vars
    PROVE  ExpLoop'
<1>1. CASE Start
  <2>1. PICK c \in Calls : WellTyped(c) /\ call' = <<c>>
    BY <1>1 DEF Start
  <2>2. loop = NoLoop /\ UNCHANGED <<var, loop>>
    BY <1>1 DEF Start, ExpLoop, Is
  <2>3. CASE c.op = "exp"
    <3>1. c.v \in Nat /\ c.v < 2^ScalarBits /\ ScalarBits \in Nat
      BY <2>3, ExpScalar, NumbersAssumption
    <3>2. var[c.a] \in CanonicalElement
      BY CallsTyped DEF IInv, Canonical
    <3>3. Value(var[c.a]) \in Field
      BY <3>2, ValueInField
    <3>4. c.v \div 2^ScalarBits = 0
      <4> DEFINE n == 2^ScalarBits
      <4>1. n \in Nat \ {0}
        BY <3>1, PowersOfTwo
      <4>2. c.v \in 0 .. n - 1 /\ c.v \in Int
        BY <3>1, <4>1
      <4> HIDE DEF n
      <4>3. c.v = n * 0 + c.v
        BY <4>1, <4>2
      <4>4. c.v \div n = 0
        BY <4>1, <4>2, <4>3, QuotientIs
      <4> QED
        BY <4>4 DEF n
    <3>5. Call' = c /\ A' = var[c.a] /\ loop'.i = ScalarBits /\ loop'.r = fOne /\ loop' = NoLoop
      BY <2>1, <2>2 DEF Call, A, NoLoop
    <3>6. Seen' = 0
      BY <3>4, <3>5 DEF Seen
    <3>7. Value(Raw(loop'.r)) = Pow(Value(A'), 0)
      BY <3>3, <3>5, FirstPower, OneValue
    <3> QED
      BY <3>5, <3>6, <3>7, <2>1, <2>3 DEF ExpLoop, Is
  <2>4. CASE c.op # "exp"
    BY <2>1, <2>2, <2>4 DEF ExpLoop, Is, Call
  <2> QED
    BY <2>3, <2>4
<1>2. CASE Convert \/ Compute \/ ComputeRaw \/ DivideByZero
  BY <1>2, OthersReturn DEF ExpLoop, Is
<1>3. CASE RawFr_exp
  <2>1. CASE /\ Is("exp") /\ loop.i > 0
             /\ loop' = [RawFr_expBit(loop, A.v, Call.v, loop.i - 1) EXCEPT !.i = loop.i - 1]
             /\ UNCHANGED <<var, call, failed>>
    <3> DEFINE after == RawFr_expBit(loop, A.v, Call.v, loop.i - 1)
    <3>1. /\ Value(Raw(after.r)) = Pow(Value(A), Call.v \div 2^(loop.i - 1))
          /\ ~after.found => Call.v \div 2^(loop.i - 1) = 0 /\ after.r = fOne
      BY <2>1, RoundPower
    <3>2. loop \in [i : 0 .. ScalarBits, found : BOOLEAN, r : Field]
      BY DEF IInv, LoopTyped
    <3>3. DOMAIN after = {"i", "found", "r"}
      BY <3>2 DEF RawFr_expBit
    <3>4. loop' = [after EXCEPT !.i = loop.i - 1]
      BY <2>1
    <3> HIDE DEF after
    <3>5. loop'.r = after.r /\ loop'.found = after.found /\ loop'.i = loop.i - 1
      BY <3>3, <3>4
    <3>6. Call' = Call /\ A' = A /\ Is("exp")'
      BY <2>1 DEF Call, A, Is
    <3>7. Seen' = Call.v \div 2^(loop.i - 1)
      BY <3>5, <3>6 DEF Seen
    <3> QED
      BY <3>1, <3>5, <3>6, <3>7 DEF ExpLoop
  <2>2. CASE Is("exp") /\ loop.i = 0 /\ Return({Raw(loop.r)})
    BY <2>2 DEF Return, ExpLoop, Is
  <2> QED
    BY <1>3, <2>1, <2>2 DEF RawFr_exp
<1>4. CASE UNCHANGED vars
  BY <1>4 DEF vars, ExpLoop, Is, Call, A, Seen
<1> QED
  BY <1>1, <1>2, <1>3, <1>4 DEF Next

\* What exp returns is the power.
LEMMA ExpImplements ==
    ASSUME IInv, ExpLoop, Is("exp"), loop.i = 0, Return({Raw(loop.r)})
    PROVE  Numeric!Finish
<1>1. call # <<>> /\ Call.op = "exp" /\ Call.v \in Nat
  BY ExpCall DEF Is
<1>2. Seen = Call.v
  BY <1>1, PowersOfTwo DEF Seen
<1>3. Value(Raw(loop.r)) = Numeric!Power(Value(A), Call.v)
  BY <1>2 DEF ExpLoop, Pow
<1> QED
  BY <1>1, <1>3, ReturnImplements DEF Numeric!Results

-----------------------------------------------------------------------------
(* The refinement.                                                         *)

LEMMA NextImplements ==
    ASSUME IInv, ExpLoop, [Next]_vars
    PROVE  Numeric!Next \/ UNCHANGED <<Values, call, failed>>
<1>1. CASE Start
  <2>1. UNCHANGED Values
    BY <1>1 DEF Start, Values
  <2> QED
    BY <1>1, <2>1 DEF Start, Numeric!Next, Numeric!Start, Values
<1>2. CASE Convert
  BY <1>2, ConvertImplements DEF Numeric!Next
<1>3. CASE Compute
  BY <1>3, ComputeImplements DEF Numeric!Next
<1>4. CASE DivideByZero
  <2>1. call # <<>> /\ Call.op \in {"idiv", "mod"}
    BY <1>4 DEF DivideByZero
  <2>2. B \in Element /\ Fr_toMpz(B) = 0 /\ Call.b \in Var
    BY <1>4, <2>1, CallFacts, CallsTyped, ValueInField DEF DivideByZero, IInv, CallTyped, Call
  <2>3. Values[Call.b] = 0
    BY <2>2, NormalValue DEF Values, B
  <2>4. UNCHANGED Values
    BY <1>4 DEF DivideByZero, Values
  <2>5. Numeric!Finish
    BY <1>4, <2>1, <2>3, <2>4 DEF DivideByZero, Numeric!Finish, Values, Call
  <2> QED
    BY <2>5 DEF Numeric!Next
<1>5. CASE RawFr_exp
  <2>1. CASE Is("exp") /\ loop.i = 0 /\ Return({Raw(loop.r)})
    BY <2>1, ExpImplements DEF Numeric!Next
  <2>2. CASE UNCHANGED <<var, call, failed>>
    BY <2>2 DEF Values
  <2> QED
    BY <1>5, <2>1, <2>2 DEF RawFr_exp
<1>6. CASE ComputeRaw
  BY <1>6, ComputeRawImplements DEF Numeric!Next
<1>7. CASE UNCHANGED vars
  BY <1>7 DEF vars, Values
<1> QED
  BY <1>1, <1>2, <1>3, <1>4, <1>5, <1>6, <1>7 DEF Next

\* FieldImplemented: whatever is called in whatever representation, the program
\* computes with the numbers its variables stand for as PrimeField says: every result,
\* of a call that returns at once or after the rounds of exp, is one PrimeField allows.
THEOREM FieldImplemented == Spec => ImplementsField
<1>1. IInv /\ ExpLoop /\ [Next]_vars
      => Numeric!Next \/ UNCHANGED <<[r \in Var |-> Value(var[r])], call, failed>>
  BY NextImplements DEF Values
<1>2. Init => IInv /\ ExpLoop
  BY InitInv DEF Init, ExpLoop, Is
<1>3. IInv /\ ExpLoop /\ [Next]_vars => IInv' /\ ExpLoop'
  BY NextInv, ExpLoopStep
<1> QED
  BY InitImplements, <1>1, <1>2, <1>3, PTL DEF Spec, ImplementsField, Numeric!Spec
=============================================================================
