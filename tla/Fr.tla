---------------------------------- MODULE Fr ----------------------------------
(***************************************************************************)
(* A program that computes with the field library: variables that hold     *)
(* field elements of either type, FrElement or RawFr::Element, and calls   *)
(* of any operation on any of them.  As in the circuits, a result goes to  *)
(* a temporary (expaux) and is then copied (Fr_copy) to its variable.      *)
(***************************************************************************)
EXTENDS FrElement

CONSTANTS
    Var,       \* The variables of the program.
    Numbers,   \* Integers that are converted to elements.
    Exponents, \* Scalars of RawFr::exp.
    ScalarBits \* scalarSize * 8.

VARIABLES
    var,    \* What the variables hold.
    call,   \* The call under way: none or one.
    loop,   \* The loop of RawFr::exp: rounds left, whether a bit was found, the result.
    failed  \* A division by zero has ended the program.

vars == <<var, call, loop, failed>>

ASSUME NumbersAssumption ==
    /\ Numbers \subseteq Int
    /\ Exponents \subseteq Nat /\ ScalarBits \in Nat
    /\ \A n \in Exponents : n < 2^ScalarBits

Raw(v) == [type |-> "RAW", v |-> v]
IsRaw(x) == x.type = "RAW"

Unary == {"copy", "neg", "square", "inv"}
Binary == {"add", "sub", "mul", "div"}
FrUnary == Unary \cup {"toNormal", "toLongNormal", "toMontgomery", "toRaw"}
FrBinary == Binary \cup {"idiv", "mod", "pow"}
RawUnary == Unary \cup {"fromRaw"}

Apply(op, r, a, b, v) == [op |-> op, r |-> r, a |-> a, b |-> b, v |-> v]

\* fromUI takes what is not negative; it is given no more than q - 1.
Unsigned == Numbers \cap Field

\* All calls: an operation, the variable of the result, the operands, a number.
Calls ==
    {Apply(op, r, a, b, 0) : op \in FrBinary, r \in Var, a \in Var, b \in Var}
    \cup {Apply(op, r, a, a, 0) : op \in FrUnary \cup RawUnary, r \in Var, a \in Var}
    \cup {Apply(op, r, r, r, v) : op \in {"str2element", "fromString"}, r \in Var, v \in Numbers}
    \cup {Apply("fromUI", r, r, r, v) : r \in Var, v \in Unsigned}
    \cup {Apply("exp", r, a, a, v) : r \in Var, a \in Var, v \in Exponents}
    \cup {Apply("negOne", r, r, r, 0) : r \in Var}

\* The operations are typed: both operands are of one type, the one it is for.
WellTyped(c) ==
    LET raw == {IsRaw(var[c.a]), IsRaw(var[c.b])}
    IN  \/ c.op \in {"str2element", "fromString", "fromUI", "negOne"}
        \/ c.op \in FrUnary \cup FrBinary /\ raw = {FALSE}
        \/ c.op \in RawUnary \cup Binary \cup {"exp"} /\ raw = {TRUE}

Start ==
    /\ call = <<>> /\ ~failed
    /\ \E c \in Calls : WellTyped(c) /\ call' = <<c>>
    /\ UNCHANGED <<var, loop, failed>>

-----------------------------------------------------------------------------
\* Before the first bit that is set; the result if there is none.
NoLoop == [i |-> ScalarBits, found |-> FALSE, r |-> fOne]

Call == call[1]
A == var[Call.a]
B == var[Call.b]

\* The call returns one of the results, which goes to the variable.
Return(results) ==
    /\ \E x \in results : var' = [var EXCEPT ![Call.r] = x]
    /\ call' = <<>> /\ loop' = NoLoop
    /\ UNCHANGED failed

Is(op) == call # <<>> /\ Call.op = op

Convert ==
    \/ Is("str2element") /\ Return({Fr_str2element(Call.v)})
    \/ Is("fromString") /\ Return({Raw(RawFr_fromString(Call.v))})
    \/ Is("fromUI") /\ Return({Raw(RawFr_fromUI(Call.v))})
    \/ Is("negOne") /\ Return({Raw(fNegOne)})
    \/ Is("copy") /\ Return({A})
    \/ Is("toNormal") /\ Return({Fr_toNormal(A)})
    \/ Is("toLongNormal") /\ Return({Fr_toLongNormal(A)})
    \/ Is("toMontgomery") /\ Return({Fr_toMontgomery(A)})
    \/ Is("toRaw") /\ Return({Raw(RawFr_fromMpz(Fr_toMpz(A)))})
    \/ Is("fromRaw") /\ Return({Fr_fromMpz(RawFr_toMpz(A.v))})

Compute ==
    /\ call # <<>> /\ ~IsRaw(A)
    /\ \/ Is("add") /\ Return({Fr_add(A, B)})
       \/ Is("sub") /\ Return({Fr_sub(A, B)})
       \/ Is("mul") /\ Return({Fr_mul(A, B)})
       \/ Is("neg") /\ Return({Fr_neg(A)})
       \/ Is("square") /\ Return({Fr_square(A)})
       \/ Is("pow") /\ Return(Fr_pow(A, B))
       \/ Is("inv") /\ Return(Fr_inv(A))
       \/ Is("div") /\ Return(Fr_div(A, B))
       \/ Is("idiv") /\ Fr_toMpz(B) # 0 /\ Return({Fr_idiv(A, B)})
       \/ Is("mod") /\ Fr_toMpz(B) # 0 /\ Return({Fr_mod(A, B)})

DivideByZero ==
    /\ call # <<>> /\ Call.op \in {"idiv", "mod"} /\ Fr_toMpz(B) = 0
    /\ failed' = TRUE /\ call' = <<>>
    /\ UNCHANGED <<var, loop>>

\* exp goes through the scalar from its highest bit to the lowest.
RawFr_exp ==
    \/ /\ Is("exp") /\ loop.i > 0
       /\ loop' = [RawFr_expBit(loop, A.v, Call.v, loop.i - 1) EXCEPT !.i = loop.i - 1]
       /\ UNCHANGED <<var, call, failed>>
    \/ Is("exp") /\ loop.i = 0 /\ Return({Raw(loop.r)})

ComputeRaw ==
    /\ call # <<>> /\ IsRaw(A)
    /\ \/ Is("add") /\ Return({Raw(Fr_rawAdd(A.v, B.v))})
       \/ Is("sub") /\ Return({Raw(Fr_rawSub(A.v, B.v))})
       \/ Is("mul") /\ Return({Raw(Fr_rawMMul(A.v, B.v))})
       \/ Is("neg") /\ Return({Raw(Fr_rawNeg(A.v))})
       \/ Is("square") /\ Return({Raw(Fr_rawMMul(A.v, A.v))})
       \/ Is("inv") /\ Return({Raw(y) : y \in RawFr_inv(A.v)})
       \/ Is("div") /\ Return({Raw(y) : y \in RawFr_div(A.v, B.v)})

Init ==
    /\ var \in [Var -> {Fr_str2element(v) : v \in Numbers}]
    /\ call = <<>> /\ loop = NoLoop /\ failed = FALSE

Next == Start \/ Convert \/ Compute \/ DivideByZero \/ RawFr_exp \/ ComputeRaw

Spec == Init /\ [][Next]_vars

-----------------------------------------------------------------------------
(* Properties.                                                             *)

\* Canonical: shorts lie in their range and long numbers are reduced, after any
\* sequence of operations: what rawAdd, rawSub and the Montgomery product assume of
\* their operands when they subtract or add q at most once.
CanonicalElement ==
    [type : {"SHORT", "SHORTMONTGOMERY"}, v : ShortVal]
    \cup [type : {"LONG", "LONGMONTGOMERY", "RAW"}, v : Field]
Canonical == var \in [Var -> CanonicalElement]

\* ReadsAgree: all ways to read an element give the same number: its digits, its GMP
\* integer, the long form that is written to the witness, and, when the number is near
\* zero, the index that Fr_toInt makes of it, which it then does not refuse.
NearZero(n) == n < ShortLimit \/ n >= q - ShortLimit
ReadsAgree ==
    \A x \in {var[r] : r \in Var} : ~IsRaw(x) =>
        /\ Fr_element2str(x) = Fr_toMpz(x)
        /\ Fr_toLongNormal(x) = Long(Fr_toMpz(x))
        /\ x.type # "LONGMONTGOMERY" /\ NearZero(Fr_toMpz(x)) =>
              ~Fr_toIntFails(x) /\ Fr_toInt(x) % q = Fr_toMpz(x)

\* ImplementsField: whatever the representations of its operands are, a call gives
\* what the operation gives on the field elements they stand for.
RInverse == CHOOSE x \in Field : (R * x) % q = 1
Value(x) == IF x.type \in {"LONGMONTGOMERY", "RAW"} THEN (x.v * RInverse) % q ELSE x.v % q
Numeric == INSTANCE PrimeField WITH value <- [r \in Var |-> Value(var[r])]
ImplementsField == Numeric!Spec
=============================================================================
