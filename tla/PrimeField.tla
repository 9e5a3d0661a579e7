------------------------------ MODULE PrimeField ------------------------------
(***************************************************************************)
(* What the field library promises: variables hold elements of the field   *)
(* of q elements, and a call computes one operation of the field, or of    *)
(* the integers 0 .. q - 1 that represent them.                            *)
(***************************************************************************)
EXTENDS Integers

CONSTANTS q, Var, Calls

VARIABLES value, call, failed

Field == 0 .. q - 1

Power(x, n) == LET p[k \in Nat] == IF k = 0 THEN 1 % q ELSE (x * p[k - 1]) % q IN p[n]

\* The quotients x / y: every z with z * y = x, and anything when y is zero.
Quotients(x, y) == {z \in Field : y = 0 \/ (z * y) % q = x}

\* The results that an operation may give for the elements x and y and the number v.
Results(op, x, y, v) ==
    CASE op \in {"copy", "toNormal", "toLongNormal", "toMontgomery", "toRaw", "fromRaw"} -> {x}
      [] op = "add" -> {(x + y) % q}
      [] op = "sub" -> {(x - y) % q}
      [] op = "mul" -> {(x * y) % q}
      [] op = "square" -> {(x * x) % q}
      [] op = "neg" -> {(-x) % q}
      [] op = "inv" -> Quotients(1, x)
      [] op = "div" -> IF y = 0 THEN Field ELSE Quotients(x, y)
      [] op = "idiv" -> {x \div y}
      [] op = "mod" -> {x % y}
      [] op = "pow" -> {Power(x, y)}
      [] op = "exp" -> {Power(x, v)}
      [] op \in {"str2element", "fromString", "fromUI"} -> {v % q}
      [] op = "negOne" -> {q - 1}

Init == value \in [Var -> Field] /\ call = <<>> /\ failed = FALSE

Start == call = <<>> /\ ~failed /\ \E c \in Calls : call' = <<c>>
         /\ UNCHANGED <<value, failed>>

Finish ==
    /\ call # <<>> /\ call' = <<>>
    /\ LET c == call[1]
           byZero == c.op \in {"idiv", "mod"} /\ value[c.b] = 0
       IN  IF byZero THEN failed' = TRUE /\ UNCHANGED value
           ELSE /\ \E z \in Results(c.op, value[c.a], value[c.b], c.v) :
                       value' = [value EXCEPT ![c.r] = z]
                /\ UNCHANGED failed

Next == Start \/ Finish

Spec == Init /\ [][Next]_<<value, call, failed>>
=============================================================================
