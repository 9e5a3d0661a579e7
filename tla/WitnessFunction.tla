--------------------------- MODULE WitnessFunction ---------------------------
(***************************************************************************)
(* What a witness calculator promises, with nothing of how it computes:    *)
(* given an input file, it either aborts or writes the witness of the      *)
(* circuit's function on exactly the values of the file, in one step.      *)
(*                                                                         *)
(* The functions are written from the definitions of the hashes: MiMC7     *)
(* iterates the seventh power, MultiMiMC7 is its Miyaguchi-Preneel mode,   *)
(* MiMCFeistel a Feistel network with the fifth power whose halves do not  *)
(* change places in the last round, and the sponge absorbs into its left   *)
(* half.                                                                   *)
(***************************************************************************)
EXTENDS Integers, Sequences, FiniteSets

CONSTANTS
    q, MiMC7Rounds, FeistelRounds,
    MiMC7Constant,   \* The constants of the rounds 1 .. MiMC7Rounds - 1.
    FeistelConstant, \* The constants of the rounds 1 .. FeistelRounds - 2.
    DoubleExact,     \* Integers up to here are exact as a double.
    Aborted, Pending

VARIABLES program, json, outcome

Field == 0 .. q - 1
Power(x, n) == LET p[k \in 0 .. n] == IF k = 0 THEN 1 ELSE (x * p[k - 1]) % q IN p[n]

-----------------------------------------------------------------------------
MiMC7(x, k) ==
    LET c(i) == IF i = 0 THEN 0 ELSE MiMC7Constant[i]
        r[i \in 0 .. MiMC7Rounds] ==
            IF i = 0 THEN x ELSE Power((r[i - 1] + k + c(i - 1)) % q, 7)
    IN  (r[MiMC7Rounds] + k) % q

MultiMiMC7(in, k) ==
    LET r[i \in 0 .. Len(in)] ==
            IF i = 0 THEN k ELSE (r[i - 1] + in[i] + MiMC7(in[i], r[i - 1])) % q
    IN  r[Len(in)]

\* The root of the complete tree over the leaves 2^height * (at - 1) + 1, ...
MerkleRoot(leaves) ==
    LET node[height \in 0 .. 3, at \in 1 .. 8] ==
            IF height = 0 THEN leaves[at]
            ELSE MultiMiMC7(<<node[height - 1, 2 * at - 1], node[height - 1, 2 * at]>>, 0)
    IN  node[3, 1]

Feistel(halves, k) ==
    LET c(i) == IF i \in DOMAIN FeistelConstant THEN FeistelConstant[i] ELSE 0
        F(x, i) == Power((x + k + c(i)) % q, 5)
        s[i \in 0 .. FeistelRounds - 1] ==
            IF i = 0 THEN halves
            ELSE <<(s[i - 1][2] + F(s[i - 1][1], i - 1)) % q, s[i - 1][1]>>
        last == s[FeistelRounds - 1]
    IN  <<last[1], (last[2] + F(last[1], FeistelRounds - 1)) % q>>

Sponge(in) ==
    LET s[i \in 0 .. Len(in)] ==
            IF i = 0 THEN <<0, 0>>
            ELSE Feistel(<<(s[i - 1][1] + in[i]) % q, s[i - 1][2]>>, 0)
    IN  s[Len(in)][1]

-----------------------------------------------------------------------------
(* Programs: their inputs, each with the place of its first value among    *)
(* the values of all inputs, and what the circuit outputs for them.        *)

First == [merkleProof |-> [leaves |-> 1],
          CardCommit |-> [previousCardSuit |-> 1, card |-> 2, cardSuit |-> 3, salt |-> 4],
          triangleJumpVerifier |-> [x |-> 1, y |-> 3, z |-> 5, energy |-> 7]]
Places == [merkleProof |-> 1 .. 8, CardCommit |-> 1 .. 4, triangleJumpVerifier |-> 1 .. 7]

\* What the circuit outputs for the inputs in.
Outputs(in) ==
    CASE program = "merkleProof" -> <<MerkleRoot(in)>>
      [] program = "CardCommit" -> <<Sponge(Tail(in)), in[3]>>
      [] program = "triangleJumpVerifier" -> <<1>>

Given == {name \in DOMAIN json : json[name] # <<>>}

\* The values of a file go to consecutive places, for every name from its first place
\* on: those that are one too many for their input stand for the inputs behind it.
At(i) == {<<name, k>> \in {<<name, k>> : name \in Given, k \in Places[program]} :
             k \in DOMAIN json[name] /\ First[program][name] + k - 1 = i}
ValueAt(i) == LET at == CHOOSE at \in At(i) : TRUE IN json[at[1]][at[2]]

\* Only inputs have values, and every place gets one.
Covered ==
    /\ Given \subseteq DOMAIN First[program]
    /\ \A i \in Places[program] : Cardinality(At(i)) = 1
    /\ \A name \in Given : \A k \in DOMAIN json[name] :
          /\ First[program][name] + k - 1 \in Places[program]
          /\ json[name][k].kind \in {"string", "number"}

\* The field elements a value may stand for: a number too large for a double may be
\* rounded, a string never.
Readings(scalar) ==
    IF scalar.kind = "number" /\ scalar.v \notin -DoubleExact .. DoubleExact
    THEN {d % q : d \in scalar.v - 1 .. scalar.v + 1}
    ELSE {scalar.v % q}

\* The circuit asserts that the suit is that of the previous card.
OtherSuit ==
    \E suit \in Readings(ValueAt(3)), previous \in Readings(ValueAt(1)) : suit # previous

MayAbort == Covered => program = "CardCommit" /\ OtherSuit

\* A witness may be written for a file that covers the inputs: o is their values and
\* the outputs of the circuit for them.
MayWrite(o) ==
    /\ Covered
    /\ \A i \in Places[program] : o.inputs[i] \in Readings(ValueAt(i))
    /\ program = "CardCommit" => o.inputs[3] = o.inputs[1]
    /\ o.outputs = Outputs(o.inputs)

Init == outcome = Pending

Compute ==
    /\ outcome = Pending /\ outcome' # Pending
    /\ IF outcome' = Aborted THEN MayAbort ELSE MayWrite(outcome')
    /\ UNCHANGED <<program, json>>

Spec == Init /\ [][Compute]_<<program, json, outcome>>
=============================================================================
