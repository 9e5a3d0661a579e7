------------------------------ MODULE MCWitness ------------------------------
(***************************************************************************)
(* WitnessCalculator over the field of 17 elements, with 5 rounds of MiMC7 *)
(* and 6 of MiMCFeistel, an input table of 8 slots and the input files     *)
(* below.                                                                  *)
(***************************************************************************)
EXTENDS WitnessCalculator

\* Constants of the rounds.
MCMiMC7Constant == <<3, 11, 6, 16>>
MCFeistelConstant == <<5, 14, 9, 2>>

\* Names share slots, and the last slot of the table is the place of y's entry.
MCNameHash ==
    "card" :> 9 @@ "cardSuit" :> 17 @@ "previousCardSuit" :> 10 @@ "salt" :> 13
    @@ "leaves" :> 12 @@ "x" :> 14 @@ "y" :> 22 @@ "z" :> 20 @@ "energy" :> 28
    @@ "surplus" :> 15
MCBehindHashmap == {0, 7}

Text(v) == [kind |-> "string", v |-> v]
Number(v) == [kind |-> "number", v |-> v]
Array(items) == [kind |-> "array", items |-> items]
Texts(values) == Array([k \in DOMAIN values |-> Text(values[k])])

Leaves(values) == "leaves" :> Texts(values)
Card(previous, card, suit, salt) ==
    "previousCardSuit" :> previous @@ "card" :> card @@ "cardSuit" :> suit @@ "salt" :> salt
Triangle(x, y, z, energy) ==
    "x" :> Texts(x) @@ "y" :> Texts(y) @@ "z" :> Texts(z) @@ "energy" :> energy
Eight == <<4, 0, 9, 16, 2, 2, 13, 7>>

MCJsonFiles ==
    [merkleProof |->
        {\* Complete: zeros, negative and large values, nested arrays, doubles.
         Leaves([k \in 1 .. 8 |-> 0]),
         Leaves(Eight),
         Leaves(<<-1, 17, 40, 5, 6, -18, 8, 1>>),
         "leaves" :> Array(<<Texts(<<1, 2, 3>>), Array(<<Number(21), Number(-23)>>),
                             Texts(<<4, 5, 6>>)>>),
         \* A name that is no input, without and with values, before and after leaves.
         Leaves(Eight) @@ "surplus" :> Array(<<>>),
         Leaves(Eight) @@ "card" :> Text(1),
         Leaves(Eight) @@ "surplus" :> Text(1),
         "surplus" :> Text(1),
         \* Too few and too many values, and none.
         Leaves(SubSeq(Eight, 1, 7)),
         Leaves(Append(Eight, 3)),
         "leaves" :> Array(<<>>)},
     CardCommit |->
        {Card(Text(2), Text(12), Text(2), Text(5)),
         Card(Text(-15), Number(3), Text(2), Number(29)),
         \* 17 as a double is 16.
         Card(Number(17), Text(1), Text(16), Text(0)),
         Card(Number(17), Text(1), Number(17), Text(0)),
         Card(Number(17), Text(1), Text(17), Text(0)),
         \* Another suit.
         Card(Text(2), Text(12), Text(3), Text(5)),
         \* One value too many where the next input is given too; a name missing; null.
         Card(Text(2), Texts(<<12, 1>>), Text(2), Text(5)),
         Card(Texts(<<2, 4>>), Text(12), Text(2), Text(5)),
         "card" :> Text(12) @@ "cardSuit" :> Text(2) @@ "salt" :> Text(5),
         \* Too many where the next input is missing: for one, of another suit, for all.
         "previousCardSuit" :> Text(2) @@ "card" :> Texts(<<12, 2>>) @@ "salt" :> Text(5),
         "previousCardSuit" :> Text(2) @@ "card" :> Texts(<<12, 3>>) @@ "salt" :> Text(5),
         "previousCardSuit" :> Texts(<<2, 12, 2, 5>>),
         "previousCardSuit" :> Texts(<<2, 12>>) @@ "salt" :> Text(5),
         Card(Text(2), Text(12), Text(2), [kind |-> "other"])},
     triangleJumpVerifier |->
        {Triangle(<<0, 0>>, <<3, 0>>, <<0, 4>>, Text(5)),
         Triangle(<<1, 1>>, <<1, 1>>, <<2, 3>>, Text(1)),
         Triangle(<<0, 0>>, <<3, 0>>, <<0, 4>>, Text(5)) @@ "surplus" :> Text(1),
         Triangle(<<0, 0>>, <<3, 0>>, <<0>>, Text(5)),
         Triangle(<<0, 0, 1>>, <<3, 0>>, <<0, 4>>, Text(5)),
         Triangle(<<0, 0, 3, 0>>, <<>>, <<0, 4>>, Text(5))}]
=============================================================================
