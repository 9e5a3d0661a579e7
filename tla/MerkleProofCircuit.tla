------------------------- MODULE MerkleProofCircuit -------------------------
(***************************************************************************)
(* The generated circuit merkleProof(3): the root of a tree of eight       *)
(* leaves.  Layer k hashes 2^(k+1) values to 2^k with MultiMiMC7, which    *)
(* absorbs its two inputs with MiMC7.  One action is one statement that    *)
(* can run a subcomponent, or one round of a loop that cannot.             *)
(*                                                                         *)
(* The code has MiMC7Rounds = 91; the places of signals and constants are  *)
(* written as the functions of that number that give the code's.           *)
(***************************************************************************)
EXTENDS CalcWit

CONSTANT MiMC7Rounds

\* Signals of one component of each template, and of the circuit.
MiMC7Size == 4 * MiMC7Rounds + 2
\* Mutant: r[2] is forgotten.
ShortMultiMiMC7Size == 6 + 2 * MiMC7Size
MultiMiMC7Size == 7 + 2 * MiMC7Size
BranchSize(outs) == 3 * outs + outs * MultiMiMC7Size
merkleProofSize == 9 + BranchSize(1) + BranchSize(2) + BranchSize(4)

\* The code's numbers: 366 and 739 signals, 5204 in all, 182 constants.
ASSUME MerkleLayout ==
    /\ MiMC7Rounds \in Nat /\ MiMC7Rounds >= 5
    /\ MiMC7Rounds = 91 => /\ MiMC7Size = 366 /\ MultiMiMC7Size = 739
                           /\ 1 + merkleProofSize = 5204

merkleProof_sizes ==
    [main_input_signal_start |-> 2, main_input_signal_no |-> 8,
     total_signal_no |-> 1 + merkleProofSize, number_of_components |-> 25,
     size_of_constants |-> 2 * MiMC7Rounds, size_of_io_map |-> 3]

K(i) == circuitConstants[i]

-----------------------------------------------------------------------------
MiMC7_0_create(soffset, name, father) ==
    Component(0, soffset, 2, 0, name, father)

\* The round constants: lvar[i + 1].
MiMC7_c(i) == K(2 * i + 1)

\* One round: t is x or the seventh power of the last round, plus key and constant.
MiMC7_0_round ==
    LET c == Top.comp
        i == Top.i
        n == MiMC7Rounds
        key == Value(c, 2)
        t == IF i = 0 THEN Fr_add(key, Value(c, 1))
             ELSE Fr_add(Fr_add(key, Value(c, 2 + 3 * n + i)), MiMC7_c(i))
        t2 == Fr_mul(t, t)
        t4 == Fr_mul(t2, t2)
        t6 == Fr_mul(t4, t2)
        t7 == Fr_mul(t6, t)
    IN  /\ At("MiMC7_0_run", "begin") /\ i < K(0)
        /\ Assign(c, 3 + i :> t2 @@ 3 + n + i :> t4 @@ 3 + 2 * n + i :> t6
                     @@ IF i < K(2 * n - 2) THEN 3 + 3 * n + i :> t7
                                            ELSE 0 :> Fr_add(t7, key))
        /\ Goto([Top EXCEPT !.i = i + 1])
        /\ UNCHANGED componentMemory

\* Mutants: the loop ends one round early; the end is missed by one.
ReturnEarly ==
    /\ At("MiMC7_0_run", "begin") /\ Top.i >= K(0) - 1
    /\ Return
    /\ UNCHANGED <<signalValues, componentMemory>>
ReturnLate ==
    /\ At("MiMC7_0_run", "begin") /\ Top.i > K(0)
    /\ Return
    /\ UNCHANGED <<signalValues, componentMemory>>

MiMC7_0_return ==
    /\ At("MiMC7_0_run", "begin") /\ Top.i >= K(0)
    /\ Return
    /\ UNCHANGED <<signalValues, componentMemory>>

MiMC7_0_run == MiMC7_0_round \/ MiMC7_0_return

-----------------------------------------------------------------------------
\* Mutant: the key is not counted as an input.
CreateWithoutKey(soffset, name, father) == Component(1, soffset, 2, 2, name, father)
MultiMiMC7_1_create(soffset, name, father) ==
    Component(1, soffset, 3, 2, name, father)

\* Create mims[0] and mims[1], then r[0] = k.
MultiMiMC7_1_begin ==
    LET c == Top.comp
    IN  /\ At("MultiMiMC7_1_run", "begin")
        /\ CreateSubs(c, [k \in 0 .. 1 |-> c + 1 + k],
               [id \in {c + 1, c + 2} |->
                   LET k == id - (c + 1)
                   IN  MiMC7_0_create(Mem(c).signalStart + 7 + k * MiMC7Size,
                           <<"mims", generate_position_array(<<2>>, k)>>, c)])
        /\ Assign(c, 4 :> Value(c, 3))
        /\ GotoPc("x_in")

\* mims[i].x_in = in[i], then mims[i].k = r[i], which runs mims[i].
MultiMiMC7_1_setInput ==
    \/ /\ At("MultiMiMC7_1_run", "x_in") /\ Top.i < K(4)
       /\ SetInput("MiMC7_0_run", Sub(Top.comp, Top.i), 1, Value(Top.comp, Top.i + 1),
                   [Top EXCEPT !.pc = "k"])
    \/ /\ At("MultiMiMC7_1_run", "k")
       /\ SetInput("MiMC7_0_run", Sub(Top.comp, Top.i), 2, Value(Top.comp, Top.i + 4),
                   [Top EXCEPT !.pc = "r"])

\* r[i + 1] = r[i] + in[i] + mims[i].out.
MultiMiMC7_1_absorb ==
    LET c == Top.comp
        i == Top.i
    IN  /\ At("MultiMiMC7_1_run", "r")
        /\ Assign(c, i + 5 :> Fr_add(Fr_add(Value(c, i + 4), Value(c, i + 1)),
                                     Value(Sub(c, i), 0)))
        /\ Goto([Top EXCEPT !.pc = "x_in", !.i = i + 1])
        /\ UNCHANGED componentMemory

\* out = r[2].
MultiMiMC7_1_return ==
    /\ At("MultiMiMC7_1_run", "x_in") /\ Top.i >= K(4)
    /\ Assign(Top.comp, 0 :> Value(Top.comp, 6))
    /\ Return
    /\ UNCHANGED componentMemory

MultiMiMC7_1_run ==
    \/ MultiMiMC7_1_begin
    \/ MultiMiMC7_1_setInput
    \/ MultiMiMC7_1_absorb
    \/ MultiMiMC7_1_return

-----------------------------------------------------------------------------
(* The three instances of branch have 4, 2 and 1 outputs (the signals from *)
(* 0), twice as many inputs behind them and a MultiMiMC7 for each output.  *)

branch_2_create(soffset, name, father) == Component(2, soffset, 8, 4, name, father)
branch_3_create(soffset, name, father) == Component(3, soffset, 4, 2, name, father)
branch_4_create(soffset, name, father) == Component(4, soffset, 2, 1, name, father)

BranchBegin(fn, outs, names) ==
    LET c == Top.comp
        id(k) == c + 1 + 3 * k
    IN  /\ At(fn, "begin")
        /\ CreateSubs(c, [k \in 0 .. outs - 1 |-> id(k)],
               [x \in {id(k) : k \in 0 .. outs - 1} |->
                   LET k == (x - c - 1) \div 3
                   IN  MultiMiMC7_1_create(
                           Mem(c).signalStart + 3 * outs + k * MultiMiMC7Size, names[k], c)])
        /\ GotoPc("in0")
        /\ UNCHANGED signalValues

\* The two values and the key 0 of hash[i]; the last one runs it.
BranchSetInput(fn, outs, last) ==
    LET c == Top.comp
        i == Top.i
        Set(pc, k, val, next) ==
            /\ At(fn, pc)
            /\ SetInput("MultiMiMC7_1_run", Sub(c, i), k, val, [Top EXCEPT !.pc = next])
    IN  \/ At(fn, "in0") /\ i < last /\ Set("in0", 1, Value(c, outs + 2 * i), "in1")
        \/ Set("in1", 2, Value(c, outs + 2 * i + 1), "k")
        \/ Set("k", 3, K(1), "out")

BranchOut(fn) ==
    /\ At(fn, "out")
    /\ Assign(Top.comp, Top.i :> Value(Sub(Top.comp, Top.i), 0))
    /\ Goto([Top EXCEPT !.pc = "in0", !.i = @ + 1])
    /\ UNCHANGED componentMemory

BranchReturn(fn, last) ==
    /\ At(fn, "in0") /\ Top.i >= last
    /\ Return
    /\ UNCHANGED <<signalValues, componentMemory>>

Branch(fn, outs, names, last) ==
    \/ BranchBegin(fn, outs, names)
    \/ BranchSetInput(fn, outs, last)
    \/ BranchOut(fn)
    \/ BranchReturn(fn, last)

\* Mutant: the index is taken modulo the wrong dimension.
SameNames(outs) ==
    [k \in 0 .. outs - 1 |-> <<"hash", generate_position_array(<<1>>, k)>>]
HashNames(outs) ==
    [k \in 0 .. outs - 1 |-> <<"hash", generate_position_array(<<outs>>, k)>>]

branch_2_run == Branch("branch_2_run", 4, HashNames(4), K(8))
branch_3_run == Branch("branch_3_run", 2, HashNames(2), K(4))
branch_4_run == Branch("branch_4_run", 1, [k \in {0} |-> <<"hash", <<>>>>], K(2))

-----------------------------------------------------------------------------
merkleProof_5_create(soffset, name, father) ==
    Component(5, soffset, 8, 3, name, father)

merkle_functionTable ==
    <<"MiMC7_0_run", "MultiMiMC7_1_run", "branch_2_run", "branch_3_run",
      "branch_4_run", "merkleProof_5_run">>

\* Offsets of the outputs (def 0) and inputs (def 1) of a component of any template.
IO(c, def) == templateInsId2IOSignalInfo[Mem(c).templateId][def].offset

\* Create the layers: layers[k] has 2^k outputs.
merkleProof_5_begin ==
    LET c == Top.comp
        s == Mem(c).signalStart
        layer(k) == <<"layers", <<k>>>>
    IN  /\ At("merkleProof_5_run", "begin")
        /\ CreateSubs(c, 0 :> c + 1 @@ 1 :> c + 5 @@ 2 :> c + 12,
               c + 1 :> branch_4_create(s + 9, layer(0), c)
               @@ c + 5 :> branch_3_create(s + 9 + BranchSize(1), layer(1), c)
               @@ c + 12 :> branch_2_create(s + 9 + BranchSize(1) + BranchSize(2), layer(2), c))
        /\ Goto([Top EXCEPT !.pc = "layers", !.level = K(4)])
        /\ UNCHANGED signalValues

\* Input i of a layer is leaf i for the last layer and otherwise output i of the
\* layer below, from the last layer to layer 0.
merkleProof_5_setInput ==
    LET c == Top.comp
        level == Top.level
        i == Top.i
        layer == Sub(c, level)
        val == IF level = K(4) THEN Value(c, i + 1)
               ELSE Value(Sub(c, level + 1), IO(Sub(c, level + 1), 0) + i)
        next == IF i + 1 < 2^(level + 1) THEN [Top EXCEPT !.i = i + 1]
                ELSE [Top EXCEPT !.i = 0, !.level = level - 1]
    IN  /\ At("merkleProof_5_run", "layers") /\ level >= K(1)
        /\ SetInput(merkle_functionTable[Mem(layer).templateId + 1],
                    layer, IO(layer, 1) + i, val, next)

\* root = layers[0].outs[0].
merkleProof_5_return ==
    LET first == Sub(Top.comp, 0)
    IN  /\ At("merkleProof_5_run", "layers") /\ Top.level < K(1)
        /\ Assign(Top.comp, 0 :> Value(first, IO(first, 0)))
        /\ Return
        /\ UNCHANGED componentMemory

merkleProof_5_run ==
    \/ merkleProof_5_begin
    \/ merkleProof_5_setInput
    \/ merkleProof_5_return

merkleProofStep ==
    \/ MiMC7_0_run \/ MultiMiMC7_1_run
    \/ branch_2_run \/ branch_3_run \/ branch_4_run
    \/ merkleProof_5_run
=============================================================================
