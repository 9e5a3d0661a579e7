-------------------------- MODULE CardCommitCircuit --------------------------
(***************************************************************************)
(* The generated circuit CardCommit: the digest of a card, its suit and a  *)
(* salt by MiMCSponge(3, 220, 1), which absorbs one value after another    *)
(* with MiMCFeistel, and the suit.                                         *)
(*                                                                         *)
(* The code has FeistelRounds = 220; the places of signals and constants   *)
(* are written as the functions of that number that give the code's.       *)
(***************************************************************************)
EXTENDS CalcWit

CONSTANT FeistelRounds

\* Signals of one component of each template, and of the circuit.
MiMCFeistelSize == 4 * FeistelRounds + 3
MiMCSpongeSize == 5 + 3 * MiMCFeistelSize
CardCommitSize == 6 + MiMCSpongeSize

\* The code's numbers: 883 and 2654 signals, 2661 in all.
ASSUME CardLayout ==
    /\ FeistelRounds \in Nat /\ FeistelRounds >= 6
    /\ FeistelRounds = 220 => /\ MiMCFeistelSize = 883 /\ MiMCSpongeSize = 2654
                              /\ 1 + CardCommitSize = 2661

CardCommit_sizes ==
    [main_input_signal_start |-> 3, main_input_signal_no |-> 4,
     total_signal_no |-> 1 + CardCommitSize, number_of_components |-> 5,
     size_of_constants |-> 2 * FeistelRounds - 1, size_of_io_map |-> 0]

-----------------------------------------------------------------------------
MiMCFeistel_0_create(soffset, name, father) ==
    Component(0, soffset, 3, 0, name, father)

\* Mutant: the last round has a constant.
LastConstant(i) == circuitConstants[2 * i]

\* The constant of round i: lvar[i], and none in the first and the last round.
MiMCFeistel_c(i) ==
    IF i = circuitConstants[1] \/ i = circuitConstants[2 * FeistelRounds - 3]
    THEN circuitConstants[1]
    ELSE circuitConstants[2 * i]

\* One round but the last: the halves change places.  Signals: t2 from 5, t4 from
\* 5 + n, xL from 5 + 2n, xR from 4 + 3n; k is signal 4, xL_in 2, xR_in 3.
MiMCFeistel_0_round ==
    LET c == Top.comp
        i == Top.i
        n == FeistelRounds
        left(j) == 5 + 2 * n + j
        right(j) == 4 + 3 * n + j
        key == Value(c, 4)
        t == IF i = 0 THEN Fr_add(key, Value(c, 2))
             ELSE Fr_add(Fr_add(key, Value(c, left(i - 1))), MiMCFeistel_c(i))
        t2 == Fr_mul(t, t)
        t4 == Fr_mul(t2, t2)
        step == Fr_mul(t4, t)
        lastL == IF i = 0 THEN Value(c, 2) ELSE Value(c, left(i - 1))
        lastR == IF i = 0 THEN Value(c, 3) ELSE Value(c, right(i - 1))
        halves == IF i < circuitConstants[2 * n - 3]
                  THEN left(i) :> Fr_add(lastR, step) @@ right(i) :> lastL
                  ELSE 1 :> Fr_add(Value(c, right(n - 2)), step)
                       @@ 0 :> Value(c, left(n - 2))
    IN  /\ At("MiMCFeistel_0_run", "begin") /\ i < circuitConstants[0]
        /\ Assign(c, 5 + i :> t2 @@ 5 + n + i :> t4 @@ halves)
        /\ Goto([Top EXCEPT !.i = i + 1])
        /\ UNCHANGED componentMemory

MiMCFeistel_0_return ==
    /\ At("MiMCFeistel_0_run", "begin") /\ Top.i >= circuitConstants[0]
    /\ Return
    /\ UNCHANGED <<signalValues, componentMemory>>

MiMCFeistel_0_run == MiMCFeistel_0_round \/ MiMCFeistel_0_return

-----------------------------------------------------------------------------
MiMCSponge_1_create(soffset, name, father) ==
    Component(1, soffset, 4, 3, name, father)

MiMCSponge_1_begin ==
    LET c == Top.comp
    IN  /\ At("MiMCSponge_1_run", "begin")
        /\ CreateSubs(c, [k \in 0 .. 2 |-> c + 1 + k],
               [id \in c + 1 .. c + 3 |->
                   LET k == id - (c + 1)
                   IN  MiMCFeistel_0_create(Mem(c).signalStart + 5 + k * MiMCFeistelSize,
                           <<"S", generate_position_array(<<3>>, k)>>, c)])
        /\ GotoPc("k")
        /\ UNCHANGED signalValues

\* S[i].k = k, then the halves: ins[0] and 0 for the first, and then the outputs
\* of S[i - 1], the left one with ins[i] added.  The third input runs S[i].
MiMCSponge_1_setInput ==
    LET c == Top.comp
        i == Top.i
        S(k) == Sub(c, k)
        Set(k, val, next) ==
            SetInput("MiMCFeistel_0_run", S(i), k, val, [Top EXCEPT !.pc = next])
    IN  \/ /\ At("MiMCSponge_1_run", "k") /\ i < circuitConstants[7]
           /\ Set(4, Value(c, 4), "xL_in")
        \/ /\ At("MiMCSponge_1_run", "xL_in")
           /\ Set(2, IF i = 0 THEN Value(c, 1)
                     ELSE Fr_add(Value(S(i - 1), 0), Value(c, i + 1)), "xR_in")
        \/ /\ At("MiMCSponge_1_run", "xR_in")
           /\ SetInput("MiMCFeistel_0_run", S(i), 3,
                       IF i = 0 THEN circuitConstants[1] ELSE Value(S(i - 1), 1),
                       [Top EXCEPT !.pc = "k", !.i = i + 1])

\* outs[0] = S[2].xL_out.
MiMCSponge_1_return ==
    /\ At("MiMCSponge_1_run", "k") /\ Top.i >= circuitConstants[7]
    /\ Assign(Top.comp, 0 :> Value(Sub(Top.comp, 2), 0))
    /\ Return
    /\ UNCHANGED componentMemory

MiMCSponge_1_run ==
    MiMCSponge_1_begin \/ MiMCSponge_1_setInput \/ MiMCSponge_1_return

-----------------------------------------------------------------------------
CardCommit_2_create(soffset, name, father) ==
    Component(2, soffset, 4, 1, name, father)

\* assert(previousCardSuit == cardSuit): when it fails the program aborts.
SuitIsKept(c) == Value(c, 2) = Value(c, 4)

CardCommit_2_begin ==
    LET c == Top.comp
    IN  /\ At("CardCommit_2_run", "begin") /\ SuitIsKept(c)
        /\ CreateSubs(c, 0 :> c + 1,
               c + 1 :> MiMCSponge_1_create(Mem(c).signalStart + 6, <<"saltDigest", <<>>>>, c))
        /\ GotoPc("k")
        /\ UNCHANGED signalValues

\* k = 0, ins = card, cardSuit, salt.  The asserts count the inputs down, and the
\* last one runs the sponge.
CardCommit_2_setInput ==
    LET c == Top.comp
        Set(pc, k, val, next) ==
            /\ At("CardCommit_2_run", pc)
            /\ SetInput("MiMCSponge_1_run", Sub(c, 0), k, val, [Top EXCEPT !.pc = next])
    IN  \/ Set("k", 4, circuitConstants[1], "card")
        \/ Set("card", 1, Value(c, 3), "cardSuit")
        \/ Set("cardSuit", 2, Value(c, 4), "salt")
        \/ Set("salt", 3, Value(c, 5), "outputs")

CardCommit_2_return ==
    LET c == Top.comp
    IN  /\ At("CardCommit_2_run", "outputs")
        /\ Assign(c, 0 :> Value(Sub(c, 0), 0) @@ 1 :> Value(c, 4))
        /\ Return
        /\ UNCHANGED componentMemory

CardCommit_2_run ==
    CardCommit_2_begin \/ CardCommit_2_setInput \/ CardCommit_2_return

CardCommit_functionTable ==
    <<"MiMCFeistel_0_run", "MiMCSponge_1_run", "CardCommit_2_run">>

CardCommitStep == MiMCFeistel_0_run \/ MiMCSponge_1_run \/ CardCommit_2_run
=============================================================================
