--------------------------- MODULE TriangleCircuit ---------------------------
(***************************************************************************)
(* The generated circuit triangleJumpVerifier: its one output and its      *)
(* asserts are the constant 1; no statement reads an input.                *)
(***************************************************************************)
EXTENDS CalcWit

triangleJumpVerifier_sizes ==
    [main_input_signal_start |-> 2, main_input_signal_no |-> 7,
     total_signal_no |-> 9, number_of_components |-> 1,
     size_of_constants |-> 1, size_of_io_map |-> 0]

triangleJumpVerifier_0_create(soffset, name, father) ==
    Component(0, soffset, 7, 0, name, father)

\* assert(Fr_isTrue(&circuitConstants[0])), four times.
TriangleAsserts == circuitConstants[0] # 0

triangleJumpVerifier_0_run ==
    /\ At("triangleJumpVerifier_0_run", "begin") /\ TriangleAsserts
    /\ Assign(Top.comp, 0 :> circuitConstants[0])
    /\ Return
    /\ UNCHANGED componentMemory

TriangleStep == triangleJumpVerifier_0_run
=============================================================================
