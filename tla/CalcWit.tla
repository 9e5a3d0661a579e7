------------------------------- MODULE CalcWit -------------------------------
(***************************************************************************)
(* The memory of a witness calculator while a circuit runs, and what every *)
(* generated template does with it: creating components, copying a value   *)
(* into an input of a subcomponent (which runs it when it was the last     *)
(* input) and returning.  Models calcwit.cpp, calcwit.hpp and circom.hpp.  *)
(*                                                                         *)
(* Signals hold field elements.  memory that new[] leaves uninitialised is *)
(* Unset; an operation on it yields Unset, for whatever lies there.        *)
(***************************************************************************)
EXTENDS Integers, Sequences, FiniteSets, TLC

CONSTANTS
    q,         \* The prime of the field.
    UintLimit, \* One more than the largest unsigned counter (2^32 in the code).
    Unset      \* What uninitialised memory holds.

ASSUME FieldAssumption == q \in Nat /\ q > 2
ASSUME CounterAssumption == UintLimit \in Nat /\ UintLimit > 8

VARIABLES
    signalValues,     \* FrElement* signalValues
    componentMemory,  \* Circom_Component* componentMemory
    circuitConstants, \* FrElement* circuitConstants
    templateInsId2IOSignalInfo,
    stack             \* the calls of _run functions under way, innermost first

\* What a circuit changes, and the tables it only reads.
ctxVars == <<signalValues, componentMemory, stack>>
tables == <<circuitConstants, templateInsId2IOSignalInfo>>

Field == 0 .. q - 1

\* Mutant: not reduced.
Fr_addLong(a, b) == IF Unset \in {a, b} THEN Unset ELSE a + b

Fr_add(a, b) == IF Unset \in {a, b} THEN Unset ELSE (a + b) % q
Fr_mul(a, b) == IF Unset \in {a, b} THEN Unset ELSE (a * b) % q

-----------------------------------------------------------------------------
(* Components.                                                             *)

\* What a _create function writes; subcomponents is a new array, unset.
Component(templateId, soffset, inputs, subs, name, father) ==
    [templateId |-> templateId, signalStart |-> soffset, inputCounter |-> inputs,
     componentName |-> name, idFather |-> father,
     subcomponents |-> [k \in 0 .. subs - 1 |-> Unset]]

Mem(c) == componentMemory[c]
Sub(c, k) == Mem(c).subcomponents[k]
Value(c, k) == signalValues[Mem(c).signalStart + k]

\* The indices of an element of an array with the given dimensions.
generate_position_array(dimensions, index) ==
    LET rest[k \in 0 .. Len(dimensions)] ==
            IF k = 0 THEN index
            ELSE rest[k - 1] \div dimensions[Len(dimensions) + 1 - k]
    IN  [k \in 1 .. Len(dimensions) |->
            rest[Len(dimensions) - k] % dimensions[k]]

-----------------------------------------------------------------------------
(* Calls.  A frame is the run of one component: the function, the point pc *)
(* it has reached and its loop counters.                                   *)

Call(fn, c) == [fn |-> fn, comp |-> c, pc |-> "begin", i |-> 0, level |-> 0]

Top == stack[1]
Running == stack # <<>>
At(fn, pc) == Running /\ Top.fn = fn /\ Top.pc = pc

Goto(frame) == stack' = <<frame>> \o Tail(stack)
GotoPc(pc) == Goto([Top EXCEPT !.pc = pc])
Return == stack' = Tail(stack)

\* Write values to signals of component c; the offsets are relative to it.
Assign(c, values) ==
    signalValues' =
        [s \in {Mem(c).signalStart + k : k \in DOMAIN values} |->
            values[s - Mem(c).signalStart]] @@ signalValues

\* Create new[id] for the ids in its domain and make them the subcomponents of
\* c: element k of the array is ids[k].
CreateSubs(c, ids, new) ==
    componentMemory' =
        new @@ [componentMemory EXCEPT ![c].subcomponents =
                   [k \in DOMAIN @ |-> ids[k]]]

\* Copy val into input k of subcomponent c, count it down, and run the
\* subcomponent when no input is missing; the caller goes on at frame.
SetInput(fn, c, k, val, frame) ==
    LET left == (Mem(c).inputCounter - 1) % UintLimit
    IN  /\ Assign(c, k :> val)
        /\ componentMemory' = [componentMemory EXCEPT ![c].inputCounter = left]
        /\ stack' = IF left = 0 THEN <<Call(fn, c), frame>> \o Tail(stack)
                                ELSE <<frame>> \o Tail(stack)
=============================================================================
