-------------------------- MODULE WitnessCalculator --------------------------
(***************************************************************************)
(* The three witness calculators of the repository: main.cpp and the       *)
(* loading of inputs of calcwit.cpp around one of the generated circuits.  *)
(* A calculator reads its tables from the .dat file, takes the inputs of   *)
(* the JSON file one by one, runs the circuit when the last one is set and *)
(* writes the witness.  assert(false), an exception nobody catches and a   *)
(* failed assertion of the circuit all end the program: phase "aborted".   *)
(*                                                                         *)
(* External: the compiler that wrote the .dat file, the JSON parser.       *)
(***************************************************************************)
EXTENDS MerkleProofCircuit, CardCommitCircuit, TriangleCircuit, SequencesExt

CONSTANTS
    MiMC7Constant,   \* The round constants that the compiler put into the tables.
    FeistelConstant,
    HashmapSize,     \* size_of_input_hashmap, 256 in the code.
    NameHash,        \* The hash of each name that occurs, fnv1a.
    BehindHashmap,   \* What may lie in memory behind InputHashMap.
    DoubleExact,     \* Integers up to here are exact as a double (2^53).
    JsonFiles,       \* For each program, the input files it is given.
    Aborted, Pending \* Outcomes, see WitnessFunction.

VARIABLES
    program, json, phase,
    InputHashMap, witness2SignalList,
    inputSignalAssigned, inputSignalAssignedCounter,
    key, idx,        \* the iterators of loadJson: the name and the value
    wtns             \* the file written

loadVars == <<InputHashMap, witness2SignalList>>
inputVars == <<inputSignalAssigned, inputSignalAssignedCounter, key, idx>>
vars == <<ctxVars, tables, program, json, phase, loadVars, inputVars, wtns>>

\* 0 marks a free slot; that memory behind the table equals a hash is left out.
ASSUME HashmapAssumption ==
    /\ HashmapSize \in Nat /\ HashmapSize > 1
    /\ \A name \in DOMAIN NameHash : NameHash[name] \in Nat \ ({0} \cup BehindHashmap)

Programs == {"merkleProof", "CardCommit", "triangleJumpVerifier"}
Sizes == [merkleProof |-> merkleProof_sizes, CardCommit |-> CardCommit_sizes,
          triangleJumpVerifier |-> triangleJumpVerifier_sizes]

\* Names in the order in which the parser's map lists them.
KeyOrder == <<"card", "cardSuit", "energy", "leaves", "previousCardSuit", "salt",
              "surplus", "x", "y", "z">>
Keys(file) == SelectSeq(KeyOrder, LAMBDA name : name \in DOMAIN file)

-----------------------------------------------------------------------------
(* The .dat file, written by the compiler: the tables one after another,   *)
(* each entry at its offset in bytes.                                      *)

PairBytes == 16     \* sizeof(HashSignalPair)
SignalBytes == 8    \* sizeof(u64)
FrBytes == 40       \* sizeof(FrElement)
WordBytes == 4      \* sizeof(u32)

\* The first signal of each input.
InputSignal ==
    [merkleProof |-> "leaves" :> 2,
     CardCommit |-> "previousCardSuit" :> 3 @@ "card" :> 4 @@ "cardSuit" :> 5 @@ "salt" :> 6,
     triangleJumpVerifier |-> "x" :> 2 @@ "y" :> 4 @@ "z" :> 6 @@ "energy" :> 8]

\* Every name goes to the first free slot from the place of its hash on.
HashMapOf(p) ==
    LET Free(map, name) ==
            CHOOSE d \in 0 .. HashmapSize - 1 :
                /\ map[(NameHash[name] + d) % HashmapSize].hash = 0
                /\ \A e \in 0 .. d - 1 : map[(NameHash[name] + e) % HashmapSize].hash # 0
        Enter(map, name) ==
            [map EXCEPT ![(NameHash[name] + Free(map, name)) % HashmapSize] =
                [hash |-> NameHash[name], signalid |-> InputSignal[p][name]]]
    IN  FoldLeft(Enter, [s \in 0 .. HashmapSize - 1 |-> [hash |-> 0, signalid |-> 0]],
                 Keys(InputSignal[p]))

\* The compiler leaves out signals that are linear in others: cardSuit is, being an
\* output too, and some of the signals of subcomponents.
Kept(p, s) ==
    LET main == Sizes[p].main_input_signal_start + Sizes[p].main_input_signal_no
    IN  IF s < main THEN ~(p = "CardCommit" /\ s = 5) ELSE s % 3 # 0
WitnessListOf(p) ==
    LET kept == SelectSeq([k \in 1 .. Sizes[p].total_signal_no |-> k - 1],
                          LAMBDA s : Kept(p, s))
    IN  [k \in 0 .. Len(kept) - 1 |-> kept[k + 1]]

ConstantsOf(p) ==
    [k \in 0 .. Sizes[p].size_of_constants - 1 |->
        CASE p = "merkleProof" ->
                IF k = 0 THEN MiMC7Rounds ELSE IF k = 1 THEN 0
                ELSE IF k % 2 = 0 THEN k \div 2 ELSE MiMC7Constant[k \div 2]
          [] p = "CardCommit" ->
                IF k = 0 THEN FeistelRounds ELSE IF k = 1 THEN 0
                ELSE IF k = 2 * FeistelRounds - 3 THEN FeistelRounds - 1
                ELSE IF k = 2 * FeistelRounds - 2 THEN FeistelRounds - 2
                ELSE IF k % 2 = 0 THEN FeistelConstant[k \div 2] ELSE k \div 2
          [] p = "triangleJumpVerifier" -> 1]

\* Template ids with inputs and outputs in arrays, and for each the number of its
\* defs and their offsets and (no) dimensions.
IoMapWords == <<2, 3, 4,  2, 0, 0, 4, 0,  2, 0, 0, 2, 0,  2, 0, 0, 1, 0>>

\* The values of a table at consecutive places from an offset on.
Entries(offset, bytes, n, value(_)) ==
    [b \in {offset + bytes * k : k \in 0 .. n - 1} |-> value((b - offset) \div bytes)]

DatOf(p) ==
    LET map == HashMapOf(p)
        witness == WitnessListOf(p)
        constants == ConstantsOf(p)
        n == Cardinality(DOMAIN witness)
        io == IF Sizes[p].size_of_io_map > 0 THEN IoMapWords ELSE <<>>
        w == HashmapSize * PairBytes
        c == w + n * SignalBytes
        m == c + Sizes[p].size_of_constants * FrBytes
    IN  [size |-> m + Len(io) * WordBytes, witness |-> n,
         at |-> Entries(0, PairBytes, HashmapSize, LAMBDA k : map[k])
                @@ Entries(w, SignalBytes, n, LAMBDA k : witness[k])
                @@ Entries(c, FrBytes, Sizes[p].size_of_constants, LAMBDA k : constants[k])
                @@ Entries(m, WordBytes, Len(io), LAMBDA k : io[k + 1])]

Dat == [p \in Programs |-> DatOf(p)]

-----------------------------------------------------------------------------
(* Loading the tables.                                                     *)

\* One template of the io map: n defs, each an offset, a number of dimensions and
\* the dimensions.
IODefs(words, start) ==
    LET at[j \in 0 .. words[start]] ==
            IF j = 0 THEN start + 1 ELSE at[j - 1] + words[at[j - 1] + 1] + 2
        defs == [j \in 0 .. words[start] - 1 |->
                    [offset |-> words[at[j]],
                     lengths |-> SubSeq(words, at[j] + 2, at[j + 1] - 1)]]
    IN  [defs |-> defs, next |-> at[words[start]]]

loadCircuit ==
    LET p == Sizes[program]
        dat == Dat[program]
        Table(inisize, bytes, n) == [k \in 0 .. n - 1 |-> dat.at[inisize + bytes * k]]
        dsize == HashmapSize * PairBytes
        afterWitness == dsize + dat.witness * SignalBytes
        constants == p.size_of_constants * FrBytes
        index == Table(afterWitness + constants, WordBytes, p.size_of_io_map)
        inisize == afterWitness + constants + p.size_of_io_map * WordBytes
        words == [k \in 1 .. (dat.size - inisize) \div WordBytes |->
                     dat.at[inisize + WordBytes * (k - 1)]]
        start[i \in 0 .. p.size_of_io_map] ==
            IF i = 0 THEN 1 ELSE IODefs(words, start[i - 1]).next
    IN  /\ phase = "loadCircuit" /\ phase' = "Circom_CalcWit"
        /\ InputHashMap' = Table(0, PairBytes, HashmapSize)
        /\ witness2SignalList' = Table(dsize, SignalBytes, dat.witness)
        /\ circuitConstants' = Table(afterWitness, FrBytes, p.size_of_constants)
        /\ templateInsId2IOSignalInfo' =
               [t \in {index[i] : i \in DOMAIN index} |->
                   IODefs(words, start[CHOOSE i \in DOMAIN index : index[i] = t]).defs]
        /\ UNCHANGED <<ctxVars, program, json, inputVars, wtns>>

Circom_CalcWit ==
    /\ phase = "Circom_CalcWit" /\ phase' = "loadJson"
    /\ inputSignalAssignedCounter' = Sizes[program].main_input_signal_no
    /\ inputSignalAssigned' =
           [i \in 0 .. Sizes[program].main_input_signal_no - 1 |-> FALSE]
    /\ signalValues' = [s \in 0 .. Sizes[program].total_signal_no - 1 |->
                           IF s = 0 THEN 1 ELSE Unset]
    /\ UNCHANGED <<componentMemory, stack, tables, program, json, loadVars, key, idx, wtns>>

-----------------------------------------------------------------------------
(* Loading the inputs.                                                     *)

\* The scalars of a value of the file: arrays are flattened.
RECURSIVE Scalars(_)
Scalars(val) ==
    IF val.kind = "array" THEN FlattenSeq([k \in DOMAIN val.items |-> Scalars(val.items[k])])
    ELSE <<val>>

\* What a number is as a double, up to 2 * DoubleExact: beyond DoubleExact every
\* other integer is a double, and a tie goes to the one with an even significand.
Double(v) ==
    IF v \in -DoubleExact .. DoubleExact \/ v % 2 = 0 THEN v
    ELSE IF (v + 1) % 4 = 0 THEN v + 1 ELSE v - 1

Fr_str2element(v) == v % q
FromJson(scalar) ==
    Fr_str2element(IF scalar.kind = "number" THEN Double(scalar.v) ELSE scalar.v)

json2FrElements(val) == [k \in DOMAIN Scalars(val) |-> FromJson(Scalars(val)[k])]

\* A scalar that is neither a string nor a number throws what nobody catches.
InvalidType(val) == \E k \in DOMAIN Scalars(val) : Scalars(val)[k].kind = "other"

\* The slots looked at for h: its own, the next one, which may lie behind the table,
\* and from there on modulo the size.  The search stops at h, at a free slot other
\* than the first, and when it is back.
Probe(h, k) ==
    LET pos == h % HashmapSize
    IN  IF k <= 1 THEN pos + k ELSE (pos + k) % HashmapSize
Found(h, behind) ==
    LET hash(k) == IF Probe(h, k) = HashmapSize THEN behind ELSE InputHashMap[Probe(h, k)].hash
    IN  {Probe(h, k) : k \in {k \in 0 .. HashmapSize - 1 :
            /\ hash(k) = h
            /\ \A e \in 1 .. k - 1 : hash(e) # 0}}

abort ==
    /\ phase' = "aborted" /\ stack' = <<>>
    /\ UNCHANGED <<signalValues, componentMemory, tables, program, json, loadVars, inputVars, wtns>>

\* run: create main and call it.
run ==
    LET main == CASE program = "merkleProof" -> merkleProof_5_create(1, <<"main", <<>>>>, 0)
                  [] program = "CardCommit" -> CardCommit_2_create(1, <<"main", <<>>>>, 0)
                  [] program = "triangleJumpVerifier" ->
                         triangleJumpVerifier_0_create(1, <<"main", <<>>>>, 0)
        fn == CASE program = "merkleProof" -> "merkleProof_5_run"
                [] program = "CardCommit" -> "CardCommit_2_run"
                [] program = "triangleJumpVerifier" -> "triangleJumpVerifier_0_run"
    IN  componentMemory' = 0 :> main /\ stack' = <<Call(fn, 0)>>

\* Set signal si to val and count it; the last one runs the circuit.
AssignInput(si, val) ==
    /\ signalValues' = [signalValues EXCEPT ![si] = val]
    /\ inputSignalAssigned' =
           [inputSignalAssigned EXCEPT ![si - Sizes[program].main_input_signal_start] = TRUE]
    /\ inputSignalAssignedCounter' = inputSignalAssignedCounter - 1
    /\ IF inputSignalAssignedCounter' = 0 THEN run ELSE UNCHANGED <<componentMemory, stack>>

setInputSignal(h, i, val, next) ==
    \E behind \in BehindHashmap :
        LET found == Found(h, behind)
            si == InputHashMap[CHOOSE pos \in found : TRUE].signalid + i
        IN  IF \/ inputSignalAssignedCounter = 0
               \/ found = {}
               \/ inputSignalAssigned[si - Sizes[program].main_input_signal_start]
            THEN abort
            ELSE AssignInput(si, val) /\ next

-----------------------------------------------------------------------------
(* main.                                                                   *)

Name == Keys(json)[key]
Loading == phase = "loadJson" /\ ~Running

loadJson ==
    /\ Loading /\ key <= Len(Keys(json))
    /\ IF InvalidType(json[Name]) THEN abort
       ELSE IF idx < Len(Scalars(json[Name]))
       THEN setInputSignal(NameHash[Name], idx, json2FrElements(json[Name])[idx + 1],
                /\ idx' = idx + 1
                /\ UNCHANGED <<tables, program, json, phase, loadVars, key, wtns>>)
       ELSE /\ key' = key + 1 /\ idx' = 0
            /\ UNCHANGED <<ctxVars, tables, program, json, phase, loadVars,
                           inputSignalAssigned, inputSignalAssignedCounter, wtns>>

\* A statement of the circuit; when its assert fails, the program aborts.
AssertHolds ==
    CASE Top.fn = "CardCommit_2_run" /\ Top.pc = "begin" -> SuitIsKept(Top.comp)
      [] Top.fn = "triangleJumpVerifier_0_run" -> TriangleAsserts
      [] OTHER -> TRUE

CircuitStep ==
    /\ Running /\ AssertHolds
    /\ merkleProofStep \/ CardCommitStep \/ TriangleStep
    /\ UNCHANGED <<tables, program, json, phase, loadVars, inputVars, wtns>>

\* The names on the path from main to a component, for the message.
RECURSIVE getTrace(_)
getTrace(id_cmp) ==
    IF id_cmp = 0 THEN <<Mem(0).componentName>>
    ELSE Append(getTrace(Mem(id_cmp).idFather), Mem(id_cmp).componentName)

AssertFails == Running /\ ~AssertHolds /\ abort

\* Header and data; n8 is the size of a value, Fr_N64 * 8.
writeBinWitness ==
    LET n8 == 32
        Nwtns == Cardinality(DOMAIN witness2SignalList)
    IN  wtns' = [header |-> 8 + n8, n8 |-> n8, prime |-> q, nVars |-> Nwtns,
                 length |-> n8 * Nwtns,
                 data |-> [i \in 0 .. Nwtns - 1 |-> signalValues[witness2SignalList[i]]]]

\* loadJson is through: with an input missing the program aborts.
Finish ==
    /\ Loading /\ key > Len(Keys(json))
    /\ IF inputSignalAssignedCounter # 0 THEN abort
       ELSE /\ writeBinWitness /\ phase' = "done"
            /\ UNCHANGED <<ctxVars, tables, program, json, loadVars, inputVars>>

Init ==
    /\ program \in Programs /\ json \in JsonFiles[program]
    /\ phase = "loadCircuit"
    /\ signalValues = <<>> /\ componentMemory = <<>> /\ stack = <<>>
    /\ circuitConstants = <<>> /\ templateInsId2IOSignalInfo = <<>>
    /\ InputHashMap = <<>> /\ witness2SignalList = <<>>
    /\ inputSignalAssigned = <<>> /\ inputSignalAssignedCounter = 0
    /\ key = 1 /\ idx = 0 /\ wtns = <<>>

main ==
    loadCircuit \/ Circom_CalcWit \/ loadJson \/ CircuitStep \/ AssertFails \/ Finish

Spec == Init /\ [][main]_vars

\* One thread runs until it ends.
FairSpec == Spec /\ WF_vars(main)

-----------------------------------------------------------------------------
(* Properties.                                                             *)

\* TypeOK: signals are field elements or unset, components refer to components.
TypeOK ==
    /\ phase \in {"loadCircuit", "Circom_CalcWit", "loadJson", "done", "aborted"}
    /\ DOMAIN signalValues \in {{}, 0 .. Sizes[program].total_signal_no - 1}
    /\ \A s \in DOMAIN signalValues : signalValues[s] = Unset \/ signalValues[s] \in Field
    /\ \A c \in DOMAIN componentMemory :
          /\ c < Sizes[program].number_of_components
          /\ Mem(c).idFather \in DOMAIN componentMemory
          /\ Mem(c).inputCounter \in 0 .. UintLimit - 1
    /\ \A k \in DOMAIN stack : stack[k].comp \in DOMAIN componentMemory
    /\ inputSignalAssignedCounter \in 0 .. UintLimit - 1

\* SignalsSetOnce: a signal, once set, keeps its value to the end: the components
\* lie in disjoint parts of signalValues and no statement computes a signal again.
SignalsSetOnce ==
    [][\A s \in DOMAIN signalValues :
          signalValues[s] # Unset => signalValues'[s] = signalValues[s]]_signalValues

\* The places of the inputs of every template, counted from signalStart.
InputPlaces ==
    [merkleProof |-> <<1 .. 2, 1 .. 3, 4 .. 11, 2 .. 5, 1 .. 2, 1 .. 8>>,
     CardCommit |-> <<2 .. 4, 1 .. 4, 2 .. 5>>,
     triangleJumpVerifier |-> <<1 .. 7>>]

\* RunsWithInputs: a component runs only when all its inputs hold values (the
\* counter of missing inputs that starts the _run functions counts each once).
RunsWithInputs ==
    \A k \in DOMAIN stack :
        LET c == stack[k].comp
        IN  \A i \in InputPlaces[program][Mem(c).templateId + 1] : Value(c, i) # Unset

\* WitnessComplete: what is written is the value of every signal of the circuit that
\* is kept, none of it uninitialised, and all components have been made and have run.
WitnessComplete ==
    phase = "done" =>
        /\ DOMAIN componentMemory = 0 .. Sizes[program].number_of_components - 1
        /\ \A c \in DOMAIN componentMemory : c = 0 \/ Mem(c).inputCounter = 0
        /\ \A s \in DOMAIN signalValues : signalValues[s] # Unset
        /\ wtns.nVars = Cardinality(DOMAIN witness2SignalList)

\* TraceNamesCall: the trace in the message of a failed assert is the path of the
\* calls under way, and no two components have the same.
TraceNamesCall ==
    /\ Running => getTrace(Top.comp) =
          [k \in DOMAIN stack |-> Mem(stack[Len(stack) + 1 - k].comp).componentName]
    /\ phase = "done" =>
          \A c, d \in DOMAIN componentMemory : c # d => getTrace(c) # getTrace(d)

\* What the files that were read and written mean: the values of the inputs and the
\* outputs by the witness list.  cardSuit is not listed, being output 2.
SignalAt(s) ==
    LET t == IF program = "CardCommit" /\ s = 5 THEN 2 ELSE s
    IN  wtns.data[CHOOSE k \in DOMAIN witness2SignalList : witness2SignalList[k] = t]
Outcome ==
    CASE phase = "aborted" -> Aborted
      [] phase = "done" ->
            LET sizes == Sizes[program]
            IN  [inputs |-> [k \in 1 .. sizes.main_input_signal_no |->
                                SignalAt(sizes.main_input_signal_start + k - 1)],
                 outputs |-> [k \in 1 .. sizes.main_input_signal_start - 1 |-> SignalAt(k)]]
      [] OTHER -> Pending

\* ComputesFunction: a calculator implements the function of its circuit: for a
\* file whose values cover the inputs it writes the witness of the hash, the root or
\* the constant output for exactly these values, and it aborts only on other files or a
\* failed assert.  A file may cover the inputs although it does not name all of them:
\* setInputSignal takes values that are too many for their input as those of the inputs
\* behind it, unless these are given too.
Function == INSTANCE WitnessFunction WITH outcome <- Outcome,
                json <- [name \in DOMAIN json |-> Scalars(json[name])]
ComputesFunction == Function!Spec

\* Terminates: every run of a calculator ends with a witness or an error.
Terminates == <>(phase \in {"done", "aborted"})
=============================================================================
