---------------------------- MODULE CodeGenProofs ----------------------------
(***************************************************************************)
(* What TLAPS proves of CodeGen for every number of registers, word size,  *)
(* set of names, functions and parameter lists: its types and the shape of *)
(* blocks and argument lists, the stack below the locals, the discipline   *)
(* of the registers and the soundness of the values they cache.            *)
(***************************************************************************)
EXTENDS CodeGen, MachineProofs, SequenceTheorems, FiniteSetTheorems

-----------------------------------------------------------------------------
(* Descriptor tables *)

Tables == [General -> Descriptors(Nat)]

(* Every operation of registers.c gives a table back.                       *)
LEMMA TableTypes ==
    ASSUME NEW table \in Tables, NEW reg \in General
    PROVE  /\ RegistersInit \in Tables
           /\ RegisterUse(table, reg) \in Tables
           /\ RegisterAlloc(table, reg) \in Tables
           /\ RegisterFree(table, reg) \in Tables
           /\ \A address \in Nat : RegisterBindMemory(table, reg, address) \in Tables
           /\ RegisterMarkTemporary(table, reg) \in Tables
           /\ \A forgotten : Forget(table, forgotten) \in Tables
BY DEF Tables, Descriptors, RegistersInit, RegisterUse, RegisterAlloc, RegisterFree,
       RegisterBindMemory, RegisterMarkTemporary, Forget

-----------------------------------------------------------------------------
(* Type correctness *)

(* The shape the proof of TypeOK needs besides itself.                      *)
ShapeInv == TypeOK /\ ListsNest /\ SlotsOwned /\ BasesAgree

LEMMA HeldIsNat == TypeOK => Held \in Nat
<1> SUFFICES ASSUME TypeOK, calls # <<>> PROVE Held \in Nat
  BY DEF Held
<1>1. Len(calls) \in Nat \ {0} /\ calls \in Seq(ArgumentLists)
  BY EmptySeq DEF TypeOK
<1>2. calls[Len(calls)] \in ArgumentLists
  BY <1>1
<1>3. QED
  BY <1>2 DEF Held, ArgumentLists

LEMMA TopIsGeneral ==
    ASSUME TypeOK
    PROVE  /\ Len(operands) \in Nat
           /\ Len(operands) > 0 => Top \in General /\ Top \in Registers /\ Pop \in Seq(General)
           /\ Len(operands) > 1 => /\ operands[Len(operands) - 1] \in General
                                   /\ operands[Len(operands) - 1] \in Registers
BY RegisterNumbers DEF TypeOK, Top, Pop

LEMMA EventTypes ==
    ASSUME NEW kind \in Kinds, NEW subject \in Subjects, NEW shown \in Seq(Int)
    PROVE  Event(kind, subject, shown) \in Events
BY DEF Event, Events

LEMMA PushTemporaryType ==
    ASSUME TypeOK, NEW reg \in General, NEW machine \in MachineStates, PushTemporary(reg, machine),
           event' \in Events
    PROVE  TypeOK'
<1>1. RegisterMarkTemporary(RegisterAlloc(registers, reg), reg) \in Tables
  BY TableTypes DEF TypeOK, Tables
<1>2. QED
  BY <1>1 DEF TypeOK, PushTemporary, state, Tables

LEMMA ExpressionType ==
    ASSUME TypeOK, Expression
    PROVE  TypeOK'
<1> <<>> \in Seq(Int) /\ \A i \in Int : <<i>> \in Seq(Int)
  OBVIOUS
<1> /\ {"literal", "read", "address", "binary", "not", "follow", "exit"} \subseteq Kinds
    /\ Nothing \in Subjects /\ Names \subseteq Subjects /\ BinaryOps \subseteq Subjects
  BY DEF Kinds, Subjects
<1> cpu \in MachineStates /\ registers \in Tables
  BY DEF TypeOK, Tables
<1> \A i \in DOMAIN symbols : symbols[i].place \in Nat /\ symbols[i].place \in Int
  <2>1. symbols \in Seq(Symbols)
    BY DEF TypeOK
  <2>2. \A i \in DOMAIN symbols : symbols[i] \in Symbols
    BY <2>1
  <2>3. QED
    BY <2>2 DEF Symbols
<1> General \subseteq Registers /\ REG_TMP \in Registers /\ REG_FP \in Registers
  BY RegisterNumbers
<1>1. ASSUME NEW value \in Literals, ConstantLoad(value)
      PROVE  TypeOK'
  <2>1. value \in Int
    BY CodeGenAssumption
  <2>2. \A reg \in General : Afc(cpu, reg, value) \in MachineStates
    BY <2>1, InstructionTypes
  <2>3. event' \in Events
    BY <1>1, <2>1, EventTypes DEF ConstantLoad, Saw
  <2>4. QED
    BY <1>1, <2>2, <2>3, PushTemporaryType DEF ConstantLoad
<1>2. ASSUME NEW x \in Names, LoadUnknown(x)
      PROVE  TypeOK'
  <2>1. \A reg \in General : Afc(cpu, reg, 0) \in MachineStates
    BY InstructionTypes
  <2>2. event' \in Events
    BY <1>2, EventTypes DEF LoadUnknown, Saw
  <2>3. QED
    BY <1>2, <2>1, <2>2, PushTemporaryType DEF LoadUnknown
<1>3. ASSUME NEW x \in Names, LoadLocal(x)
      PROVE  TypeOK'
  <2>1. \A reg \in General, i \in DOMAIN symbols :
            LoadR(ComputeLocalAddress(cpu, symbols[i].place), reg, REG_TMP) \in MachineStates
    BY InstructionTypes, SequenceTypes
  <2>2. event' \in Events
    BY <1>3, EventTypes DEF LoadLocal, Saw
  <2>3. QED
    BY <1>3, <2>1, <2>2, PushTemporaryType DEF LoadLocal
<1>4. ASSUME NEW x \in Names, LoadCached(x)
      PROVE  TypeOK'
  <2>1. event' \in Events
    BY <1>4, EventTypes DEF LoadCached, Saw
  <2>2. QED
    <3>1. \A reg \in General : RegisterUse(registers, reg) \in Tables
      BY TableTypes
    <3>2. QED
      BY <1>4, <2>1, <3>1 DEF LoadCached, TypeOK, Tables, state
<1>5. ASSUME NEW x \in Names, LoadGlobal(x)
      PROVE  TypeOK'
  <2>1. event' \in Events
    BY <1>5, EventTypes DEF LoadGlobal, Saw
  <2>2. \A reg \in General, i \in DOMAIN symbols :
            /\ Load(cpu, reg, symbols[i].place) \in MachineStates
            /\ RegisterBindMemory(RegisterAlloc(registers, reg), reg, symbols[i].place) \in Tables
    BY InstructionTypes, TableTypes
  <2>3. QED
    BY <1>5, <2>1, <2>2 DEF LoadGlobal, TypeOK, Tables, state
<1>6. ASSUME NEW x \in Names, AddressOfLocal(x)
      PROVE  TypeOK'
  <2>1. "SUB" \in AllBinaryOps
    BY DEF AllBinaryOps
  <2>2. \A reg \in General, i \in DOMAIN symbols :
            Ternary(Afc(cpu, reg, symbols[i].place), "SUB", reg, REG_FP, reg) \in MachineStates
    BY <2>1, InstructionTypes
  <2>3. event' \in Events
    BY <1>6, EventTypes DEF AddressOfLocal, Saw
  <2>4. QED
    BY <1>6, <2>2, <2>3, PushTemporaryType DEF AddressOfLocal
<1>7. ASSUME NEW x \in Names, AddressOfGlobal(x)
      PROVE  TypeOK'
  <2>1. \A reg \in General, i \in DOMAIN symbols : Afc(cpu, reg, symbols[i].place) \in MachineStates
    BY InstructionTypes
  <2>2. event' \in Events
    BY <1>7, EventTypes DEF AddressOfGlobal, Saw
  <2>3. QED
    BY <1>7, <2>1, <2>2, PushTemporaryType DEF AddressOfGlobal
<1>8. ASSUME NEW x \in Names, AddressOfUnknown(x)
      PROVE  TypeOK'
  <2>1. event' \in Events
    BY <1>8, EventTypes DEF AddressOfUnknown, Saw
  <2>2. QED
    <3>1. \A reg \in General : RegisterAlloc(registers, reg) \in Tables
      BY TableTypes
    <3>2. QED
      BY <1>8, <2>1, <3>1 DEF AddressOfUnknown, TypeOK, Tables, state
<1>9. ASSUME NEW op \in BinaryOps, Binary(op)
      PROVE  TypeOK'
  <2>1. event' \in Events
    BY <1>9, EventTypes DEF Binary, Saw
  <2>2. Len(operands) > 1 /\ op \in AllBinaryOps
    BY <1>9, HeldIsNat, TopIsGeneral, CodeGenAssumption DEF Binary
  <2>3. /\ Ternary(cpu, op, operands[Len(operands) - 1], operands[Len(operands) - 1], Top)
               \in MachineStates
        /\ RegisterMarkTemporary(RegisterFree(registers, Top), operands[Len(operands) - 1])
               \in Tables
    <3>1. ASSUME NEW left \in General, NEW right \in General
          PROVE  /\ Ternary(cpu, op, left, left, right) \in MachineStates
                 /\ RegisterMarkTemporary(RegisterFree(registers, right), left) \in Tables
      <4>1. left \in Registers /\ right \in Registers
        OBVIOUS
      <4>2. RegisterFree(registers, right) \in Tables
        BY TableTypes
      <4>3. QED
        BY <2>2, <4>1, <4>2, InstructionTypes, TableTypes
    <3>2. Top \in General /\ operands[Len(operands) - 1] \in General
      BY <2>2, TopIsGeneral
    <3>3. QED
      BY <3>1, <3>2, Zenon
  <2>4. QED
    BY <1>9, <2>1, <2>2, <2>3, TopIsGeneral DEF Binary, TypeOK, Tables, state
<1>10. ASSUME NEW kind \in Kinds, NEW machine, Overwrite(kind, machine),
              Top \in General => machine \in MachineStates
       PROVE  TypeOK'
  <2>1. event' \in Events
    BY <1>10, EventTypes DEF Overwrite, Saw
  <2>2. Top \in General
    BY <1>10, HeldIsNat, TopIsGeneral DEF Overwrite
  <2>3. RegisterMarkTemporary(registers, Top) \in Tables
    BY <2>2, TableTypes
  <2>4. QED
    BY <1>10, <2>1, <2>2, <2>3 DEF Overwrite, TypeOK, Tables, state
<1>11. Unary => TypeOK'
  BY <1>10, InstructionTypes DEF Unary
<1>12. PointerLoad => TypeOK'
  BY <1>10, InstructionTypes DEF PointerLoad
<1>13. Exit => TypeOK'
  <2>1. Exit => event' \in Events
    BY EventTypes DEF Exit, Saw
  <2>2. QED
    BY <2>1 DEF Exit, TypeOK, state, Phases
<1>14. QED
  BY <1>1, <1>2, <1>3, <1>4, <1>5, <1>6, <1>7, <1>8, <1>9, <1>11, <1>12, <1>13
     DEF Expression, OutOfRegisters

LEMMA ElsewhereType ==
    ASSUME TypeOK, Elsewhere
    PROVE  /\ cpu' \in MachineStates
           /\ cpu'.r[REG_SP] = cpu.r[REG_SP] /\ cpu'.r[REG_FP] = cpu.r[REG_FP]
<1>1. PICK r \in RegisterFiles, m \in Memories :
          cpu' = [r |-> [r EXCEPT ![REG_SP] = cpu.r[REG_SP], ![REG_FP] = cpu.r[REG_FP]], m |-> m]
  BY DEF Elsewhere
<1>2. r \in [Registers -> Word] /\ m \in [Word -> Word] /\ cpu \in MachineStates
  BY CodeGenAssumption DEF TypeOK
<1>3. REG_SP \in Registers /\ REG_FP \in Registers /\ REG_SP # REG_FP
  BY RegisterNumbers, LastGeneralAssumption DEF REG_SP, REG_FP
<1>4. cpu.r[REG_SP] \in Word /\ cpu.r[REG_FP] \in Word
  BY <1>2, <1>3, MachineParts
<1>5. [r EXCEPT ![REG_SP] = cpu.r[REG_SP], ![REG_FP] = cpu.r[REG_FP]] \in [Registers -> Word]
  BY <1>2, <1>3, <1>4
<1>6. QED
  BY <1>1, <1>2, <1>3, <1>5 DEF MachineStates

(* The two ways to declare a variable, whatever value goes in.              *)
LEMMA DeclarationType ==
    ASSUME TypeOK, NEW x \in Names, NEW machine \in MachineStates, NEW table \in Tables,
           NEW reg \in General,
           \/ DeclareLocal(x, machine, reg)
           \/ DeclareGlobal(x, machine, table, reg)
    PROVE  /\ symbols' \in Seq(Symbols)
           /\ next_global_address' \in Nat /\ next_local_offset' \in Nat
           /\ registers' \in Tables /\ cpu' \in MachineStates
<1> /\ symbols \in Seq(Symbols) /\ next_global_address \in Nat /\ next_local_offset \in Nat
    /\ next_global_address \in Int /\ next_local_offset \in Int
    /\ reg \in Registers /\ REG_TMP \in Registers
  BY RegisterNumbers DEF TypeOK
<1>1. \A storage \in {"global", "local"}, place \in Nat :
          Declare(x, storage, place) => symbols' \in Seq(Symbols)
  <2> SUFFICES ASSUME NEW storage \in {"global", "local"}, NEW place \in Nat,
                      Declare(x, storage, place)
               PROVE  symbols' \in Seq(Symbols)
    OBVIOUS
  <2>1. [name |-> x, storage |-> storage, place |-> place] \in Symbols
    BY DEF Symbols
  <2>2. QED
    BY <2>1 DEF Declare
<1>2. CASE DeclareLocal(x, machine, reg)
  <2>1. StackPush(StoreR(ComputeLocalAddress(machine, next_local_offset), REG_TMP, reg))
            \in MachineStates
    BY SequenceTypes, InstructionTypes
  <2>2. RegistersInit \in Tables
    BY TableTypes
  <2>3. QED
    BY <1>1, <1>2, <2>1, <2>2 DEF DeclareLocal
<1>3. CASE DeclareGlobal(x, machine, table, reg)
  <2>1. Store(machine, next_global_address, reg) \in MachineStates
    BY InstructionTypes
  <2>2. RegisterForgetMemory(table, next_global_address) \in Tables
    BY TableTypes DEF RegisterForgetMemory
  <2>3. RegisterBindMemory(RegisterForgetMemory(table, next_global_address),
                           reg, next_global_address) \in Tables
    BY <2>2, TableTypes
  <2>4. registers' \in Tables
    BY <1>3, <2>3, TableTypes DEF DeclareGlobal
  <2>5. QED
    BY <1>1, <1>3, <2>1, <2>4 DEF DeclareGlobal
<1>4. QED
  BY <1>2, <1>3

LEMMA SavedType == TypeOK => Cardinality(SavedRegisters) \in Nat
                             /\ \A reg : Cardinality({s \in SavedRegisters : s < reg}) \in Nat
<1>1. IsFiniteSet(General)
  BY LastGeneralAssumption, FS_Interval DEF General, REG_FIRST_GENERAL, REG_LAST_GENERAL
<1>2. SavedRegisters \subseteq General
  BY DEF SavedRegisters, InUse
<1>3. \A reg : IsFiniteSet({s \in SavedRegisters : s < reg})
  BY <1>1, <1>2, FS_Subset
<1>4. QED
  BY <1>1, <1>2, <1>3, FS_Subset, FS_CardinalityType

(* The arguments of the innermost list are the top of the operands.         *)
LEMMA ArgumentsType ==
    ASSUME TypeOK, ListsNest, calls # <<>>
    PROVE  /\ Len(calls) \in Nat \ {0}
           /\ calls[Len(calls)] \in ArgumentLists
           /\ calls[Len(calls)].base \in Nat /\ calls[Len(calls)].count \in Nat
           /\ Held = calls[Len(calls)].base + calls[Len(calls)].count
           /\ Held <= Len(operands)
           /\ Arguments \in Seq(General)
           /\ Len(Arguments) = calls[Len(calls)].count
           /\ \A i \in DOMAIN Arguments :
                /\ calls[Len(calls)].base + i \in DOMAIN operands
                /\ Arguments[i] = operands[calls[Len(calls)].base + i]
           /\ SubSeq(operands, 1, calls[Len(calls)].base) \in Seq(General)
<1>1. Len(calls) \in Nat \ {0} /\ calls \in Seq(ArgumentLists)
  BY EmptySeq DEF TypeOK
<1>2. calls[Len(calls)] \in ArgumentLists
  BY <1>1
<1>3. /\ calls[Len(calls)].base \in Nat /\ calls[Len(calls)].count \in Nat
      /\ Held = calls[Len(calls)].base + calls[Len(calls)].count
      /\ Held <= Len(operands)
  BY <1>2 DEF ArgumentLists, Held, ListsNest
<1> DEFINE base == calls[Len(calls)].base
           count == calls[Len(calls)].count
<1>4. operands \in Seq(General) /\ base \in Nat /\ count \in Nat /\ Held = base + count
      /\ base + count <= Len(operands) /\ Arguments = SubSeq(operands, base + 1, base + count)
  BY <1>3 DEF TypeOK, Arguments
<1> HIDE DEF base, count
<1>5. /\ Arguments \in Seq(General)
      /\ Len(Arguments) = count
      /\ \A i \in DOMAIN Arguments : base + i \in DOMAIN operands /\ Arguments[i] = operands[base + i]
      /\ SubSeq(operands, 1, base) \in Seq(General)
  BY <1>4
<1>6. QED
  BY <1>1, <1>2, <1>3, <1>5 DEF base, count

LEMMA CallerMemoryType ==
    ASSUME TypeOK, ListsNest, calls # <<>>
    PROVE  CallerMemory \in [Word -> Word]
<1>1. SavedRegisters \subseteq Registers
  BY RegisterNumbers DEF SavedRegisters, InUse
<1>2. \A i \in DOMAIN Arguments : Arguments[i] \in Registers
  BY ArgumentsType, RegisterNumbers
<1>3. /\ \A reg \in Registers : cpu.r[reg] \in Word
      /\ \A a \in Word : cpu.m[a] \in Word
  BY MachineParts DEF TypeOK
<1> SUFFICES ASSUME NEW a \in Word
             PROVE  CallerMemory[a] \in Word
  BY DEF CallerMemory
<1>4. CASE \E reg \in SavedRegisters : a = SavedCell(reg)
  <2> DEFINE saved == CHOOSE reg \in SavedRegisters : a = SavedCell(reg)
  <2>1. saved \in SavedRegisters
    BY <1>4
  <2>2. CallerMemory[a] = cpu.r[saved]
    BY <1>4 DEF CallerMemory, SavedCells
  <2>3. QED
    BY <1>1, <1>3, <2>1, <2>2
<1>5. CASE /\ ~ \E reg \in SavedRegisters : a = SavedCell(reg)
           /\ \E i \in DOMAIN Arguments : a = PushedArgumentCell(i)
  BY <1>2, <1>3, <1>5 DEF CallerMemory, SavedCells
<1>6. CASE /\ ~ \E reg \in SavedRegisters : a = SavedCell(reg)
           /\ ~ \E i \in DOMAIN Arguments : a = PushedArgumentCell(i)
  BY <1>3, <1>6 DEF CallerMemory, SavedCells
<1>7. QED
  BY <1>4, <1>5, <1>6

(* What a call does to the parser's side: the arguments are consumed, the   *)
(* result takes a register nobody holds.                                    *)
LEMMA CallType ==
    ASSUME TypeOK, ListsNest, NEW f \in FunctionNames, FunctionCall(f)
    PROVE  TypeOK'
<1> DEFINE freed == [reg \in General |-> IF reg \in ArgumentRegisters
                                         THEN [registers[reg] EXCEPT !.in_use = FALSE]
                                         ELSE registers[reg]]
           table == RegisterForgetAvailable(freed)
<1>1. calls # <<>>
  BY DEF FunctionCall
<1>2. freed \in Tables
  BY DEF TypeOK, Tables, Descriptors
<1>3. table \in Tables
  <2> HIDE DEF freed
  <2>1. 1 \in General
    BY LastGeneralAssumption DEF General, REG_FIRST_GENERAL, REG_LAST_GENERAL
  <2>2. \A forgotten : Forget(freed, forgotten) \in Tables
    BY <1>2, <2>1, TableTypes
  <2>3. QED
    BY <2>2 DEF RegisterForgetAvailable
<1>4. PICK reg \in General, r \in RegisterFiles, m \in Memories :
          /\ registers' = RegisterMarkTemporary(RegisterAlloc(table, reg), reg)
          /\ operands' = Append(SubSeq(operands, 1, calls[Len(calls)].base), reg)
          /\ CallReturns(reg, r, m)
  BY DEF FunctionCall
<1> HIDE DEF table, freed
<1>5. registers' \in Tables
  <2>1. RegisterAlloc(table, reg) \in Tables
    BY <1>3, TableTypes
  <2>2. QED
    BY <1>4, <2>1, TableTypes
<1>6. operands' \in Seq(General)
  BY <1>1, <1>4, ArgumentsType
<1>7. cpu' \in MachineStates
  <2> DEFINE back == [a \in Word |-> IF a \in SavedCells THEN CallerMemory[a] ELSE m[a]]
  <2>1. r \in [Registers -> Word] /\ m \in [Word -> Word]
    BY CodeGenAssumption
  <2>2. back \in [Word -> Word]
    BY <1>1, <2>1, CallerMemoryType
  <2>3. \A k \in Registers : cpu.r[k] \in Word
    BY MachineParts DEF TypeOK
  <2>4. \A k \in SavedRegisters : SavedCell(k) \in Word
    <3>1. cpu.r[REG_SP] \in Int
      BY <2>3, RegisterNumbers DEF Word
    <3> SUFFICES ASSUME NEW k \in SavedRegisters PROVE SavedCell(k) \in Word
      OBVIOUS
    <3> DEFINE below == Cardinality({s \in SavedRegisters : s < k})
    <3>2. below \in Nat /\ SavedCell(k) = Byte(cpu.r[REG_SP] - below)
      BY SavedType DEF SavedCell
    <3> HIDE DEF below
    <3>3. cpu.r[REG_SP] - below \in Int
      BY <3>1, <3>2
    <3>4. QED
      BY <3>2, <3>3, ByteIsWord
  <2>5. 1 \in Word
    BY WordSizeAssumption, LastGeneralAssumption DEF Word
  <2>6. /\ cpu'.m = back
        /\ cpu'.r = [k \in Registers |->
                        CASE k = reg -> r[REG_RETURN]
                          [] k \in {REG_SP, REG_FP} -> cpu.r[k]
                          [] k \in SavedRegisters -> back[SavedCell(k)]
                          [] k = REG_TMP /\ SavedRegisters \cup ArgumentRegisters # {} -> 1
                          [] OTHER -> r[k]]
        /\ cpu' = [r |-> cpu'.r, m |-> cpu'.m]
    BY <1>4 DEF CallReturns
  <2> HIDE DEF back
  <2>7. REG_RETURN \in Registers
    BY RegisterNumbers
  <2>8. cpu'.r \in [Registers -> Word]
    BY <2>1, <2>2, <2>3, <2>4, <2>5, <2>6, <2>7
  <2>9. QED
    BY <2>2, <2>6, <2>8 DEF MachineStates
<1>8. calls' \in Seq(ArgumentLists)
  <2>1. calls \in Seq(ArgumentLists) /\ calls' = SubSeq(calls, 1, Len(calls) - 1)
    BY DEF FunctionCall, TypeOK
  <2>2. QED
    BY <1>1, <2>1, ArgumentsType
<1>9. event' \in Events
  <2> DEFINE shown == [i \in DOMAIN Arguments |->
                          CallerMemory[ArgumentCell(CalleeFrame, Len(Arguments), i - 1)]]
  <2>1. Arguments \in Seq(General) /\ Len(Arguments) \in Nat /\ DOMAIN Arguments = 1..Len(Arguments)
    BY <1>1, ArgumentsType
  <2>2. CalleeFrame \in Int
    <3> cpu.r[REG_SP] \in Int
      BY MachineParts, RegisterNumbers DEF TypeOK
    <3>1. cpu.r[REG_SP] - Cardinality(SavedRegisters) - Len(Arguments) - 2 \in Int
      BY <2>1, SavedType
    <3>2. CalleeFrame \in Word
      BY <3>1, ByteIsWord DEF CalleeFrame
    <3>3. QED
      BY <3>2, WordSizeAssumption DEF Word
  <2>3. \A i \in DOMAIN Arguments : ArgumentCell(CalleeFrame, Len(Arguments), i - 1) \in Word
    <3>1. \A i \in DOMAIN Arguments : CalleeFrame + Len(Arguments) - (i - 1) + 2 \in Int
      BY <2>1, <2>2
    <3>2. QED
      BY <3>1, ByteIsWord DEF ArgumentCell
  <2>4. \A i \in DOMAIN Arguments : shown[i] \in Int
    BY <1>1, <2>3, CallerMemoryType, ByteIsWord
  <2>5. shown \in Seq(Int)
    <3>1. shown \in [1..Len(Arguments) -> Int]
      BY <2>1, <2>4
    <3> HIDE DEF shown
    <3>2. QED
      BY <2>1, <3>1
  <2>6. event' = Event("call", f, shown)
    BY DEF FunctionCall, Saw
  <2> HIDE DEF shown
  <2>7. QED
    BY <2>5, <2>6, EventTypes DEF Kinds, Subjects
<1>10. QED
  BY <1>5, <1>6, <1>7, <1>8, <1>9 DEF FunctionCall, TypeOK, state, Tables

LEMMA CallExpressionType ==
    ASSUME TypeOK, ListsNest, CallExpression
    PROVE  TypeOK'
<1> <<>> \in Seq(Int) /\ {"list", "argument", "exit"} \subseteq Kinds /\ Nothing \in Subjects
  BY DEF Kinds, Subjects
<1>1. BeginFunctionArguments => TypeOK'
  <2> SUFFICES ASSUME BeginFunctionArguments PROVE TypeOK'
    OBVIOUS
  <2>1. [base |-> Len(operands), count |-> 0] \in ArgumentLists
    BY DEF TypeOK, ArgumentLists
  <2>2. event' \in Events
    BY EventTypes DEF BeginFunctionArguments, Saw
  <2>3. QED
    BY <2>1, <2>2 DEF BeginFunctionArguments, TypeOK, state
<1>2. AddFunctionArgument => TypeOK'
  <2> SUFFICES ASSUME AddFunctionArgument PROVE TypeOK'
    OBVIOUS
  <2>1. calls # <<>> /\ Len(calls) \in DOMAIN calls
    BY ArgumentsType DEF AddFunctionArgument, TypeOK
  <2>2. [calls[Len(calls)] EXCEPT !.count = @ + 1] \in ArgumentLists
    BY <2>1, ArgumentsType DEF ArgumentLists
  <2>3. calls' \in Seq(ArgumentLists)
    BY <2>1, <2>2 DEF AddFunctionArgument, TypeOK
  <2>4. event' \in Events
    BY EventTypes DEF AddFunctionArgument, Saw
  <2>5. QED
    BY <2>3, <2>4 DEF AddFunctionArgument, TypeOK, state
<1>3. ASSUME NEW f \in FunctionNames, FunctionCall(f)
      PROVE  TypeOK'
  BY <1>3, CallType
<1>4. Exit => TypeOK'
  <2>1. Exit => event' \in Events
    BY EventTypes DEF Exit, Saw
  <2>2. QED
    BY <2>1 DEF Exit, TypeOK, state, Phases
<1>5. QED
  BY <1>1, <1>2, <1>3, <1>4 DEF CallExpression, CallFails

(* The values the parser holds when a statement ends.                       *)
LEMMA OneValueType ==
    ASSUME TypeOK, Len(operands) > 0
    PROVE  /\ Top \in General /\ Top \in Registers
           /\ cpu.r[Top] \in Word /\ cpu.r[Top] \in Int
           /\ RegisterFree(registers, Top) \in Tables
           /\ cpu \in MachineStates
<1>1. Top \in General /\ Top \in Registers
  BY TopIsGeneral
<1>2. QED
  BY <1>1, MachineParts, TableTypes DEF TypeOK, Tables

LEMMA ReturnEventType ==
    ASSUME NEW machine \in MachineStates
    PROVE  <<machine.r[REG_RETURN], machine.r[REG_SP], machine.r[REG_FP], machine.r[REG_RA]>>
               \in Seq(Int)
<1>1. /\ machine.r[REG_RETURN] \in Int /\ machine.r[REG_SP] \in Int
      /\ machine.r[REG_FP] \in Int /\ machine.r[REG_RA] \in Int
  BY MachineParts, RegisterNumbers
<1>2. QED
  BY <1>1

LEMMA StackPopsType ==
    ASSUME NEW machine \in MachineStates, NEW count \in Int
    PROVE  StackPops(machine, count) \in MachineStates
<1>1. machine.r \in [Registers -> Word] /\ 1 \in Word /\ machine.r[REG_SP] \in Int
  BY MachineParts, RegisterNumbers, WordSizeAssumption, LastGeneralAssumption DEF MachineStates, Word
<1>2. Byte(machine.r[REG_SP] + count) \in Word
  BY <1>1, ByteIsWord
<1>3. QED
  BY <1>1, <1>2, RegisterNumbers DEF StackPops, MachineStates

LEMMA StatementType ==
    ASSUME ShapeInv, Statement
    PROVE  TypeOK'
<1> USE DEF ShapeInv
<1> <<>> \in Seq(Int) /\ \A i \in Int : <<i>> \in Seq(Int)
  OBVIOUS
<1> /\ {"declare", "assign", "store", "print", "discard", "return", "branch", "join", "open",
        "close"} \subseteq Kinds
    /\ Nothing \in Subjects /\ Names \subseteq Subjects
  BY DEF Kinds, Subjects
<1> cpu \in MachineStates /\ registers \in Tables /\ <<>> \in Seq(General) /\ 1 \in General
  BY LastGeneralAssumption DEF TypeOK, Tables, General, REG_FIRST_GENERAL, REG_LAST_GENERAL
<1>a. RegistersInit \in Tables
  BY TableTypes
<1>1. ASSUME NEW x \in Names, Declaration(x)
      PROVE  TypeOK'
  <2>1. event' \in Events
    BY <1>1, EventTypes DEF Declaration, Saw
  <2>2. Len(operands) > 0
    BY <1>1 DEF Declaration, OneValue
  <2>3. \/ DeclareLocal(x, cpu, Top)
        \/ DeclareGlobal(x, cpu, registers, Top)
    BY <1>1 DEF Declaration
  <2>4. /\ symbols' \in Seq(Symbols)
        /\ next_global_address' \in Nat /\ next_local_offset' \in Nat
        /\ registers' \in Tables /\ cpu' \in MachineStates
    BY <2>2, <2>3, DeclarationType, OneValueType
  <2>5. QED
    BY <1>1, <2>1, <2>4 DEF Declaration, TypeOK, Tables
<1>2. ASSUME NEW x \in Names, EmptyDeclaration(x)
      PROVE  TypeOK'
  <2>1. event' \in Events
    BY <1>2, EventTypes DEF EmptyDeclaration, Saw
  <2>2. PICK reg \in General :
            \/ DeclareLocal(x, Afc(cpu, reg, 0), reg)
            \/ DeclareGlobal(x, Afc(cpu, reg, 0),
                             RegisterMarkTemporary(RegisterAlloc(registers, reg), reg), reg)
    BY <1>2 DEF EmptyDeclaration
  <2>3. Afc(cpu, reg, 0) \in MachineStates
    BY InstructionTypes, RegisterNumbers
  <2>4. RegisterMarkTemporary(RegisterAlloc(registers, reg), reg) \in Tables
    <3>1. RegisterAlloc(registers, reg) \in Tables
      BY TableTypes
    <3>2. QED
      BY <3>1, TableTypes
  <2>5. /\ symbols' \in Seq(Symbols)
        /\ next_global_address' \in Nat /\ next_local_offset' \in Nat
        /\ registers' \in Tables /\ cpu' \in MachineStates
    BY <2>2, <2>3, <2>4, DeclarationType
  <2>6. QED
    BY <1>2, <2>1, <2>5 DEF EmptyDeclaration, TypeOK, Tables
<1>3. ASSUME NEW x \in Names, AssignUnknown(x)
      PROVE  TypeOK'
  <2>1. event' \in Events
    BY <1>3, EventTypes DEF AssignUnknown, Saw
  <2>2. RegisterFree(registers, Top) \in Tables
    BY <1>3, OneValueType DEF AssignUnknown, OneValue
  <2>3. QED
    BY <1>3, <2>1, <2>2 DEF AssignUnknown, TypeOK, Tables, state
<1>b. \A i \in DOMAIN symbols : symbols[i].place \in Nat /\ symbols[i].place \in Int
  <2>1. \A i \in DOMAIN symbols : symbols[i] \in Symbols
    BY DEF TypeOK
  <2>2. QED
    BY <2>1 DEF Symbols
<1>4. ASSUME NEW x \in Names, AssignLocal(x)
      PROVE  TypeOK'
  <2>1. event' \in Events
    BY <1>4, EventTypes DEF AssignLocal, Saw
  <2>2. Top \in Registers
    BY <1>4, OneValueType DEF AssignLocal, OneValue
  <2>3. \A i \in DOMAIN symbols :
            StoreR(ComputeLocalAddress(cpu, symbols[i].place), REG_TMP, Top) \in MachineStates
    BY <1>b, <2>2, InstructionTypes, SequenceTypes, RegisterNumbers
  <2>4. QED
    BY <1>4, <1>a, <2>1, <2>3 DEF AssignLocal, TypeOK, Tables, state
<1>5. ASSUME NEW x \in Names, AssignGlobal(x)
      PROVE  TypeOK'
  <2>1. event' \in Events
    BY <1>5, EventTypes DEF AssignGlobal, Saw
  <2>2. Top \in General /\ Top \in Registers
    BY <1>5, OneValueType DEF AssignGlobal, OneValue
  <2>3. ASSUME NEW address \in Nat
        PROVE  /\ Store(cpu, address, Top) \in MachineStates
               /\ RegisterFree(RegisterBindMemory(RegisterForgetMemory(registers, address),
                                                  Top, address), Top) \in Tables
    <3>1. Store(cpu, address, Top) \in MachineStates
      BY <2>2, InstructionTypes
    <3>2. RegisterForgetMemory(registers, address) \in Tables
      BY TableTypes DEF RegisterForgetMemory
    <3>3. RegisterBindMemory(RegisterForgetMemory(registers, address), Top, address) \in Tables
      BY <2>2, <3>2, TableTypes
    <3>4. QED
      BY <2>2, <3>1, <3>3, TableTypes
  <2>4. QED
    BY <1>5, <1>b, <2>1, <2>3 DEF AssignGlobal, TypeOK, Tables, state
<1>6. PointerStore => TypeOK'
  <2> SUFFICES ASSUME PointerStore PROVE TypeOK'
    OBVIOUS
  <2>1. event' \in Events
    BY EventTypes DEF PointerStore, Saw
  <2>2. operands[1] \in Registers /\ operands[2] \in Registers
    <3>1. operands \in Seq(General) /\ Len(operands) = 2
      BY DEF PointerStore, TypeOK
    <3>2. \A i \in 1..Len(operands) : operands[i] \in General
      BY <3>1, ElementOfSeq
    <3>3. operands[1] \in General /\ operands[2] \in General
      BY <3>1, <3>2
    <3>4. QED
      BY <3>3, RegisterNumbers
  <2>3. StoreR(cpu, operands[1], operands[2]) \in MachineStates
    BY <2>2, InstructionTypes
  <2>4. QED
    BY <1>a, <2>1, <2>3 DEF PointerStore, TypeOK, Tables, state
<1>7. PrintStatement => TypeOK'
  <2> SUFFICES ASSUME PrintStatement PROVE TypeOK'
    OBVIOUS
  <2>1. cpu.r[Top] \in Int /\ RegisterFree(registers, Top) \in Tables
    BY OneValueType DEF PrintStatement, OneValue
  <2>2. event' \in Events
    BY <2>1, EventTypes DEF PrintStatement, Saw
  <2>3. QED
    BY <2>1, <2>2 DEF PrintStatement, TypeOK, Tables, state
<1>8. DiscardExpression => TypeOK'
  <2> SUFFICES ASSUME DiscardExpression PROVE TypeOK'
    OBVIOUS
  <2>1. event' \in Events
    BY EventTypes DEF DiscardExpression, Saw
  <2>2. QED
    BY <1>a, <2>1 DEF DiscardExpression, TypeOK, Tables, state
<1>9. ReturnStatement => TypeOK'
  <2> SUFFICES ASSUME ReturnStatement PROVE TypeOK'
    OBVIOUS
  <2>1. Top \in Registers
    BY OneValueType DEF ReturnStatement, OneValue
  <2>2. FunctionSuffix(Cop(cpu, REG_RETURN, Top)) \in MachineStates
    BY <2>1, InstructionTypes, SequenceTypes, RegisterNumbers
  <2>3. event' \in Events
    BY <2>2, ReturnEventType, EventTypes DEF ReturnStatement, Saw
  <2>4. cpu' \in MachineStates
    BY ElsewhereType DEF ReturnStatement
  <2>5. QED
    BY <1>a, <2>3, <2>4 DEF ReturnStatement, TypeOK, Tables, state
<1>10. ConditionalJump => TypeOK'
  <2> SUFFICES ASSUME ConditionalJump PROVE TypeOK'
    OBVIOUS
  <2>1. cpu.r[Top] \in Int
    BY OneValueType DEF ConditionalJump, OneValue
  <2>2. event' \in Events
    BY <2>1, EventTypes DEF ConditionalJump, Saw
  <2>3. cpu' \in MachineStates
    BY ElsewhereType DEF ConditionalJump
  <2>4. QED
    BY <1>a, <2>2, <2>3 DEF ConditionalJump, TypeOK, Tables, state
<1>11. Join => TypeOK'
  <2> SUFFICES ASSUME Join PROVE TypeOK'
    OBVIOUS
  <2>1. event' \in Events
    BY EventTypes DEF Join, Saw
  <2>2. cpu' \in MachineStates
    BY ElsewhereType DEF Join
  <2>3. QED
    BY <1>a, <2>1, <2>2 DEF Join, TypeOK, Tables, state
<1>12. BeginBlock => TypeOK'
  <2> SUFFICES ASSUME BeginBlock PROVE TypeOK'
    OBVIOUS
  <2>1. event' \in Events
    BY EventTypes DEF BeginBlock, Saw
  <2>2. OpenScope \in Scopes
    BY DEF TypeOK, Scopes, OpenScope
  <2>3. phase' \in Phases
    BY DEF BeginBlock, Phases, TypeOK
  <2>4. QED
    BY <2>1, <2>2, <2>3 DEF BeginBlock, TypeOK
<1>13. EndBlock => TypeOK'
  <2> SUFFICES ASSUME EndBlock PROVE TypeOK'
    OBVIOUS
  <2>1. event' \in Events
    BY EventTypes DEF EndBlock, Saw
  <2> DEFINE scope == scopes[Len(scopes)]
  <2>2. scope \in Scopes /\ Len(scopes) \in DOMAIN scopes
    BY EmptySeq DEF EndBlock, TypeOK
  <2>3. scope.symbol_table_base \in Nat /\ scope.local_offset_base \in Nat
    BY <2>2 DEF Scopes
  <2>4. cpu' \in MachineStates
    <3> DEFINE count == next_local_offset - scope.local_offset_base
    <3>1. cpu' = StackPops(cpu, count)
      BY DEF EndBlock
    <3>2. count \in Int /\ cpu \in MachineStates
      BY <2>3 DEF TypeOK
    <3> HIDE DEF count
    <3>3. QED
      BY <3>1, <3>2, StackPopsType
  <2>5. scope.symbol_table_base <= Len(symbols)
    <3>1. InsideFunction
      BY DEF EndBlock, StatementStart, InBody, Bodies, InsideFunction
    <3>2. /\ scope.symbol_table_base = frame_base + scope.local_offset_base
          /\ scope.local_offset_base <= next_local_offset
      BY <2>2 DEF BasesAgree
    <3>3. Len(symbols) = frame_base + next_local_offset
      BY <3>1 DEF SlotsOwned
    <3>4. QED
      BY <2>3, <3>2, <3>3 DEF TypeOK
  <2>6. symbols' \in Seq(Symbols)
    BY <2>3, <2>5 DEF EndBlock, TypeOK
  <2>7. scopes' \in Seq(Scopes) /\ next_local_offset' \in Nat
    BY <2>2, <2>3 DEF EndBlock, TypeOK
  <2>8. phase' \in Phases
    BY DEF EndBlock, Phases, TypeOK
  <2>9. QED
    BY <1>a, <2>1, <2>4, <2>6, <2>7, <2>8 DEF EndBlock, TypeOK, Tables
<1>14. QED
  BY <1>1, <1>2, <1>3, <1>4, <1>5, <1>6, <1>7, <1>8, <1>9, <1>10, <1>11, <1>12, <1>13
     DEF Statement

(* The copy of the parameters writes cells with words of the caller's.      *)
LEMMA ParameterLocalsType ==
    ASSUME NEW machine \in MachineStates, NEW count \in Nat, NEW reg \in General
    PROVE  ParameterLocals(machine, count, reg) \in MachineStates
<1> DEFINE argument(i) == machine.m[ArgumentCell(machine.r[REG_FP], count, i)]
           slots == 0..(count - 1)
           at(a) == CHOOSE i \in slots : a = LocalCell(machine.r[REG_FP], i)
<1>1. machine.r \in [Registers -> Word] /\ machine.m \in [Word -> Word]
  BY DEF MachineStates
<1>2. machine.r[REG_FP] \in Int /\ machine.r[REG_SP] \in Int
  BY MachineParts, RegisterNumbers
<1>3. \A i \in Int : argument(i) \in Word
  <2>1. \A i \in Int : machine.r[REG_FP] + count - i + 2 \in Int
    BY <1>2
  <2>2. QED
    BY <1>1, <2>1, ByteIsWord DEF ArgumentCell
<1>4. \A a : (\E i \in slots : a = LocalCell(machine.r[REG_FP], i)) => at(a) \in slots
  OBVIOUS
<1>5. \A i \in slots : i \in Int
  OBVIOUS
<1>6. 1 \in Word /\ Byte(machine.r[REG_SP] - count) \in Word
  <2>1. machine.r[REG_SP] - count \in Int
    BY <1>2
  <2>2. QED
    BY <2>1, ByteIsWord, WordSizeAssumption, LastGeneralAssumption DEF Word
<1>7. count - 1 \in Int /\ reg \in Registers
  BY RegisterNumbers
<1>8. [machine.r EXCEPT ![reg] = argument(count - 1), ![REG_TMP] = 1,
                        ![REG_SP] = Byte(machine.r[REG_SP] - count)] \in [Registers -> Word]
  <2>1. argument(count - 1) \in Word
    BY <1>3, <1>7
  <2> HIDE DEF argument
  <2>2. QED
    BY <1>1, <1>6, <1>7, <2>1
<1>9. [a \in Word |-> IF \E i \in slots : a = LocalCell(machine.r[REG_FP], i)
                      THEN argument(at(a)) ELSE machine.m[a]] \in [Word -> Word]
  <2>1. \A a \in Word : (\E i \in slots : a = LocalCell(machine.r[REG_FP], i))
                            => argument(at(a)) \in Word
    BY <1>3, <1>4, <1>5
  <2>2. \A a \in Word : machine.m[a] \in Word
    BY <1>1
  <2> HIDE DEF argument, at, slots
  <2>3. QED
    BY <2>1, <2>2
<1>10. CASE count = 0
  BY <1>10 DEF ParameterLocals
<1>11. CASE count # 0
  <2>1. ParameterLocals(machine, count, reg) =
            [r |-> [machine.r EXCEPT ![reg] = argument(count - 1), ![REG_TMP] = 1,
                                     ![REG_SP] = Byte(machine.r[REG_SP] - count)],
             m |-> [a \in Word |-> IF \E i \in slots : a = LocalCell(machine.r[REG_FP], i)
                                   THEN argument(at(a)) ELSE machine.m[a]]]
    BY <1>11 DEF ParameterLocals
  <2> HIDE DEF argument, at, slots
  <2>2. QED
    BY <1>8, <1>9, <2>1 DEF MachineStates
<1>12. QED
  BY <1>10, <1>11

LEMMA TopLevelType ==
    ASSUME TypeOK, TopLevel
    PROVE  TypeOK'
<1> <<>> \in Seq(Int) /\ {"frame", "exit"} \subseteq Kinds /\ Nothing \in Subjects
  BY DEF Kinds, Subjects
<1> cpu \in MachineStates /\ registers \in Tables /\ 1 \in General
  BY LastGeneralAssumption DEF TypeOK, Tables, General, REG_FIRST_GENERAL, REG_LAST_GENERAL
<1>a. RegistersInit \in Tables
  BY TableTypes
<1>1. ProgramStart => TypeOK'
  <2> SUFFICES ASSUME ProgramStart PROVE TypeOK'
    OBVIOUS
  <2>1. event' \in Events
    BY EventTypes DEF ProgramStart, Saw
  <2>2. QED
    BY <1>a, <2>1 DEF ProgramStart, TypeOK, Tables, state, Phases
<1>2. ASSUME NEW f \in FunctionNames, NEW parameters \in ParameterLists,
             BeginFunctionDefinition(f, parameters)
      PROVE  TypeOK'
  <2>1. event' \in Events
    BY <1>2, EventTypes DEF BeginFunctionDefinition, Saw
  <2>2. parameters \in Seq(Names) /\ Len(parameters) \in Nat
    BY CodeGenAssumption
  <2>3. functions' \in Seq(FunctionEntries)
    <3>1. [name |-> f, parameter_count |-> Len(parameters)] \in FunctionEntries
      BY <2>2 DEF FunctionEntries
    <3>2. QED
      BY <1>2, <3>1 DEF BeginFunctionDefinition, TypeOK
  <2>4. symbols' \in Seq(Symbols)
    <3> DEFINE locals == [i \in 1..Len(parameters) |->
                             [name |-> parameters[i], storage |-> "local", place |-> i - 1]]
    <3>1. \A i \in 1..Len(parameters) : locals[i] \in Symbols
      BY <2>2 DEF Symbols
    <3>2. locals \in Seq(Symbols)
      <4>1. locals \in [1..Len(parameters) -> Symbols]
        BY <3>1
      <4> HIDE DEF locals
      <4>2. QED
        BY <2>2, <4>1
    <3>3. symbols' = symbols \o locals
      BY <1>2 DEF BeginFunctionDefinition
    <3> HIDE DEF locals
    <3>4. QED
      BY <3>2, <3>3 DEF TypeOK
  <2>5. PICK r \in RegisterFiles, m \in Memories, reg \in General :
            cpu' = ParameterLocals(FunctionPrefix([r |-> r, m |-> m]), Len(parameters), reg)
    BY <1>2 DEF BeginFunctionDefinition
  <2>6. [r |-> r, m |-> m] \in MachineStates
    BY CodeGenAssumption DEF MachineStates
  <2>7. cpu' \in MachineStates
    BY <2>2, <2>5, <2>6, SequenceTypes, ParameterLocalsType
  <2>8. QED
    BY <1>2, <1>a, <2>1, <2>2, <2>3, <2>4, <2>7
       DEF BeginFunctionDefinition, TypeOK, Tables, Phases
<1>3. Exit => TypeOK'
  <2>1. Exit => event' \in Events
    BY EventTypes DEF Exit, Saw
  <2>2. QED
    BY <2>1 DEF Exit, TypeOK, state, Phases
<1>4. EndFunctionDefinition => TypeOK'
  <2> SUFFICES ASSUME EndFunctionDefinition PROVE TypeOK'
    OBVIOUS
  <2>1. cpu' \in MachineStates
    <3>1. Afc(cpu, REG_RETURN, 0) \in MachineStates
      BY InstructionTypes, RegisterNumbers
    <3>2. QED
      BY <3>1, SequenceTypes DEF EndFunctionDefinition
  <2>2. event' \in Events
    BY <2>1, ReturnEventType, EventTypes DEF EndFunctionDefinition, Saw
  <2>3. QED
    BY <1>a, <2>1, <2>2 DEF EndFunctionDefinition, TypeOK, Tables, state, Phases
<1>5. BeginMainMethod => TypeOK'
  <2> SUFFICES ASSUME BeginMainMethod PROVE TypeOK'
    OBVIOUS
  <2>1. PICK r \in RegisterFiles, m \in Memories :
            cpu' = Cop(Afc([r |-> r, m |-> m], REG_SP, WordSize - 1), REG_FP, REG_SP)
    BY DEF BeginMainMethod
  <2>2. [r |-> r, m |-> m] \in MachineStates
    BY CodeGenAssumption DEF MachineStates
  <2>3. REG_SP \in Registers /\ REG_FP \in Registers /\ WordSize - 1 \in Int
    BY RegisterNumbers, WordSizeAssumption
  <2>4. Afc([r |-> r, m |-> m], REG_SP, WordSize - 1) \in MachineStates
    BY <2>2, <2>3, InstructionTypes
  <2>5. cpu' \in MachineStates
    BY <2>1, <2>3, <2>4, InstructionTypes
  <2>6. event' \in Events
    BY EventTypes DEF BeginMainMethod, Saw
  <2>7. QED
    BY <1>a, <2>5, <2>6 DEF BeginMainMethod, TypeOK, Tables, Phases
<1>6. EndMainMethod => TypeOK'
  <2> SUFFICES ASSUME EndMainMethod PROVE TypeOK'
    OBVIOUS
  <2>1. event' \in Events
    BY EventTypes DEF EndMainMethod, Saw
  <2>2. QED
    BY <1>a, <2>1 DEF EndMainMethod, TypeOK, Tables, state, Phases
<1>7. QED
  BY <1>1, <1>2, <1>3, <1>4, <1>5, <1>6 DEF TopLevel, DefinitionFails

LEMMA InitType == Init => TypeOK
<1> SUFFICES ASSUME Init PROVE TypeOK
  OBVIOUS
<1>1. cpu \in MachineStates
  BY CodeGenAssumption DEF Init, MachineStates
<1>2. registers \in Tables
  BY TableTypes, LastGeneralAssumption DEF Init, RegistersInit, Tables, Descriptors
<1>3. event \in Events
  <2>1. <<>> \in Seq(Int) /\ "start" \in Kinds /\ Nothing \in Subjects
    BY DEF Kinds, Subjects
  <2>2. QED
    BY <2>1, EventTypes DEF Init
<1>4. QED
  BY <1>1, <1>2, <1>3 DEF Init, TypeOK, Tables, Phases

-----------------------------------------------------------------------------
(* Argument lists nest *)

LEMMA HeldFollowsCalls == calls' = calls => Held' = Held
BY DEF Held

LEMMA ListsNestExpression ==
    ASSUME TypeOK, ListsNest, Expression
    PROVE  ListsNest'
<1>1. Held \in Nat /\ Len(operands) \in Nat /\ operands \in Seq(General)
  BY HeldIsNat, TopIsGeneral DEF TypeOK
<1>2. calls' = calls
  BY DEF Expression, ConstantLoad, LoadUnknown, LoadLocal, LoadCached, LoadGlobal, AddressOfLocal,
         AddressOfGlobal, AddressOfUnknown, Binary, Unary, PointerLoad, Overwrite, OutOfRegisters,
         Exit, PushTemporary
<1>3. Len(operands') >= Held
  <2>1. CASE \E reg \in General : operands' = Append(operands, reg)
    BY <1>1, <2>1 DEF ListsNest
  <2>2. CASE operands' = operands
    BY <2>2 DEF ListsNest
  <2>3. ASSUME NEW op \in BinaryOps, Binary(op)
        PROVE  Len(operands') >= Held
    <3>1. Len(operands) >= Held + 2 /\ operands' = SubSeq(operands, 1, Len(operands) - 1)
      BY <2>3 DEF Binary, Pop
    <3>2. Len(operands') = Len(operands) - 1
      BY <1>1, <3>1
    <3>3. QED
      BY <1>1, <3>1, <3>2
  <2>4. QED
    BY <2>1, <2>2, <2>3
       DEF Expression, ConstantLoad, LoadUnknown, LoadLocal, LoadCached, LoadGlobal, AddressOfLocal,
           AddressOfGlobal, AddressOfUnknown, Unary, PointerLoad, Overwrite, OutOfRegisters,
           Exit, PushTemporary
<1>4. Held' = Held
  BY <1>2, HeldFollowsCalls
<1>5. Held' <= Len(operands')
  <2>1. Len(operands') \in Nat
    BY ExpressionType DEF TypeOK
  <2>2. QED
    BY <1>1, <1>3, <1>4, <2>1
<1>6. QED
  BY <1>2, <1>5 DEF ListsNest

LEMMA ListsNestCall ==
    ASSUME TypeOK, ListsNest, CallExpression
    PROVE  ListsNest'
<1>1. /\ Held \in Nat /\ Len(operands) \in Nat /\ operands \in Seq(General)
      /\ calls \in Seq(ArgumentLists) /\ Held <= Len(operands)
  BY HeldIsNat, TopIsGeneral DEF TypeOK, ListsNest
<1>2. \A i \in DOMAIN calls : calls[i].base \in Nat /\ calls[i].count \in Nat
  <2>1. \A i \in DOMAIN calls : calls[i] \in ArgumentLists
    BY <1>1
  <2>2. QED
    BY <2>1 DEF ArgumentLists
<1>3. \A i, j \in DOMAIN calls : i < j => calls[i].base + calls[i].count <= calls[j].base
  BY DEF ListsNest
<1>4. \A i \in DOMAIN calls : calls[i].base + calls[i].count <= Held
  <2> SUFFICES ASSUME NEW i \in DOMAIN calls
               PROVE  calls[i].base + calls[i].count <= Held
    OBVIOUS
  <2>1. /\ calls # <<>> /\ Len(calls) \in DOMAIN calls /\ i <= Len(calls)
        /\ Held = calls[Len(calls)].base + calls[Len(calls)].count
    BY <1>1 DEF Held
  <2>2. CASE i = Len(calls)
    BY <1>2, <2>1, <2>2
  <2>3. CASE i < Len(calls)
    BY <1>2, <1>3, <2>1, <2>3
  <2>4. i \in Int /\ Len(calls) \in Int
    BY <1>1
  <2>5. QED
    BY <2>1, <2>2, <2>3, <2>4
<1>5. BeginFunctionArguments => ListsNest'
  <2> SUFFICES ASSUME BeginFunctionArguments PROVE ListsNest'
    OBVIOUS
  <2> DEFINE list == [base |-> Len(operands), count |-> 0]
  <2>1. calls' = Append(calls, list) /\ operands' = operands
    BY DEF BeginFunctionArguments
  <2>2. list.base = Len(operands) /\ list.count = 0
    OBVIOUS
  <2> HIDE DEF list
  <2>3. /\ Len(calls') = Len(calls) + 1 /\ calls' # <<>> /\ calls'[Len(calls')] = list
        /\ DOMAIN calls' = 1..(Len(calls) + 1) /\ DOMAIN calls = 1..Len(calls)
        /\ \A i \in DOMAIN calls : calls'[i] = calls[i]
    BY <1>1, <2>1
  <2>4. Held' = Len(operands)
    BY <1>1, <2>2, <2>3 DEF Held
  <2>5. ASSUME NEW i \in DOMAIN calls', NEW j \in DOMAIN calls', i < j
        PROVE  calls'[i].base + calls'[i].count <= calls'[j].base
    <3>1. i \in DOMAIN calls /\ calls'[i] = calls[i]
      BY <1>1, <2>3, <2>5
    <3>2. CASE j \in DOMAIN calls
      BY <1>3, <2>3, <2>5, <3>1, <3>2
    <3>3. CASE j = Len(calls')
      BY <1>1, <1>2, <1>4, <2>2, <2>3, <3>1, <3>3
    <3>4. QED
      BY <1>1, <2>3, <3>2, <3>3
  <2>6. QED
    BY <1>1, <2>1, <2>4, <2>5 DEF ListsNest
<1>6. AddFunctionArgument => ListsNest'
  <2> SUFFICES ASSUME AddFunctionArgument PROVE ListsNest'
    OBVIOUS
  <2> DEFINE last == Len(calls)
  <2>1. /\ calls # <<>> /\ last \in DOMAIN calls /\ operands' = operands
        /\ Len(operands) = Held + 1
        /\ calls' = [calls EXCEPT ![last].count = @ + 1]
    BY <1>1, EmptySeq DEF AddFunctionArgument
  <2>2. /\ DOMAIN calls' = DOMAIN calls /\ Len(calls') = last /\ calls' # <<>>
        /\ \A i \in DOMAIN calls : i # last => calls'[i] = calls[i]
        /\ calls'[last].base = calls[last].base /\ calls'[last].count = calls[last].count + 1
    <3>1. calls[last] \in ArgumentLists
      BY <1>1, <2>1
    <3>2. QED
      BY <1>1, <2>1, <3>1 DEF ArgumentLists
  <2>3. Held' = Len(operands)
    BY <1>2, <2>1, <2>2 DEF Held
  <2>4. ASSUME NEW i \in DOMAIN calls', NEW j \in DOMAIN calls', i < j
        PROVE  calls'[i].base + calls'[i].count <= calls'[j].base
    <3>1. i # last /\ i \in DOMAIN calls /\ j \in DOMAIN calls
      BY <1>1, <2>2, <2>4
    <3>2. calls'[i] = calls[i] /\ calls'[j].base = calls[j].base
      BY <2>2, <3>1
    <3>3. QED
      BY <1>3, <2>4, <3>1, <3>2
  <2>5. QED
    BY <1>1, <2>1, <2>3, <2>4 DEF ListsNest
<1>7. ASSUME NEW f \in FunctionNames, FunctionCall(f)
      PROVE  ListsNest'
  <2> DEFINE last == Len(calls)
             base == calls[last].base
  <2>1. PICK reg \in General : operands' = Append(SubSeq(operands, 1, base), reg)
    BY <1>7 DEF FunctionCall
  <2>2. calls # <<>> /\ last \in DOMAIN calls /\ last \in Nat /\ calls' = SubSeq(calls, 1, last - 1)
    BY <1>1, <1>7, EmptySeq DEF FunctionCall
  <2>3. base \in Nat /\ base <= Len(operands)
    BY <1>1, <1>2, <1>4, <2>2
  <2>4. Len(operands') = base + 1
    <3> HIDE DEF base
    <3>1. SubSeq(operands, 1, base) \in Seq(General) /\ Len(SubSeq(operands, 1, base)) = base
      BY <1>1, <2>3
    <3>2. QED
      BY <2>1, <2>3, <3>1
  <2>5. /\ calls' \in Seq(ArgumentLists) /\ Len(calls') = last - 1 /\ DOMAIN calls' = 1..(last - 1)
        /\ \A i \in DOMAIN calls' : i \in DOMAIN calls /\ calls'[i] = calls[i] /\ i < last
    <3> HIDE DEF last
    <3>1. last \in 1..last /\ last - 1 \in Int /\ DOMAIN calls = 1..last
      BY <1>1, <2>2 DEF last
    <3>2. \A i \in 1..(last - 1) : i \in DOMAIN calls /\ calls[i] \in ArgumentLists /\ i < last
      BY <1>1, <3>1
    <3>3. /\ SubSeq(calls, 1, last - 1) \in Seq(ArgumentLists)
          /\ Len(SubSeq(calls, 1, last - 1)) = IF 1 <= last - 1 THEN last - 1 - 1 + 1 ELSE 0
          /\ \A i \in 1..(last - 1 - 1 + 1) : SubSeq(calls, 1, last - 1)[i] = calls[1 + i - 1]
      BY <3>1, <3>2, SubSeqProperties
    <3>4. calls' \in Seq(ArgumentLists) /\ Len(calls') = last - 1
      BY <2>2, <3>1, <3>3
    <3>5. \A i \in 1..(last - 1) : calls'[i] = calls[i]
      BY <2>2, <3>1, <3>3
    <3>6. QED
      BY <3>2, <3>4, <3>5
  <2>6. Held' <= Len(operands')
    <3>1. CASE calls' = <<>>
      BY <2>3, <2>4, <3>1 DEF Held
    <3>2. CASE calls' # <<>>
      <4>1. last - 1 \in DOMAIN calls'
        BY <2>2, <2>5, <3>2, EmptySeq
      <4>2. Held' = calls[last - 1].base + calls[last - 1].count
        BY <2>5, <3>2, <4>1 DEF Held
      <4>3. calls[last - 1].base + calls[last - 1].count <= base
        BY <1>3, <2>2, <2>5, <4>1
      <4>4. calls[last - 1].base \in Nat /\ calls[last - 1].count \in Nat
        BY <1>2, <2>5, <4>1
      <4>5. QED
        BY <2>3, <2>4, <4>2, <4>3, <4>4
    <3>3. QED
      BY <3>1, <3>2
  <2>7. ASSUME NEW i \in DOMAIN calls', NEW j \in DOMAIN calls', i < j
        PROVE  calls'[i].base + calls'[i].count <= calls'[j].base
    BY <1>3, <2>5, <2>7
  <2>8. QED
    BY <2>6, <2>7 DEF ListsNest
<1>8. Exit => ListsNest'
  BY DEF Exit, ListsNest, Held
<1>9. QED
  BY <1>5, <1>6, <1>7, <1>8 DEF CallExpression, CallFails

(* Statements and definitions leave no list open or touch neither side.     *)
LEMMA ListsNestElsewhere ==
    ASSUME TypeOK, ListsNest, Statement \/ TopLevel \/ Finished
    PROVE  ListsNest'
<1>1. \/ calls' = <<>> /\ operands' = <<>>
      \/ calls' = calls /\ operands' = operands
  BY DEF Statement, Declaration, EmptyDeclaration, AssignUnknown, AssignLocal, AssignGlobal,
         PointerStore, PrintStatement, DiscardExpression, ReturnStatement, ConditionalJump, Join,
         BeginBlock, EndBlock, TopLevel, ProgramStart, BeginFunctionDefinition, DefinitionFails,
         EndFunctionDefinition, BeginMainMethod, EndMainMethod, Exit, Finished, vars,
         OneValue, InBody, StatementStart
<1>2. CASE calls' = <<>> /\ operands' = <<>>
  BY <1>2 DEF ListsNest, Held
<1>3. CASE calls' = calls /\ operands' = operands
  BY <1>3 DEF ListsNest, Held
<1>4. QED
  BY <1>1, <1>2, <1>3

-----------------------------------------------------------------------------
(* Slots and scopes *)

(* Only declarations, blocks and the starts and ends of functions matter.   *)
LEMMA ShapeUnchanged ==
    ASSUME SlotsOwned, BasesAgree, state' = state, phase' = phase \/ phase' = "exit"
    PROVE  SlotsOwned' /\ BasesAgree'
BY DEF SlotsOwned, BasesAgree, state, InsideFunction

LEMMA ShapeDeclaration ==
    ASSUME TypeOK, SlotsOwned, BasesAgree, NEW x \in Names,
           \/ /\ InsideFunction
              /\ Declare(x, "local", next_local_offset)
              /\ next_local_offset' = next_local_offset + 1
           \/ ~InsideFunction /\ next_local_offset' = next_local_offset,
           InExpression,
           phase' = phase, scopes' = scopes, frame_base' = frame_base
    PROVE  SlotsOwned' /\ BasesAgree'
<1>1. /\ next_local_offset \in Nat /\ frame_base \in Nat /\ symbols \in Seq(Symbols)
      /\ scopes \in Seq(Scopes)
  BY DEF TypeOK
<1>2. InsideFunction' <=> InsideFunction
  BY DEF InsideFunction
<1>3. CASE ~InsideFunction
  <2>1. scopes = <<>>
    BY <1>3 DEF InsideFunction, InExpression, Bodies, BasesAgree
  <2>2. QED
    BY <1>2, <1>3, <2>1 DEF SlotsOwned, BasesAgree
<1>4. CASE InsideFunction
  <2> DEFINE symbol == [name |-> x, storage |-> "local", place |-> next_local_offset]
  <2>1. symbols' = Append(symbols, symbol) /\ next_local_offset' = next_local_offset + 1
    BY <1>4 DEF Declare
  <2>2. symbol.storage = "local" /\ symbol.place = next_local_offset
    OBVIOUS
  <2> HIDE DEF symbol
  <2>3. /\ Len(symbols') = Len(symbols) + 1 /\ symbols'[Len(symbols) + 1] = symbol
        /\ \A i \in 1..Len(symbols) : symbols'[i] = symbols[i]
    BY <1>1, <2>1
  <2>4. /\ Len(symbols) = frame_base + next_local_offset
        /\ \A k \in 0..(next_local_offset - 1) :
              /\ symbols[frame_base + k + 1].storage = "local"
              /\ symbols[frame_base + k + 1].place = k
    BY <1>4 DEF SlotsOwned
  <2>5. ASSUME NEW k \in 0..next_local_offset
        PROVE  /\ symbols'[frame_base + k + 1].storage = "local"
               /\ symbols'[frame_base + k + 1].place = k
    <3>1. CASE k = next_local_offset
      BY <1>1, <2>2, <2>3, <2>4, <3>1
    <3>2. CASE k \in 0..(next_local_offset - 1)
      <4>1. frame_base + k + 1 \in 1..Len(symbols)
        BY <1>1, <2>4, <3>2
      <4>2. QED
        BY <2>3, <2>4, <3>2, <4>1
    <3>3. QED
      BY <1>1, <3>1, <3>2
  <2>6. SlotsOwned'
    <3>1. Len(symbols') = frame_base' + next_local_offset'
      BY <1>1, <2>1, <2>3, <2>4
    <3>2. next_local_offset' - 1 = next_local_offset
      BY <1>1, <2>1
    <3>3. QED
      BY <2>5, <3>1, <3>2 DEF SlotsOwned
  <2>7. BasesAgree'
    <3>1. \A i \in DOMAIN scopes : scopes[i].local_offset_base \in Nat
      <4>1. \A i \in DOMAIN scopes : scopes[i] \in Scopes
        BY <1>1
      <4>2. QED
        BY <4>1 DEF Scopes
    <3>2. \A i \in DOMAIN scopes :
            /\ scopes'[i].symbol_table_base = frame_base' + scopes'[i].local_offset_base
            /\ scopes'[i].local_offset_base <=
                  IF i = Len(scopes') THEN next_local_offset' ELSE scopes'[i + 1].local_offset_base
      BY <1>1, <2>1, <3>1 DEF BasesAgree
    <3>3. QED
      BY <3>2 DEF BasesAgree
  <2>8. QED
    BY <2>6, <2>7
<1>5. QED
  BY <1>3, <1>4

LEMMA ShapeBeginBlock ==
    ASSUME TypeOK, SlotsOwned, BasesAgree, BeginBlock
    PROVE  SlotsOwned' /\ BasesAgree'
<1>1. /\ next_local_offset \in Nat /\ frame_base \in Nat /\ symbols \in Seq(Symbols)
      /\ scopes \in Seq(Scopes)
  BY DEF TypeOK
<1>2. InsideFunction /\ InsideFunction' /\ phase' \in Bodies
  BY DEF BeginBlock, StatementStart, InBody, Bodies, InsideFunction
<1>3. symbols' = symbols /\ frame_base' = frame_base /\ next_local_offset' = next_local_offset
  BY DEF BeginBlock
<1>4. SlotsOwned'
  BY <1>2, <1>3 DEF SlotsOwned
<1>5. BasesAgree'
  <2> DEFINE scope == OpenScope
  <2>1. scopes' = Append(scopes, scope)
    BY DEF BeginBlock
  <2>2. scope.symbol_table_base = Len(symbols) /\ scope.local_offset_base = next_local_offset
    BY DEF OpenScope
  <2> HIDE DEF scope
  <2>3. /\ Len(scopes') = Len(scopes) + 1 /\ scopes'[Len(scopes) + 1] = scope
        /\ \A i \in 1..Len(scopes) : scopes'[i] = scopes[i]
        /\ DOMAIN scopes' = 1..(Len(scopes) + 1)
    BY <1>1, <2>1
  <2>4. ASSUME NEW i \in DOMAIN scopes'
        PROVE  /\ scopes'[i].symbol_table_base = frame_base + scopes'[i].local_offset_base
               /\ scopes'[i].local_offset_base <=
                     IF i = Len(scopes') THEN next_local_offset
                     ELSE scopes'[i + 1].local_offset_base
    <3>1. CASE i = Len(scopes) + 1
      BY <1>1, <1>2, <2>2, <2>3, <3>1 DEF SlotsOwned
    <3>2. CASE i \in 1..Len(scopes)
      <4>1. /\ scopes[i].symbol_table_base = frame_base + scopes[i].local_offset_base
            /\ scopes[i].local_offset_base <=
                  IF i = Len(scopes) THEN next_local_offset ELSE scopes[i + 1].local_offset_base
        BY <1>1, <3>2 DEF BasesAgree
      <4>2. scopes'[i] = scopes[i] /\ i # Len(scopes')
        BY <1>1, <2>3, <3>2
      <4>3. CASE i = Len(scopes)
        BY <2>2, <2>3, <4>1, <4>2, <4>3
      <4>4. CASE i # Len(scopes)
        <5>1. i + 1 \in 1..Len(scopes)
          BY <1>1, <3>2, <4>4
        <5>2. QED
          BY <2>3, <4>1, <4>2, <4>4, <5>1
      <4>5. QED
        BY <4>3, <4>4
    <3>3. QED
      BY <1>1, <2>3, <3>1, <3>2
  <2>5. QED
    BY <1>2, <1>3, <2>4 DEF BasesAgree
<1>6. QED
  BY <1>4, <1>5

LEMMA ShapeEndBlock ==
    ASSUME TypeOK, SlotsOwned, BasesAgree, EndBlock
    PROVE  SlotsOwned' /\ BasesAgree'
<1> DEFINE depth == Len(scopes)
           scope == scopes[depth]
<1>1. /\ next_local_offset \in Nat /\ frame_base \in Nat /\ symbols \in Seq(Symbols)
      /\ scopes \in Seq(Scopes) /\ depth \in Nat \ {0} /\ depth \in DOMAIN scopes
      /\ scope \in Scopes
  BY EmptySeq DEF TypeOK, EndBlock
<1>2. scope.symbol_table_base \in Nat /\ scope.local_offset_base \in Nat
  BY <1>1 DEF Scopes
<1>3. /\ phase \in Bodies /\ InsideFunction /\ frame_base' = frame_base
      /\ symbols' = SubSeq(symbols, 1, scope.symbol_table_base)
      /\ next_local_offset' = scope.local_offset_base
      /\ scopes' = SubSeq(scopes, 1, depth - 1)
  BY DEF EndBlock, StatementStart, InBody, Bodies, InsideFunction
<1>4. /\ scope.symbol_table_base = frame_base + scope.local_offset_base
      /\ scope.local_offset_base <= next_local_offset
  BY <1>1 DEF BasesAgree
<1>5. /\ Len(symbols) = frame_base + next_local_offset
      /\ \A k \in 0..(next_local_offset - 1) :
            /\ symbols[frame_base + k + 1].storage = "local"
            /\ symbols[frame_base + k + 1].place = k
  BY <1>3 DEF SlotsOwned
<1>6. SlotsOwned'
  <2> DEFINE kept == scope.local_offset_base
  <2>1. kept \in Nat /\ kept <= next_local_offset /\ symbols' = SubSeq(symbols, 1, frame_base + kept)
    BY <1>2, <1>3, <1>4
  <2> HIDE DEF kept
  <2>2. /\ Len(symbols') = frame_base + kept
        /\ \A i \in 1..(frame_base + kept) : symbols'[i] = symbols[i]
    BY <1>1, <1>5, <2>1
  <2>3. ASSUME NEW k \in 0..(kept - 1)
        PROVE  /\ symbols'[frame_base + k + 1].storage = "local"
               /\ symbols'[frame_base + k + 1].place = k
    <3>1. frame_base + k + 1 \in 1..(frame_base + kept) /\ k \in 0..(next_local_offset - 1)
      BY <1>1, <2>1
    <3>2. QED
      BY <1>5, <2>2, <3>1
  <2>4. next_local_offset' = kept
    BY <1>3 DEF kept
  <2>5. QED
    BY <1>3, <2>2, <2>3, <2>4 DEF SlotsOwned
<1>7. BasesAgree'
  <2>1. \A i \in 1..(depth - 1) : scopes[i] \in Scopes /\ i \in DOMAIN scopes /\ i + 1 \in DOMAIN scopes
    BY <1>1
  <2>2. /\ scopes' \in Seq(Scopes) /\ Len(scopes') = depth - 1 /\ DOMAIN scopes' = 1..(depth - 1)
        /\ \A i \in 1..(depth - 1) : scopes'[i] = scopes[i]
    <3> HIDE DEF scope, depth
    <3>1. depth - 1 \in Int /\ depth - 1 >= 0
      BY <1>1
    <3>2. /\ SubSeq(scopes, 1, depth - 1) \in Seq(Scopes)
          /\ Len(SubSeq(scopes, 1, depth - 1)) = IF 1 <= depth - 1 THEN depth - 1 - 1 + 1 ELSE 0
          /\ \A i \in 1..(depth - 1 - 1 + 1) : SubSeq(scopes, 1, depth - 1)[i] = scopes[1 + i - 1]
      BY <2>1, <3>1, SubSeqProperties
    <3>3. scopes' \in Seq(Scopes) /\ Len(scopes') = depth - 1
      BY <1>3, <3>1, <3>2
    <3>4. \A i \in 1..(depth - 1) : scopes'[i] = scopes[i]
      BY <1>3, <3>1, <3>2
    <3>5. QED
      BY <3>3, <3>4
  <2>3. ASSUME NEW i \in DOMAIN scopes'
        PROVE  /\ scopes'[i].symbol_table_base = frame_base + scopes'[i].local_offset_base
               /\ scopes'[i].local_offset_base <=
                     IF i = Len(scopes') THEN scope.local_offset_base
                     ELSE scopes'[i + 1].local_offset_base
    <3>1. i \in 1..(depth - 1) /\ i # depth
      BY <1>1, <2>2
    <3>2. /\ scopes[i].symbol_table_base = frame_base + scopes[i].local_offset_base
          /\ scopes[i].local_offset_base <= scopes[i + 1].local_offset_base
      BY <2>1, <3>1 DEF BasesAgree
    <3>3. CASE i = depth - 1
      BY <1>1, <2>2, <3>1, <3>2, <3>3
    <3>4. CASE i # depth - 1
      <4>1. i + 1 \in 1..(depth - 1)
        BY <1>1, <3>1, <3>4
      <4>2. QED
        BY <2>2, <3>1, <3>2, <3>4, <4>1
    <3>5. QED
      BY <3>3, <3>4
  <2>4. scopes' # <<>> => phase' \in Bodies
    <3>1. scopes' # <<>> => depth > 1
      BY <1>1, <2>2, EmptySeq
    <3>2. depth > 1 => phase' = phase
      BY DEF EndBlock
    <3>3. QED
      BY <1>3, <3>1, <3>2
  <2>5. QED
    BY <1>3, <2>3, <2>4 DEF BasesAgree
<1>8. QED
  BY <1>6, <1>7

LEMMA ShapeStatement ==
    ASSUME TypeOK, SlotsOwned, BasesAgree, Statement
    PROVE  SlotsOwned' /\ BasesAgree'
<1>1. ASSUME NEW x \in Names, Declaration(x) \/ EmptyDeclaration(x)
      PROVE  SlotsOwned' /\ BasesAgree'
  <2>1. /\ phase' = phase /\ scopes' = scopes /\ frame_base' = frame_base /\ InExpression
        /\ \/ /\ InsideFunction
              /\ Declare(x, "local", next_local_offset)
              /\ next_local_offset' = next_local_offset + 1
           \/ ~InsideFunction /\ next_local_offset' = next_local_offset
    BY <1>1 DEF Declaration, EmptyDeclaration, DeclareLocal, DeclareGlobal, OneValue
  <2>2. QED
    BY <2>1, ShapeDeclaration
<1>2. CASE BeginBlock
  BY <1>2, ShapeBeginBlock
<1>3. CASE EndBlock
  BY <1>3, ShapeEndBlock
<1>4. CASE state' = state /\ phase' = phase
  BY <1>4, ShapeUnchanged
<1>5. QED
  BY <1>1, <1>2, <1>3, <1>4
     DEF Statement, AssignUnknown, AssignLocal, AssignGlobal, PointerStore, PrintStatement,
         DiscardExpression, ReturnStatement, ConditionalJump, Join

(* A function starts with the parameters in its first slots, main with none. *)
LEMMA ShapeTopLevel ==
    ASSUME TypeOK, SlotsOwned, BasesAgree, TopLevel
    PROVE  SlotsOwned' /\ BasesAgree'
<1>1. /\ symbols \in Seq(Symbols) /\ Len(symbols) \in Nat
  BY DEF TypeOK
<1>2. phase \notin Bodies \cup {"exit"} => scopes = <<>>
  BY DEF BasesAgree
<1>3. ASSUME NEW f \in FunctionNames, NEW parameters \in ParameterLists,
             BeginFunctionDefinition(f, parameters)
      PROVE  SlotsOwned' /\ BasesAgree'
  <2> DEFINE count == Len(parameters)
             locals == [i \in 1..count |->
                           [name |-> parameters[i], storage |-> "local", place |-> i - 1]]
  <2>1. count \in Nat
    BY CodeGenAssumption
  <2>2. /\ symbols' = symbols \o locals /\ next_local_offset' = count
        /\ frame_base' = Len(symbols) /\ scopes' = <<>>
    BY <1>2, <1>3 DEF BeginFunctionDefinition, Bodies
  <2>3. \A k \in 0..(count - 1) : /\ locals[k + 1].storage = "local"
                                  /\ locals[k + 1].place = k
    BY <2>1
  <2>4. locals \in Seq({locals[i] : i \in 1..count}) /\ Len(locals) = count
    <3>1. locals \in [1..count -> {locals[i] : i \in 1..count}]
      OBVIOUS
    <3> HIDE DEF locals
    <3>2. QED
      BY <2>1, <3>1
  <2> HIDE DEF locals, count
  <2>5. /\ Len(symbols') = Len(symbols) + count
        /\ \A i \in 1..count : symbols'[Len(symbols) + i] = locals[i]
    <3> DEFINE S == Symbols \cup {locals[i] : i \in 1..count}
    <3>1. symbols \in Seq(S) /\ locals \in Seq(S)
      BY <1>1, <2>4, SeqMonotonic
    <3> HIDE DEF S
    <3>2. /\ Len(symbols \o locals) = Len(symbols) + Len(locals)
          /\ \A i \in 1..(Len(symbols) + Len(locals)) :
                (symbols \o locals)[i] = IF i <= Len(symbols) THEN symbols[i]
                                         ELSE locals[i - Len(symbols)]
      BY <3>1, ConcatProperties
    <3>3. \A i \in 1..count : /\ Len(symbols) + i \in 1..(Len(symbols) + count)
                              /\ ~(Len(symbols) + i <= Len(symbols))
                              /\ Len(symbols) + i - Len(symbols) = i
      BY <1>1, <2>1
    <3>4. QED
      BY <2>2, <2>4, <3>2, <3>3
  <2>6. ASSUME NEW k \in 0..(count - 1)
        PROVE  /\ symbols'[Len(symbols) + k + 1].storage = "local"
               /\ symbols'[Len(symbols) + k + 1].place = k
    <3>1. k + 1 \in 1..count /\ Len(symbols) + (k + 1) = Len(symbols) + k + 1
      BY <1>1, <2>1
    <3>2. QED
      BY <2>3, <2>5, <3>1
  <2>7. SlotsOwned'
    BY <2>2, <2>5, <2>6 DEF SlotsOwned
  <2>8. BasesAgree'
    BY <2>2 DEF BasesAgree
  <2>9. QED
    BY <2>7, <2>8
<1>4. BeginMainMethod => SlotsOwned' /\ BasesAgree'
  <2> SUFFICES ASSUME BeginMainMethod PROVE SlotsOwned' /\ BasesAgree'
    OBVIOUS
  <2>1. scopes' = <<>> /\ next_local_offset' = 0 /\ frame_base' = Len(symbols) /\ symbols' = symbols
    BY <1>2 DEF BeginMainMethod, Bodies
  <2>2. \A k \in 0..(0 - 1) : FALSE
    OBVIOUS
  <2>3. QED
    BY <1>1, <2>1, <2>2 DEF SlotsOwned, BasesAgree
<1>5. ASSUME state' = state, phase \notin Bodies \cup {"exit"},
             phase' \notin {"function_head", "function_body", "function_tail",
                            "main_head", "main_body", "main_tail"}
      PROVE  SlotsOwned' /\ BasesAgree'
  BY <1>2, <1>5 DEF state, SlotsOwned, BasesAgree, InsideFunction
<1>6. (ProgramStart \/ EndFunctionDefinition \/ EndMainMethod) => SlotsOwned' /\ BasesAgree'
  BY <1>5 DEF ProgramStart, EndFunctionDefinition, EndMainMethod, Bodies
<1>7. Exit => SlotsOwned' /\ BasesAgree'
  BY ShapeUnchanged DEF Exit
<1>8. QED
  BY <1>3, <1>4, <1>6, <1>7 DEF TopLevel, DefinitionFails

LEMMA ShapeExpression ==
    ASSUME Expression \/ CallExpression \/ Finished
    PROVE  state' = state /\ (phase' = phase \/ phase' = "exit")
BY DEF Expression, ConstantLoad, LoadUnknown, LoadLocal, LoadCached, LoadGlobal, AddressOfLocal,
       AddressOfGlobal, AddressOfUnknown, Binary, Unary, PointerLoad, Overwrite, OutOfRegisters,
       Exit, PushTemporary, CallExpression, BeginFunctionArguments, AddFunctionArgument,
       FunctionCall, CallFails, Finished, vars

LEMMA ShapeInit == Init => ShapeInv
<1> SUFFICES ASSUME Init PROVE ShapeInv
  OBVIOUS
<1>1. TypeOK
  BY InitType
<1>2. Len(operands) = 0 /\ Held = 0 /\ calls = <<>> /\ scopes = <<>>
  BY DEF Init, Held
<1>3. ~InsideFunction
  BY DEF Init, InsideFunction
<1>4. QED
  BY <1>1, <1>2, <1>3 DEF ShapeInv, ListsNest, SlotsOwned, BasesAgree

LEMMA ShapeStep == ShapeInv /\ [Next]_vars => ShapeInv'
<1> SUFFICES ASSUME ShapeInv, [Next]_vars PROVE ShapeInv'
  OBVIOUS
<1>1. TypeOK /\ ListsNest /\ SlotsOwned /\ BasesAgree
  BY DEF ShapeInv
<1>2. CASE Expression
  <2>1. SlotsOwned' /\ BasesAgree'
    BY <1>1, <1>2, ShapeExpression, ShapeUnchanged
  <2>2. QED
    BY <1>1, <1>2, <2>1, ExpressionType, ListsNestExpression DEF ShapeInv
<1>3. CASE CallExpression
  <2>1. SlotsOwned' /\ BasesAgree'
    BY <1>1, <1>3, ShapeExpression, ShapeUnchanged
  <2>2. QED
    BY <1>1, <1>3, <2>1, CallExpressionType, ListsNestCall DEF ShapeInv
<1>4. CASE Statement
  BY <1>1, <1>4, StatementType, ListsNestElsewhere, ShapeStatement DEF ShapeInv
<1>5. CASE TopLevel
  BY <1>1, <1>5, TopLevelType, ListsNestElsewhere, ShapeTopLevel DEF ShapeInv
<1>6. CASE UNCHANGED vars
  BY <1>1, <1>6 DEF vars, state, ShapeInv, TypeOK, ListsNest, Held, SlotsOwned, BasesAgree,
                    InsideFunction
<1>7. QED
  BY <1>2, <1>3, <1>4, <1>5, <1>6 DEF Next, Finished

(* The descriptor table, the symbol and function tables, the scopes, the    *)
(* parser's values and the machine keep their types over every compilation. *)
THEOREM TypeCorrect == Spec => []TypeOK
<1>1. ShapeInv => TypeOK
  BY DEF ShapeInv
<1>2. QED
  BY <1>1, ShapeInit, ShapeStep, PTL DEF Spec

(* Argument lists nest in every reachable state: the values of an outer     *)
(* call are below those of the calls inside its arguments.                  *)
THEOREM ListsAlwaysNest == Spec => []ListsNest
<1>1. ShapeInv => ListsNest
  BY DEF ShapeInv
<1>2. QED
  BY <1>1, ShapeInit, ShapeStep, PTL DEF Spec

(* Every live local has a slot of its own, whatever blocks open and close.  *)
THEOREM LocalsOwnSlots == Spec => []SlotsOwned
<1>1. ShapeInv => SlotsOwned
  BY DEF ShapeInv
<1>2. QED
  BY <1>1, ShapeInit, ShapeStep, PTL DEF Spec

(* The symbols and the offsets an open block gives back always match.       *)
THEOREM ScopesAgree == Spec => []BasesAgree
<1>1. ShapeInv => BasesAgree
  BY DEF ShapeInv
<1>2. QED
  BY <1>1, ShapeInit, ShapeStep, PTL DEF Spec

-----------------------------------------------------------------------------
(* StackBelowLocals: sp stays next_local_offset cells below fp.  Besides its *)
(* own induction the argument needs BasesAgree, for a block gives back its  *)
(* locals by popping the difference of two offsets.                         *)

FrameOf(before, after) ==
    after.r[REG_SP] = before.r[REG_SP] /\ after.r[REG_FP] = before.r[REG_FP]

-----------------------------------------------------------------------------
(* What the instructions do to sp and fp *)

LEMMA FrameRegisters ==
    /\ {REG_SP, REG_FP, REG_TMP, REG_RA, REG_RETURN} \cup General \subseteq Registers
    /\ REG_SP # REG_FP /\ REG_SP # REG_TMP /\ REG_FP # REG_TMP
    /\ \A reg \in General : reg # REG_SP /\ reg # REG_FP /\ reg # REG_TMP
BY LastGeneralAssumption, RegisterNumbers
   DEF General, REG_TMP, REG_SP, REG_FP, REG_FIRST_GENERAL, REG_LAST_GENERAL

(* An instruction that writes a general register or tmp keeps the frame.    *)
LEMMA WritesKeepFrame ==
    ASSUME NEW machine \in MachineStates, NEW reg \in General \cup {REG_TMP}
    PROVE  /\ \A value \in Int : Afc(machine, reg, value) \in MachineStates
           /\ \A value \in Int : FrameOf(machine, Afc(machine, reg, value))
           /\ \A value \in Int : FrameOf(machine, Load(machine, reg, value))
           /\ \A from \in Registers : FrameOf(machine, Not(machine, reg, from))
           /\ \A from \in Registers : FrameOf(machine, LoadR(machine, reg, from))
           /\ \A op \in AllBinaryOps : \A a, b \in Registers :
                  FrameOf(machine, Ternary(machine, op, reg, a, b))
<1>1. reg \in Registers /\ {REG_SP, REG_FP} \subseteq Registers \ {reg} /\ 0 \in Int /\ 0 \in Registers
  BY FrameRegisters DEF REG_RETURN
<1>2. ASSUME NEW after, \A other \in Registers \ {reg} : after.r[other] = machine.r[other]
      PROVE  FrameOf(machine, after)
  BY <1>1, <1>2 DEF FrameOf
<1>3. ASSUME NEW value \in Int
      PROVE  /\ Afc(machine, reg, value) \in MachineStates
             /\ FrameOf(machine, Afc(machine, reg, value))
             /\ FrameOf(machine, Load(machine, reg, value))
  <2>1. /\ Afc(machine, reg, value) \in MachineStates
        /\ \A other \in Registers \ {reg} : Afc(machine, reg, value).r[other] = machine.r[other]
    BY <1>1, SetRegisterType DEF Afc
  <2>2. machine.m[Byte(value)] \in Int
    BY MachineParts, ByteIsWord
  <2>3. \A other \in Registers \ {reg} : Load(machine, reg, value).r[other] = machine.r[other]
    BY <1>1, <2>2, SetRegisterType DEF Load
  <2>4. QED
    BY <1>2, <2>1, <2>3
<1>4. ASSUME NEW from \in Registers
      PROVE  /\ FrameOf(machine, Not(machine, reg, from))
             /\ FrameOf(machine, LoadR(machine, reg, from))
  <2>1. Truth(machine.r[from] = 0) \in Int /\ machine.m[machine.r[from]] \in Int
    BY MachineParts DEF Truth
  <2>2. \A other \in Registers \ {reg} : Not(machine, reg, from).r[other] = machine.r[other]
    BY <1>1, <2>1, SetRegisterType DEF Not
  <2>3. \A other \in Registers \ {reg} : LoadR(machine, reg, from).r[other] = machine.r[other]
    BY <1>1, <2>1, SetRegisterType DEF LoadR
  <2>4. QED
    BY <1>2, <2>2, <2>3
<1>5. ASSUME NEW op \in AllBinaryOps, NEW a \in Registers, NEW b \in Registers
      PROVE  FrameOf(machine, Ternary(machine, op, reg, a, b))
  <2>1. \A other \in Registers \ {reg} : Ternary(machine, op, reg, a, b).r[other] = machine.r[other]
    BY <1>1, RegisterInstructions
  <2>2. QED
    BY <1>2, <2>1
<1>6. QED
  BY <1>3, <1>4, <1>5

(* So does a write to memory.                                               *)
LEMMA StoresKeepFrame ==
    ASSUME NEW machine \in MachineStates, NEW reg \in Registers, NEW at \in Registers,
           NEW address \in Int
    PROVE  /\ StoreR(machine, at, reg) \in MachineStates
           /\ FrameOf(machine, StoreR(machine, at, reg))
           /\ Store(machine, address, reg) \in MachineStates
           /\ FrameOf(machine, Store(machine, address, reg))
<1>1. machine.r[at] \in Word /\ machine.r[reg] \in Word /\ Byte(address) \in Word
  BY MachineParts, ByteIsWord
<1>2. ASSUME NEW cell \in Word, NEW value \in Word
      PROVE  SetCell(machine, cell, value) \in MachineStates /\ SetCell(machine, cell, value).r = machine.r
  BY SetCellType
<1>3. ASSUME NEW cell \in Word, NEW value \in Word
      PROVE  FrameOf(machine, SetCell(machine, cell, value))
  BY <1>2 DEF FrameOf
<1>4. QED
  BY <1>1, <1>2, <1>3 DEF StoreR, Store

LEMMA LocalAddressKeepsFrame ==
    ASSUME NEW machine \in MachineStates, NEW offset \in Int
    PROVE  /\ ComputeLocalAddress(machine, offset) \in MachineStates
           /\ FrameOf(machine, ComputeLocalAddress(machine, offset))
BY ComputeLocalAddressEffect, FrameRegisters DEF FrameOf

(* The address of a local, then a write to it.                              *)
LEMMA LocalStoreKeepsFrame ==
    ASSUME NEW machine \in MachineStates, NEW offset \in Int, NEW reg \in Registers
    PROVE  /\ StoreR(ComputeLocalAddress(machine, offset), REG_TMP, reg) \in MachineStates
           /\ FrameOf(machine, StoreR(ComputeLocalAddress(machine, offset), REG_TMP, reg))
<1> DEFINE at == ComputeLocalAddress(machine, offset)
<1>1. at \in MachineStates /\ FrameOf(machine, at)
  BY LocalAddressKeepsFrame
<1> HIDE DEF at
<1>2. StoreR(at, REG_TMP, reg) \in MachineStates /\ FrameOf(at, StoreR(at, REG_TMP, reg))
  BY <1>1, StoresKeepFrame, FrameRegisters
<1>3. FrameOf(machine, StoreR(at, REG_TMP, reg))
  BY <1>1, <1>2 DEF FrameOf
<1>4. QED
  BY <1>2, <1>3 DEF at

-----------------------------------------------------------------------------
(* Steps *)

(* A step that moves neither sp, nor fp, nor the offset.                    *)
LEMMA StackKept ==
    ASSUME StackBelowLocals, FrameOf(cpu, cpu'), next_local_offset' = next_local_offset,
           InsideFunction' => InsideFunction
    PROVE  StackBelowLocals'
BY DEF StackBelowLocals, FrameOf

LEMMA StackExpression ==
    ASSUME TypeOK, StackBelowLocals, Expression
    PROVE  StackBelowLocals'
<1>1. next_local_offset' = next_local_offset /\ (InsideFunction' => InsideFunction)
  BY ShapeExpression DEF state, InsideFunction
<1>2. SUFFICES FrameOf(cpu, cpu')
  BY <1>1, StackKept
<1>3. cpu \in MachineStates /\ BinaryOps \subseteq AllBinaryOps /\ Literals \subseteq Int
      /\ "SUB" \in AllBinaryOps
  BY CodeGenAssumption DEF TypeOK, AllBinaryOps
<1>4. \A i \in DOMAIN symbols : symbols[i].place \in Int
  <2>1. \A i \in DOMAIN symbols : symbols[i] \in Symbols
    BY DEF TypeOK
  <2>2. QED
    BY <2>1 DEF Symbols
<1>5. cpu' = cpu => FrameOf(cpu, cpu')
  BY DEF FrameOf
<1>6. \A value \in Literals : ConstantLoad(value) => FrameOf(cpu, cpu')
  BY <1>3, WritesKeepFrame, FrameRegisters DEF ConstantLoad, PushTemporary
<1>7. ASSUME NEW x \in Names
      PROVE  LoadUnknown(x) => FrameOf(cpu, cpu')
  BY <1>3, WritesKeepFrame, FrameRegisters DEF LoadUnknown, PushTemporary
<1>8. ASSUME NEW x \in Names, LoadLocal(x)
      PROVE  FrameOf(cpu, cpu')
  <2>1. PICK i \in DOMAIN symbols, reg \in General :
            cpu' = LoadR(ComputeLocalAddress(cpu, symbols[i].place), reg, REG_TMP)
    BY <1>8 DEF LoadLocal, PushTemporary
  <2> DEFINE at == ComputeLocalAddress(cpu, symbols[i].place)
  <2>2. at \in MachineStates /\ FrameOf(cpu, at)
    BY <1>3, <1>4, LocalAddressKeepsFrame
  <2> HIDE DEF at
  <2>3. FrameOf(at, LoadR(at, reg, REG_TMP))
    BY <2>2, WritesKeepFrame, FrameRegisters
  <2>4. cpu' = LoadR(at, reg, REG_TMP)
    BY <2>1 DEF at
  <2>5. QED
    BY <2>2, <2>3, <2>4 DEF FrameOf
<1>9. ASSUME NEW x \in Names, LoadGlobal(x)
      PROVE  FrameOf(cpu, cpu')
  BY <1>3, <1>4, <1>9, WritesKeepFrame, FrameRegisters DEF LoadGlobal
<1>10. ASSUME NEW x \in Names, AddressOfLocal(x)
       PROVE  FrameOf(cpu, cpu')
  <2>1. PICK i \in DOMAIN symbols, reg \in General :
            cpu' = Ternary(Afc(cpu, reg, symbols[i].place), "SUB", reg, REG_FP, reg)
    BY <1>10 DEF AddressOfLocal, PushTemporary
  <2> DEFINE loaded == Afc(cpu, reg, symbols[i].place)
  <2>2. loaded \in MachineStates /\ FrameOf(cpu, loaded)
    BY <1>3, <1>4, WritesKeepFrame, FrameRegisters
  <2> HIDE DEF loaded
  <2>3. FrameOf(loaded, Ternary(loaded, "SUB", reg, REG_FP, reg))
    BY <1>3, <2>2, WritesKeepFrame, FrameRegisters
  <2>4. cpu' = Ternary(loaded, "SUB", reg, REG_FP, reg)
    BY <2>1 DEF loaded
  <2>5. QED
    BY <2>2, <2>3, <2>4 DEF FrameOf
<1>11. ASSUME NEW x \in Names, AddressOfGlobal(x)
       PROVE  FrameOf(cpu, cpu')
  BY <1>3, <1>4, <1>11, WritesKeepFrame, FrameRegisters DEF AddressOfGlobal, PushTemporary
<1>12. ASSUME NEW op \in BinaryOps, Binary(op)
       PROVE  FrameOf(cpu, cpu')
  <2>1. Top \in General /\ operands[Len(operands) - 1] \in General
    BY <1>12, HeldIsNat, TopIsGeneral DEF Binary
  <2>2. QED
    BY <1>3, <1>12, <2>1, WritesKeepFrame, FrameRegisters DEF Binary
<1>13. ASSUME Unary \/ PointerLoad
       PROVE  FrameOf(cpu, cpu')
  <2>1. Top \in General /\ (cpu' = Not(cpu, Top, Top) \/ cpu' = LoadR(cpu, Top, Top))
    BY <1>13, HeldIsNat, TopIsGeneral DEF Unary, PointerLoad, Overwrite
  <2>2. QED
    BY <1>3, <2>1, WritesKeepFrame, FrameRegisters
<1>14. (\E x \in Names : LoadCached(x) \/ AddressOfUnknown(x)) \/ OutOfRegisters => cpu' = cpu
  BY DEF LoadCached, AddressOfUnknown, OutOfRegisters, Exit
<1>15. QED
  BY <1>5, <1>6, <1>7, <1>8, <1>9, <1>10, <1>11, <1>12, <1>13, <1>14 DEF Expression

(* A call gives back the caller's sp and fp: what CodeGen assumes of the    *)
(* callee and Frames shows.                                                 *)
LEMMA StackCall ==
    ASSUME TypeOK, StackBelowLocals, CallExpression
    PROVE  StackBelowLocals'
<1>1. next_local_offset' = next_local_offset /\ (InsideFunction' => InsideFunction)
  BY ShapeExpression DEF state, InsideFunction
<1>2. ASSUME NEW f \in FunctionNames, FunctionCall(f)
      PROVE  FrameOf(cpu, cpu')
  <2>1. PICK reg \in General, r \in RegisterFiles, m \in Memories : CallReturns(reg, r, m)
    BY <1>2 DEF FunctionCall
  <2> DEFINE back == [a \in Word |-> IF a \in SavedCells THEN CallerMemory[a] ELSE m[a]]
             Given(k) == CASE k = reg -> r[REG_RETURN]
                           [] k \in {REG_SP, REG_FP} -> cpu.r[k]
                           [] k \in SavedRegisters -> back[SavedCell(k)]
                           [] k = REG_TMP /\ SavedRegisters \cup ArgumentRegisters # {} -> 1
                           [] OTHER -> r[k]
  <2>2. cpu'.r = [k \in Registers |-> Given(k)]
    BY <2>1 DEF CallReturns
  <2>3. {REG_SP, REG_FP} \cap SavedRegisters = {}
    BY FrameRegisters DEF SavedRegisters, InUse
  <2> HIDE DEF back
  <2>4. ASSUME NEW k \in {REG_SP, REG_FP}
        PROVE  Given(k) = cpu.r[k]
    BY <2>3, <2>4, FrameRegisters
  <2> HIDE DEF Given
  <2>5. QED
    BY <2>2, <2>4, FrameRegisters DEF FrameOf
<1>3. BeginFunctionArguments \/ AddFunctionArgument \/ (\E f \in FunctionNames : CallFails(f))
          => FrameOf(cpu, cpu')
  BY DEF BeginFunctionArguments, AddFunctionArgument, CallFails, Exit, FrameOf
<1>4. QED
  BY <1>1, <1>2, <1>3, StackKept DEF CallExpression

(* A declaration stores the value, then pushes: sp and the offset move      *)
(* together.                                                                *)
LEMMA StackDeclare ==
    ASSUME TypeOK, StackBelowLocals, InsideFunction, NEW x \in Names,
           NEW machine \in MachineStates, FrameOf(cpu, machine), NEW reg \in General,
           DeclareLocal(x, machine, reg)
    PROVE  cpu'.r[REG_SP] = Byte(cpu'.r[REG_FP] - next_local_offset')
<1> DEFINE stored == StoreR(ComputeLocalAddress(machine, next_local_offset), REG_TMP, reg)
<1>1. next_local_offset \in Int /\ cpu \in MachineStates
  BY DEF TypeOK
<1>2. stored \in MachineStates /\ FrameOf(machine, stored)
  BY <1>1, LocalStoreKeepsFrame, FrameRegisters
<1>3. cpu' = StackPush(stored) /\ next_local_offset' = next_local_offset + 1
  BY DEF DeclareLocal
<1> HIDE DEF stored
<1>4. /\ cpu'.r[REG_SP] = Byte(stored.r[REG_SP] - 1)
      /\ cpu'.r[REG_FP] = stored.r[REG_FP]
  BY <1>2, <1>3, StackPushEffect, FrameRegisters
<1>5. stored.r[REG_SP] = cpu.r[REG_SP] /\ stored.r[REG_FP] = cpu.r[REG_FP]
  BY <1>2 DEF FrameOf
<1>6. cpu.r[REG_FP] \in Int
  BY <1>1, MachineParts, FrameRegisters
<1> DEFINE place == cpu.r[REG_FP] - next_local_offset
<1>7. place \in Int /\ place + (-1) = cpu.r[REG_FP] - (next_local_offset + 1)
  BY <1>1, <1>6
<1>8. Byte(place) - 1 = Byte(place) + (-1) /\ Byte(Byte(place) + (-1)) = Byte(place + (-1))
  <2> HIDE DEF place
  <2> DEFINE cut == Byte(place)
  <2>1. cut \in Word
    BY <1>7, ByteIsWord
  <2>2. Byte(cut + (-1)) = Byte(place + (-1))
    BY <1>7, ByteOfSum
  <2> HIDE DEF cut
  <2>3. cut \in Int
    BY <2>1, ByteIsWord
  <2>4. cut - 1 = cut + (-1)
    BY <2>3
  <2>5. QED
    BY <2>2, <2>4 DEF cut
<1>9. cpu.r[REG_SP] = Byte(cpu.r[REG_FP] - next_local_offset)
  BY DEF StackBelowLocals
<1>10. QED
  BY <1>3, <1>4, <1>5, <1>7, <1>8, <1>9

(* The end of a block pops what its declarations pushed.                    *)
LEMMA StackEndBlock ==
    ASSUME TypeOK, BasesAgree, StackBelowLocals, EndBlock
    PROVE  StackBelowLocals'
<1> DEFINE base == scopes[Len(scopes)].local_offset_base
           count == next_local_offset - base
<1>1. /\ base \in Nat /\ next_local_offset \in Nat /\ count \in Int
      /\ cpu \in MachineStates
  <2>1. Len(scopes) \in Nat \ {0} /\ scopes \in Seq(Scopes)
    BY EmptySeq DEF TypeOK, EndBlock
  <2>2. scopes[Len(scopes)] \in Scopes
    BY <2>1
  <2>3. QED
    BY <2>2 DEF Scopes, TypeOK
<1>2. /\ cpu' = StackPops(cpu, count)
      /\ next_local_offset' = base
      /\ cpu.r[REG_SP] = Byte(cpu.r[REG_FP] - next_local_offset)
  <2>1. InsideFunction
    BY DEF EndBlock, StatementStart, InBody, InsideFunction, Bodies
  <2>2. QED
    BY <2>1 DEF EndBlock, StackBelowLocals
<1> HIDE DEF base
<1>3. cpu.r[REG_FP] \in Int
  BY <1>1, MachineParts, FrameRegisters
<1>4. CASE count = 0
  BY <1>1, <1>2, <1>4 DEF StackPops, StackBelowLocals
<1>5. CASE count # 0
  <2>1. cpu.r \in [Registers -> Word]
    BY <1>1 DEF MachineStates
  <2>2. cpu'.r = [cpu.r EXCEPT ![REG_TMP] = 1, ![REG_SP] = Byte(cpu.r[REG_SP] + count)]
    BY <1>2, <1>5 DEF StackPops
  <2>3. cpu'.r[REG_SP] = Byte(cpu.r[REG_SP] + count) /\ cpu'.r[REG_FP] = cpu.r[REG_FP]
    BY <2>1, <2>2, FrameRegisters
  <2>4. Byte(Byte(cpu.r[REG_FP] - next_local_offset) + count)
            = Byte((cpu.r[REG_FP] - next_local_offset) + count)
    <3> DEFINE low == cpu.r[REG_FP] - next_local_offset
    <3>1. low \in Int /\ count \in Int
      BY <1>1, <1>3
    <3> HIDE DEF low, count
    <3>2. Byte(Byte(low) + count) = Byte(low + count)
      BY <3>1, ByteOfSum
    <3>3. QED
      BY <3>2 DEF low
  <2>5. (cpu.r[REG_FP] - next_local_offset) + count = cpu.r[REG_FP] - base
    <3> DEFINE fp == cpu.r[REG_FP]
    <3>1. fp \in Int /\ base \in Int /\ next_local_offset \in Int /\ count = next_local_offset - base
      BY <1>1, <1>3
    <3> HIDE DEF fp, count
    <3>2. (fp - next_local_offset) + count = fp - base
      BY <3>1
    <3>3. QED
      BY <3>2 DEF fp
  <2>6. QED
    BY <1>2, <2>3, <2>4, <2>5 DEF StackBelowLocals
<1>6. QED
  BY <1>4, <1>5

LEMMA StackStatement ==
    ASSUME TypeOK, BasesAgree, StackBelowLocals, Statement
    PROVE  StackBelowLocals'
<1>1. cpu \in MachineStates /\ next_global_address \in Int /\ 0 \in Int
  BY DEF TypeOK
<1>2. \A i \in DOMAIN symbols : symbols[i].place \in Int
  <2>1. \A i \in DOMAIN symbols : symbols[i] \in Symbols
    BY DEF TypeOK
  <2>2. QED
    BY <2>1 DEF Symbols
<1>3. Len(operands) > 0 => Top \in General /\ Top \in Registers
  BY TopIsGeneral
<1>4. cpu' = cpu => FrameOf(cpu, cpu')
  BY DEF FrameOf
<1>5. ASSUME NEW x \in Names, Declaration(x)
      PROVE  StackBelowLocals'
  <2>1. phase' = phase /\ Top \in General
    BY <1>3, <1>5 DEF Declaration, OneValue
  <2>2. CASE InsideFunction
    <3>1. DeclareLocal(x, cpu, Top)
      BY <1>5, <2>2 DEF Declaration
    <3>2. FrameOf(cpu, cpu)
      BY DEF FrameOf
    <3>3. QED
      BY <1>1, <2>1, <2>2, <3>1, <3>2, StackDeclare DEF StackBelowLocals
  <2>3. CASE ~InsideFunction
    BY <2>1, <2>3 DEF StackBelowLocals, InsideFunction
  <2>4. QED
    BY <2>2, <2>3
<1>6. ASSUME NEW x \in Names, EmptyDeclaration(x)
      PROVE  StackBelowLocals'
  <2>1. phase' = phase
    BY <1>6 DEF EmptyDeclaration
  <2>2. CASE InsideFunction
    <3>1. PICK reg \in General : DeclareLocal(x, Afc(cpu, reg, 0), reg)
      BY <1>6, <2>2 DEF EmptyDeclaration
    <3>2. Afc(cpu, reg, 0) \in MachineStates /\ FrameOf(cpu, Afc(cpu, reg, 0))
      BY <1>1, WritesKeepFrame, FrameRegisters
    <3>3. QED
      BY <2>2, <3>1, <3>2, StackDeclare DEF StackBelowLocals
  <2>3. CASE ~InsideFunction
    BY <2>1, <2>3 DEF StackBelowLocals, InsideFunction
  <2>4. QED
    BY <2>2, <2>3
<1>7. ASSUME NEW x \in Names, AssignLocal(x)
      PROVE  FrameOf(cpu, cpu')
  <2>1. PICK i \in DOMAIN symbols :
            cpu' = StoreR(ComputeLocalAddress(cpu, symbols[i].place), REG_TMP, Top)
    BY <1>7 DEF AssignLocal
  <2>2. Top \in Registers
    BY <1>3, <1>7 DEF AssignLocal, OneValue
  <2>3. QED
    BY <1>1, <1>2, <2>1, <2>2, LocalStoreKeepsFrame
<1>8. ASSUME NEW x \in Names, AssignGlobal(x)
      PROVE  FrameOf(cpu, cpu')
  <2>1. PICK i \in DOMAIN symbols : cpu' = Store(cpu, symbols[i].place, Top)
    BY <1>8 DEF AssignGlobal
  <2>2. Top \in Registers
    BY <1>3, <1>8 DEF AssignGlobal, OneValue
  <2>3. QED
    BY <1>1, <1>2, <2>1, <2>2, StoresKeepFrame
<1>9. PointerStore => FrameOf(cpu, cpu')
  <2> SUFFICES ASSUME PointerStore PROVE FrameOf(cpu, cpu')
    OBVIOUS
  <2>1. operands \in Seq(General) /\ Len(operands) = 2
    BY DEF PointerStore, TypeOK
  <2>2. operands[1] \in Registers /\ operands[2] \in Registers
    BY <2>1, FrameRegisters
  <2>3. QED
    BY <1>1, <2>2, StoresKeepFrame DEF PointerStore
<1>10. ReturnStatement \/ Join => FrameOf(cpu, cpu')
  BY ElsewhereType DEF ReturnStatement, Join, FrameOf
<1>11. ConditionalJump => FrameOf(cpu, cpu')
  BY <1>4, ElsewhereType DEF ConditionalJump, FrameOf
<1>12. (\E x \in Names : AssignUnknown(x)) \/ PrintStatement \/ DiscardExpression \/ BeginBlock
           => FrameOf(cpu, cpu')
  BY <1>4 DEF AssignUnknown, PrintStatement, DiscardExpression, BeginBlock
<1>13. ASSUME \/ \E x \in Names : AssignUnknown(x) \/ AssignLocal(x) \/ AssignGlobal(x)
              \/ PointerStore \/ PrintStatement \/ DiscardExpression \/ ReturnStatement
              \/ ConditionalJump \/ Join \/ BeginBlock
       PROVE  next_local_offset' = next_local_offset /\ (InsideFunction' => InsideFunction)
  <2>1. (phase' = phase /\ next_local_offset' = next_local_offset) \/ BeginBlock
    BY <1>13 DEF AssignUnknown, AssignLocal, AssignGlobal, PointerStore, PrintStatement,
                 DiscardExpression, ReturnStatement, ConditionalJump, Join, state
  <2>2. BeginBlock => next_local_offset' = next_local_offset /\ InsideFunction
    BY DEF BeginBlock, StatementStart, InBody, InsideFunction, Bodies
  <2>3. QED
    BY <2>1, <2>2 DEF InsideFunction
<1>14. QED
  BY <1>5, <1>6, <1>7, <1>8, <1>9, <1>10, <1>11, <1>12, <1>13, StackKept, StackEndBlock DEF Statement

-----------------------------------------------------------------------------
(* The starts of functions and of main *)

LEMMA CopyOfWord ==
    ASSUME NEW machine \in MachineStates
    PROVE  LET after == Cop(machine, REG_FP, REG_SP)
           IN  /\ after \in MachineStates
               /\ after.r[REG_SP] = machine.r[REG_SP]
               /\ after.r[REG_FP] = after.r[REG_SP]
<1>1. machine.r[REG_SP] \in Word /\ machine.r[REG_SP] \in Int
      /\ Byte(machine.r[REG_SP]) = machine.r[REG_SP]
  BY MachineParts, FrameRegisters, ByteIsWord
<1>2. QED
  BY <1>1, SetRegisterType, FrameRegisters DEF Cop

(* The prefix ends with fp where sp is.                                     *)
LEMMA PrefixOpensFrame ==
    ASSUME NEW machine \in MachineStates
    PROVE  LET after == FunctionPrefix(machine)
           IN  after \in MachineStates /\ after.r[REG_FP] = after.r[REG_SP]
<1> DEFINE raSaved == StackPush(StoreR(machine, REG_SP, REG_RA))
           fpSaved == StackPush(StoreR(raSaved, REG_SP, REG_FP))
<1>0. {REG_SP, REG_FP, REG_RA} \subseteq Registers
  BY FrameRegisters
<1>1. raSaved \in MachineStates
  <2>1. StoreR(machine, REG_SP, REG_RA) \in MachineStates
    BY <1>0, InstructionTypes
  <2>2. QED
    BY <2>1, SequenceTypes
<1>2. fpSaved \in MachineStates
  <2> HIDE DEF raSaved
  <2>1. StoreR(raSaved, REG_SP, REG_FP) \in MachineStates
    BY <1>0, <1>1, InstructionTypes
  <2>2. QED
    BY <2>1, SequenceTypes
<1>3. FunctionPrefix(machine) = Cop(fpSaved, REG_FP, REG_SP)
  BY DEF FunctionPrefix
<1> HIDE DEF fpSaved
<1>4. QED
  BY <1>2, <1>3, CopyOfWord

(* The parameters are copied and pushed, one slot each.                     *)
LEMMA ParametersBelowFrame ==
    ASSUME NEW machine \in MachineStates, machine.r[REG_FP] = machine.r[REG_SP],
           NEW count \in Nat, NEW reg \in General
    PROVE  LET after == ParameterLocals(machine, count, reg)
           IN  after.r[REG_SP] = Byte(after.r[REG_FP] - count)
<1> DEFINE after == ParameterLocals(machine, count, reg)
<1>1. machine.r[REG_SP] \in Word /\ machine.r[REG_SP] \in Int
      /\ Byte(machine.r[REG_SP]) = machine.r[REG_SP]
  BY MachineParts, FrameRegisters, ByteIsWord
<1>2. CASE count = 0
  <2>1. after = machine
    BY <1>2 DEF ParameterLocals
  <2>2. machine.r[REG_FP] - count = machine.r[REG_SP]
    BY <1>1, <1>2
  <2>3. QED
    BY <1>1, <2>1, <2>2
<1>3. CASE count # 0
  <2>1. machine.r \in [Registers -> Word]
    BY DEF MachineStates
  <2>2. PICK value : after.r = [machine.r EXCEPT ![reg] = value, ![REG_TMP] = 1,
                                    ![REG_SP] = Byte(machine.r[REG_SP] - count)]
    BY <1>3 DEF ParameterLocals
  <2> HIDE DEF after
  <2>3. /\ after.r[REG_SP] = Byte(machine.r[REG_SP] - count)
        /\ after.r[REG_FP] = machine.r[REG_FP]
    BY <2>1, <2>2, FrameRegisters
  <2>4. QED
    BY <2>3 DEF after
<1>4. QED
  BY <1>2, <1>3

LEMMA StackTopLevel ==
    ASSUME TypeOK, StackBelowLocals, TopLevel
    PROVE  StackBelowLocals'
<1>1. \A r \in RegisterFiles, m \in Memories : [r |-> r, m |-> m] \in MachineStates
  BY CodeGenAssumption DEF MachineStates
<1>2. ProgramStart \/ EndFunctionDefinition \/ EndMainMethod
          \/ (\E parameters \in ParameterLists : DefinitionFails(parameters)) => ~InsideFunction'
  BY DEF ProgramStart, EndFunctionDefinition, EndMainMethod, DefinitionFails, Exit, InsideFunction
<1>3. ASSUME NEW parameters \in ParameterLists, NEW f \in FunctionNames,
             BeginFunctionDefinition(f, parameters)
      PROVE  StackBelowLocals'
  <2>1. PICK r \in RegisterFiles, m \in Memories, reg \in General :
            cpu' = ParameterLocals(FunctionPrefix([r |-> r, m |-> m]), Len(parameters), reg)
    BY <1>3 DEF BeginFunctionDefinition
  <2>2. Len(parameters) \in Nat /\ next_local_offset' = Len(parameters)
    BY <1>3, CodeGenAssumption DEF BeginFunctionDefinition
  <2> DEFINE opened == FunctionPrefix([r |-> r, m |-> m])
  <2>3. opened \in MachineStates /\ opened.r[REG_FP] = opened.r[REG_SP]
    BY <1>1, PrefixOpensFrame
  <2>4. cpu' = ParameterLocals(opened, Len(parameters), reg)
    BY <2>1
  <2> HIDE DEF opened
  <2>5. cpu'.r[REG_SP] = Byte(cpu'.r[REG_FP] - Len(parameters))
    BY <2>2, <2>3, <2>4, ParametersBelowFrame
  <2>6. QED
    BY <2>2, <2>5 DEF StackBelowLocals
<1>4. ASSUME BeginMainMethod
      PROVE  StackBelowLocals'
  <2>1. PICK r \in RegisterFiles, m \in Memories :
            cpu' = Cop(Afc([r |-> r, m |-> m], REG_SP, WordSize - 1), REG_FP, REG_SP)
    BY <1>4 DEF BeginMainMethod
  <2> DEFINE top == Afc([r |-> r, m |-> m], REG_SP, WordSize - 1)
  <2>2. top \in MachineStates
    BY <1>1, WordSizeAssumption, InstructionTypes, FrameRegisters
  <2>3. cpu' = Cop(top, REG_FP, REG_SP) /\ next_local_offset' = 0
    BY <1>4, <2>1 DEF BeginMainMethod
  <2> HIDE DEF top
  <2>4. cpu' \in MachineStates /\ cpu'.r[REG_FP] = cpu'.r[REG_SP]
    BY <2>2, <2>3, CopyOfWord
  <2>5. cpu'.r[REG_SP] \in Word /\ cpu'.r[REG_SP] \in Int
    BY <2>4, MachineParts, FrameRegisters
  <2>6. cpu'.r[REG_FP] - next_local_offset' = cpu'.r[REG_SP]
    BY <2>3, <2>4, <2>5
  <2>7. cpu'.r[REG_SP] = Byte(cpu'.r[REG_FP] - next_local_offset')
    BY <2>5, <2>6, ByteIsWord
  <2>8. QED
    BY <2>7 DEF StackBelowLocals
<1>5. ~InsideFunction' => StackBelowLocals'
  BY DEF StackBelowLocals
<1>6. QED
  BY <1>2, <1>3, <1>4, <1>5 DEF TopLevel

LEMMA StackStep == ShapeInv /\ StackBelowLocals /\ [Next]_vars => StackBelowLocals'
<1> SUFFICES ASSUME ShapeInv, StackBelowLocals, [Next]_vars PROVE StackBelowLocals'
  OBVIOUS
<1>1. TypeOK /\ BasesAgree
  BY DEF ShapeInv
<1>2. CASE UNCHANGED vars
  BY <1>2 DEF vars, state, StackBelowLocals, InsideFunction
<1>3. QED
  BY <1>1, <1>2, StackExpression, StackCall, StackStatement, StackTopLevel DEF Next, Finished

(* In every function, after every declaration, block, branch, call and      *)
(* return, the cell sp names is the first one below the live locals: no     *)
(* push of the caller or of a callee's prefix lands on one.                 *)
THEOREM StackStaysBelowLocals == Spec => []StackBelowLocals
<1>1. Init => StackBelowLocals
  BY DEF Init, StackBelowLocals, InsideFunction
<1>2. QED
  BY <1>1, ShapeInit, ShapeStep, StackStep, PTL DEF Spec

-----------------------------------------------------------------------------
(* Register discipline: no register leaks and none is handed out twice, for *)
(* every number of registers, nesting of calls and program.                 *)

HeldIn(values) == {values[i] : i \in DOMAIN values}
Distinct(values) == \A i, j \in DOMAIN values : values[i] = values[j] => i = j

(* Between functions and around bodies the parser holds no value: what the  *)
(* starts and ends of functions, which reset the descriptors, rely on.      *)
NothingHeld ==
    phase \notin Bodies \cup {"globals", "exit"} => operands = <<>> /\ calls = <<>>

RegisterInv == RegisterDiscipline /\ NothingHeld

-----------------------------------------------------------------------------
(* What the operations of registers.c do to the set of registers in use. *)

LEMMA InUseAfter ==
    ASSUME NEW table \in Tables, NEW reg \in General
    PROVE  /\ InUse(RegistersInit) = {}
           /\ InUse(RegisterUse(table, reg)) = InUse(table) \cup {reg}
           /\ InUse(RegisterAlloc(table, reg)) = InUse(table) \cup {reg}
           /\ InUse(RegisterFree(table, reg)) = InUse(table) \ {reg}
           /\ \A address \in Nat : InUse(RegisterBindMemory(table, reg, address)) = InUse(table)
           /\ InUse(RegisterMarkTemporary(table, reg)) = InUse(table)
           /\ \A forgotten : InUse(Forget(table, forgotten)) = InUse(table)
           /\ Available(table) = General \ InUse(table)
BY DEF Tables, Descriptors, InUse, Available, RegistersInit, RegisterUse, RegisterAlloc, RegisterFree,
       RegisterBindMemory, RegisterMarkTemporary, Forget

(* What the parser's pushes and pops do to the values it holds. *)
LEMMA Pushed ==
    ASSUME NEW values \in Seq(General), Distinct(values), NEW reg \in General, reg \notin HeldIn(values)
    PROVE  /\ HeldIn(Append(values, reg)) = HeldIn(values) \cup {reg}
           /\ Distinct(Append(values, reg))
<1> DEFINE longer == Append(values, reg)
<1>1. /\ Len(values) \in Nat /\ DOMAIN values = 1..Len(values)
      /\ DOMAIN longer = 1..(Len(values) + 1) /\ longer[Len(values) + 1] = reg
      /\ \A i \in 1..Len(values) : longer[i] = values[i]
  OBVIOUS
<1> HIDE DEF longer
<1>2. DOMAIN longer = DOMAIN values \cup {Len(values) + 1}
  BY <1>1
<1>3. HeldIn(longer) = HeldIn(values) \cup {reg}
  BY <1>1, <1>2 DEF HeldIn
<1>4. Distinct(longer)
  BY <1>1, <1>2 DEF HeldIn, Distinct
<1>5. QED
  BY <1>3, <1>4 DEF longer

LEMMA Kept ==
    ASSUME NEW values \in Seq(General), Distinct(values), NEW n \in Nat, n <= Len(values)
    PROVE  /\ HeldIn(SubSeq(values, 1, n)) = HeldIn(values) \ {values[i] : i \in (n + 1)..Len(values)}
           /\ Distinct(SubSeq(values, 1, n))
<1> DEFINE kept == SubSeq(values, 1, n)
<1>1. /\ Len(values) \in Nat /\ DOMAIN values = 1..Len(values)
      /\ DOMAIN kept = 1..n
      /\ \A i \in 1..n : kept[i] = values[i]
  OBVIOUS
<1> HIDE DEF kept
<1>2. DOMAIN values = (1..n) \cup ((n + 1)..Len(values))
      /\ (1..n) \cap ((n + 1)..Len(values)) = {}
  BY <1>1
<1>3. HeldIn(kept) = HeldIn(values) \ {values[i] : i \in (n + 1)..Len(values)}
  BY <1>1, <1>2 DEF HeldIn, Distinct
<1>4. Distinct(kept)
  BY <1>1, <1>2 DEF Distinct
<1>5. QED
  BY <1>3, <1>4 DEF kept

LEMMA NoneHeld == HeldIn(<<>>) = {} /\ Distinct(<<>>)
BY DEF HeldIn, Distinct

LEMMA OneHeld ==
    ASSUME TypeOK, Len(operands) = 1
    PROVE  HeldIn(operands) = {Top}
<1>1. DOMAIN operands = {1}
  BY DEF TypeOK
<1>2. QED
  BY <1>1 DEF HeldIn, Top

LEMMA Discipline ==
    /\ RegisterDiscipline <=> InUse(registers) = HeldIn(operands) /\ Distinct(operands)
    /\ RegisterDiscipline' <=> InUse(registers') = HeldIn(operands') /\ Distinct(operands')
BY DEF RegisterDiscipline, HeldIn, Distinct

-----------------------------------------------------------------------------
(* Step by step *)

(* A value is pushed in a register that was available.                      *)
LEMMA DisciplinePush ==
    ASSUME TypeOK, RegisterDiscipline, NEW reg \in General, reg \in Available(registers),
           operands' = Append(operands, reg), InUse(registers') = InUse(registers) \cup {reg}
    PROVE  RegisterDiscipline'
<1>1. InUse(registers) = HeldIn(operands) /\ Distinct(operands)
  BY Discipline
<1>2. reg \notin HeldIn(operands) /\ operands \in Seq(General)
  BY <1>1 DEF Available, InUse, TypeOK
<1>3. QED
  BY <1>1, <1>2, Pushed, Discipline

LEMMA DisciplineExpression ==
    ASSUME TypeOK, RegisterDiscipline, Expression
    PROVE  RegisterDiscipline'
<1> registers \in Tables /\ operands \in Seq(General) /\ Len(operands) \in Nat
  BY DEF TypeOK, Tables
<1>a. InUse(registers) = HeldIn(operands) /\ Distinct(operands)
  BY Discipline
<1>b. \A reg \in General : Fresh(reg) => reg \in Available(registers)
  BY DEF Fresh, IsLowest
<1>1. ASSUME NEW reg \in General, NEW machine, Fresh(reg), PushTemporary(reg, machine)
      PROVE  RegisterDiscipline'
  <2>1. RegisterAlloc(registers, reg) \in Tables
    BY TableTypes
  <2>2. InUse(registers') = InUse(registers) \cup {reg}
    BY <1>1, <2>1, InUseAfter DEF PushTemporary
  <2>3. QED
    BY <1>1, <1>b, <2>2, DisciplinePush DEF PushTemporary
<1>2. \A value \in Literals : ConstantLoad(value) => RegisterDiscipline'
  BY <1>1 DEF ConstantLoad
<1>3. ASSUME NEW x \in Names
      PROVE  /\ LoadUnknown(x) => RegisterDiscipline'
             /\ LoadLocal(x) => RegisterDiscipline'
             /\ AddressOfLocal(x) => RegisterDiscipline'
             /\ AddressOfGlobal(x) => RegisterDiscipline'
  BY <1>1 DEF LoadUnknown, LoadLocal, AddressOfLocal, AddressOfGlobal
<1>4. ASSUME NEW x \in Names, LoadCached(x)
      PROVE  RegisterDiscipline'
  <2>1. PICK i \in DOMAIN symbols, reg \in General :
            /\ reg \in CleanCopies(registers, symbols[i].place)
            /\ registers' = RegisterUse(registers, reg)
            /\ operands' = Append(operands, reg)
    BY <1>4 DEF LoadCached, IsLowest
  <2>2. reg \in Available(registers) /\ InUse(registers') = InUse(registers) \cup {reg}
    BY <2>1, InUseAfter DEF CleanCopies
  <2>3. QED
    BY <2>1, <2>2, DisciplinePush
<1>5. ASSUME NEW x \in Names, LoadGlobal(x)
      PROVE  RegisterDiscipline'
  <2>1. PICK i \in DOMAIN symbols, reg \in General :
            /\ Fresh(reg)
            /\ registers' = RegisterBindMemory(RegisterAlloc(registers, reg), reg, symbols[i].place)
            /\ operands' = Append(operands, reg)
    BY <1>5 DEF LoadGlobal
  <2>2. symbols[i].place \in Nat
    <3>1. symbols[i] \in Symbols
      BY DEF TypeOK
    <3>2. QED
      BY <3>1 DEF Symbols
  <2>3. RegisterAlloc(registers, reg) \in Tables
    BY TableTypes
  <2>4. InUse(registers') = InUse(registers) \cup {reg}
    BY <2>1, <2>2, <2>3, InUseAfter
  <2>5. QED
    BY <1>b, <2>1, <2>4, DisciplinePush
<1>6. ASSUME NEW x \in Names, AddressOfUnknown(x)
      PROVE  RegisterDiscipline'
  <2>1. PICK reg \in General : /\ Fresh(reg)
                               /\ registers' = RegisterAlloc(registers, reg)
                               /\ operands' = Append(operands, reg)
    BY <1>6 DEF AddressOfUnknown
  <2>2. InUse(registers') = InUse(registers) \cup {reg}
    BY <2>1, InUseAfter
  <2>3. QED
    BY <1>b, <2>1, <2>2, DisciplinePush
<1>7. ASSUME NEW op \in BinaryOps, Binary(op)
      PROVE  RegisterDiscipline'
  <2>1. Len(operands) > 1
    BY <1>7, HeldIsNat DEF Binary
  <2>2. Top \in General /\ operands[Len(operands) - 1] \in General
    BY <2>1, TopIsGeneral
  <2>3. RegisterFree(registers, Top) \in Tables
    BY <2>2, TableTypes
  <2>4. InUse(registers') = InUse(registers) \ {Top}
    BY <1>7, <2>2, <2>3, InUseAfter DEF Binary
  <2>5. HeldIn(operands') = HeldIn(operands) \ {Top} /\ Distinct(operands')
    <3>1. operands' = SubSeq(operands, 1, Len(operands) - 1)
      BY <1>7 DEF Binary, Pop
    <3>2. Len(operands) - 1 \in Nat /\ ((Len(operands) - 1) + 1)..Len(operands) = {Len(operands)}
      BY <2>1
    <3>3. {operands[i] : i \in ((Len(operands) - 1) + 1)..Len(operands)} = {Top}
      BY <3>2 DEF Top
    <3>4. Len(operands) - 1 <= Len(operands)
      BY <2>1
    <3>5. QED
      BY <1>a, <3>1, <3>2, <3>3, <3>4, Kept
  <2>6. QED
    BY <1>a, <2>4, <2>5, Discipline
<1>8. ASSUME NEW kind, NEW machine, Overwrite(kind, machine)
      PROVE  RegisterDiscipline'
  <2>1. Top \in General /\ operands' = operands
    BY <1>8, HeldIsNat, TopIsGeneral DEF Overwrite
  <2>2. InUse(registers') = InUse(registers)
    BY <1>8, <2>1, InUseAfter DEF Overwrite
  <2>3. QED
    BY <1>a, <2>1, <2>2, Discipline
<1>9. Unary \/ PointerLoad => RegisterDiscipline'
  BY <1>8 DEF Unary, PointerLoad
<1>10. OutOfRegisters => RegisterDiscipline'
  BY <1>a, Discipline DEF OutOfRegisters, Exit
<1>11. QED
  BY <1>2, <1>3, <1>4, <1>5, <1>6, <1>7, <1>9, <1>10 DEF Expression

(* The arguments of a call are given back all together, then its result     *)
(* takes a register that is then available.                                 *)
LEMMA DisciplineCall ==
    ASSUME TypeOK, ListsNest, RegisterDiscipline, NEW f \in FunctionNames, FunctionCall(f)
    PROVE  RegisterDiscipline'
<1> DEFINE base == calls[Len(calls)].base
           freed == [reg \in General |-> IF reg \in ArgumentRegisters
                                         THEN [registers[reg] EXCEPT !.in_use = FALSE]
                                         ELSE registers[reg]]
           table == RegisterForgetAvailable(freed)
           kept == SubSeq(operands, 1, base)
<1>1. /\ InUse(registers) = HeldIn(operands) /\ Distinct(operands)
      /\ operands \in Seq(General) /\ calls # <<>> /\ Len(operands) = Held
  BY Discipline DEF TypeOK, FunctionCall
<1>2. freed \in Tables /\ InUse(freed) = InUse(registers) \ ArgumentRegisters
  BY DEF TypeOK, Tables, Descriptors, InUse
<1>3. PICK reg \in General :
          /\ reg \in Available(table)
          /\ registers' = RegisterMarkTemporary(RegisterAlloc(table, reg), reg)
          /\ operands' = Append(kept, reg)
  BY DEF FunctionCall, IsLowest
<1>4. table \in Tables /\ InUse(table) = InUse(freed)
  <2> HIDE DEF freed
  <2>1. \A forgotten : Forget(freed, forgotten) \in Tables /\ InUse(Forget(freed, forgotten)) = InUse(freed)
    BY <1>2, TableTypes, InUseAfter
  <2>2. QED
    BY <2>1 DEF RegisterForgetAvailable
<1>5. HeldIn(kept) = HeldIn(operands) \ ArgumentRegisters /\ Distinct(kept) /\ kept \in Seq(General)
  <2>1. /\ base \in Nat /\ base <= Len(operands) /\ kept \in Seq(General)
        /\ Len(Arguments) = calls[Len(calls)].count /\ calls[Len(calls)].count \in Nat
        /\ Len(operands) = base + calls[Len(calls)].count
        /\ DOMAIN Arguments = 1..Len(Arguments)
        /\ \A i \in DOMAIN Arguments : Arguments[i] = operands[base + i]
    BY <1>1, ArgumentsType
  <2> HIDE DEF base, kept
  <2>2. /\ \A i \in DOMAIN Arguments : base + i \in (base + 1)..Len(operands)
        /\ \A k \in (base + 1)..Len(operands) : k - base \in DOMAIN Arguments /\ base + (k - base) = k
    <3>1. /\ base \in Nat /\ Len(Arguments) \in Nat /\ Len(operands) = base + Len(Arguments)
          /\ DOMAIN Arguments = 1..Len(Arguments)
      BY <2>1
    <3> DEFINE n == Len(Arguments)
               m == Len(operands)
    <3> HIDE DEF n, m
    <3>2. base \in Nat /\ n \in Nat /\ m = base + n /\ DOMAIN Arguments = 1..n
      BY <3>1 DEF n, m
    <3>3. /\ \A i \in 1..n : base + i \in (base + 1)..m
          /\ \A k \in (base + 1)..m : k - base \in 1..n /\ base + (k - base) = k
      BY <3>2
    <3>4. QED
      BY <3>2, <3>3 DEF m
  <2>3. {operands[k] : k \in (base + 1)..Len(operands)} \subseteq ArgumentRegisters
    <3>1. ASSUME NEW k \in (base + 1)..Len(operands)
          PROVE  \E i \in DOMAIN Arguments : operands[k] = Arguments[i]
      <4>1. k - base \in DOMAIN Arguments /\ base + (k - base) = k
        BY <2>2
      <4>2. Arguments[k - base] = operands[k]
        BY <2>1, <4>1
      <4>3. QED
        BY <4>1, <4>2
    <3>2. QED
      BY <3>1 DEF ArgumentRegisters
  <2>4. ArgumentRegisters \subseteq {operands[k] : k \in (base + 1)..Len(operands)}
    <3>1. ASSUME NEW i \in DOMAIN Arguments
          PROVE  \E k \in (base + 1)..Len(operands) : Arguments[i] = operands[k]
      <4>1. base + i \in (base + 1)..Len(operands) /\ Arguments[i] = operands[base + i]
        BY <2>1, <2>2
      <4>2. QED
        BY <4>1
    <3>2. QED
      BY <3>1 DEF ArgumentRegisters
  <2>5. QED
    BY <1>1, <2>1, <2>3, <2>4, Kept DEF kept
<1> HIDE DEF table, freed, kept
<1>6. /\ reg \notin InUse(table)
      /\ InUse(registers') = InUse(table) \cup {reg}
  <2>1. RegisterAlloc(table, reg) \in Tables
    BY <1>4, TableTypes
  <2>2. QED
    BY <1>3, <1>4, <2>1, InUseAfter
<1>7. HeldIn(operands') = HeldIn(kept) \cup {reg} /\ Distinct(operands')
  BY <1>1, <1>2, <1>3, <1>4, <1>5, <1>6, Pushed
<1>8. QED
  BY <1>1, <1>2, <1>4, <1>5, <1>6, <1>7, Discipline

(* A statement gives every register back, or touches none.                  *)
LEMMA DisciplineStatement ==
    ASSUME TypeOK, RegisterDiscipline, Statement
    PROVE  RegisterDiscipline'
<1> registers \in Tables /\ 1 \in General
  BY LastGeneralAssumption DEF TypeOK, Tables, General, REG_FIRST_GENERAL, REG_LAST_GENERAL
<1>a. InUse(registers) = HeldIn(operands) /\ Distinct(operands)
  BY Discipline
<1>1. ASSUME registers' = RegistersInit, operands' = <<>>
      PROVE  RegisterDiscipline'
  BY <1>1, InUseAfter, NoneHeld, Discipline
<1>2. ASSUME NEW table \in Tables, NEW reg \in General, InUse(table) = {reg},
             registers' = RegisterFree(table, reg), operands' = <<>>
      PROVE  RegisterDiscipline'
  BY <1>2, InUseAfter, NoneHeld, Discipline
<1>3. ASSUME NEW table \in Tables, NEW reg \in General, NEW address \in Nat
      PROVE  LET bound == RegisterBindMemory(RegisterForgetMemory(table, address), reg, address)
             IN  bound \in Tables /\ InUse(bound) = InUse(table)
  <2>1. /\ RegisterForgetMemory(table, address) \in Tables
        /\ InUse(RegisterForgetMemory(table, address)) = InUse(table)
    BY TableTypes, InUseAfter DEF RegisterForgetMemory
  <2>2. QED
    BY <2>1, TableTypes, InUseAfter
<1>4. OneValue => Top \in General /\ InUse(registers) = {Top}
  BY <1>a, OneHeld, TopIsGeneral DEF OneValue
<1>5. ASSUME NEW x \in Names, Declaration(x)
      PROVE  RegisterDiscipline'
  <2>1. CASE registers' = RegistersInit
    BY <1>1, <1>5, <2>1 DEF Declaration
  <2>2. CASE DeclareGlobal(x, cpu, registers, Top)
    <3>1. next_global_address \in Nat
      BY DEF TypeOK
    <3>2. QED
      BY <1>2, <1>3, <1>4, <1>5, <2>2, <3>1 DEF Declaration, DeclareGlobal
  <2>3. QED
    BY <1>5, <2>1, <2>2 DEF Declaration, DeclareLocal
<1>6. ASSUME NEW x \in Names, EmptyDeclaration(x)
      PROVE  RegisterDiscipline'
  <2>1. operands = <<>> /\ operands' = <<>>
    BY <1>6 DEF EmptyDeclaration
  <2>2. CASE registers' = RegistersInit
    BY <1>1, <2>1, <2>2
  <2>3. CASE registers' # RegistersInit
    <3> DEFINE table(reg) == RegisterMarkTemporary(RegisterAlloc(registers, reg), reg)
    <3>1. PICK reg \in General : DeclareGlobal(x, Afc(cpu, reg, 0), table(reg), reg)
      BY <1>6, <2>3 DEF EmptyDeclaration, DeclareLocal
    <3>2. RegisterAlloc(registers, reg) \in Tables
      BY TableTypes
    <3>3. table(reg) \in Tables /\ InUse(table(reg)) = {reg}
      <4>1. table(reg) \in Tables /\ InUse(table(reg)) = InUse(RegisterAlloc(registers, reg))
        BY <3>2, TableTypes, InUseAfter
      <4>2. InUse(RegisterAlloc(registers, reg)) = InUse(registers) \cup {reg}
        BY InUseAfter
      <4>3. InUse(registers) = {}
        BY <1>a, <2>1, NoneHeld
      <4>4. QED
        BY <4>1, <4>2, <4>3
    <3> HIDE DEF table
    <3>4. next_global_address \in Nat
      BY DEF TypeOK
    <3>5. QED
      BY <1>2, <1>3, <2>1, <3>1, <3>3, <3>4 DEF DeclareGlobal
  <2>4. QED
    BY <2>2, <2>3
<1>7. ASSUME NEW x \in Names, AssignUnknown(x)
      PROVE  RegisterDiscipline'
  BY <1>2, <1>4, <1>7 DEF AssignUnknown
<1>8. ASSUME NEW x \in Names, AssignGlobal(x)
      PROVE  RegisterDiscipline'
  <2>1. PICK i \in DOMAIN symbols :
            registers' = RegisterFree(
                RegisterBindMemory(RegisterForgetMemory(registers, symbols[i].place),
                                   Top, symbols[i].place), Top)
    BY <1>8 DEF AssignGlobal
  <2>2. symbols[i].place \in Nat
    <3>1. symbols[i] \in Symbols
      BY DEF TypeOK
    <3>2. QED
      BY <3>1 DEF Symbols
  <2>3. QED
    BY <1>2, <1>3, <1>4, <1>8, <2>1, <2>2 DEF AssignGlobal
<1>9. ASSUME NEW x \in Names, AssignLocal(x)
      PROVE  RegisterDiscipline'
  BY <1>1, <1>9 DEF AssignLocal
<1>10. PrintStatement => RegisterDiscipline'
  BY <1>2, <1>4 DEF PrintStatement
<1>11. PointerStore \/ DiscardExpression \/ ReturnStatement \/ ConditionalJump \/ Join \/ EndBlock
           => RegisterDiscipline'
  BY <1>1 DEF PointerStore, DiscardExpression, ReturnStatement, ConditionalJump, Join, EndBlock,
              StatementStart
<1>12. BeginBlock => RegisterDiscipline'
  BY <1>a, Discipline DEF BeginBlock
<1>13. QED
  BY <1>5, <1>6, <1>7, <1>8, <1>9, <1>10, <1>11, <1>12 DEF Statement

LEMMA DisciplineTopLevel ==
    ASSUME TypeOK, RegisterDiscipline, NothingHeld, TopLevel
    PROVE  RegisterDiscipline'
<1> registers \in Tables /\ 1 \in General
  BY LastGeneralAssumption DEF TypeOK, Tables, General, REG_FIRST_GENERAL, REG_LAST_GENERAL
<1>1. ASSUME registers' = RegistersInit, operands' = <<>>
      PROVE  RegisterDiscipline'
  BY <1>1, InUseAfter, NoneHeld, Discipline
<1>2. Exit => RegisterDiscipline'
  BY Discipline DEF Exit
<1>3. QED
  BY <1>1, <1>2 DEF TopLevel, ProgramStart, BeginFunctionDefinition, DefinitionFails,
     EndFunctionDefinition, BeginMainMethod, EndMainMethod, NothingHeld, Bodies

LEMMA NothingHeldStep ==
    ASSUME NothingHeld, [Next]_vars
    PROVE  NothingHeld'
<1>1. CASE Expression \/ CallExpression
  <2>1. phase' = "exit" \/ phase' = phase
    BY <1>1, ShapeExpression
  <2>2. phase' = "exit" \/ phase \in Bodies \cup {"globals"} \/ calls # <<>>
    BY <1>1 DEF Expression, ConstantLoad, LoadUnknown, LoadLocal, LoadCached, LoadGlobal,
         AddressOfLocal, AddressOfGlobal, AddressOfUnknown, Binary, Unary, PointerLoad, Overwrite,
         OutOfRegisters, Exit, PushTemporary, CallExpression, BeginFunctionArguments,
         AddFunctionArgument, FunctionCall, CallFails, InExpression
  <2>3. QED
    BY <2>1, <2>2 DEF NothingHeld
<1>2. CASE Statement
  <2>1. ASSUME BeginBlock \/ EndBlock
        PROVE  operands' = operands /\ calls' = calls
    BY <2>1 DEF BeginBlock, EndBlock
  <2>2. ASSUME BeginBlock
        PROVE  phase' \in Bodies
    BY <2>2 DEF BeginBlock, StatementStart, InBody, Bodies
  <2>3. ASSUME EndBlock
        PROVE  operands = <<>> /\ calls = <<>>
    BY <2>3 DEF EndBlock, StatementStart, InBody
  <2>4. BeginBlock \/ EndBlock \/ (phase' = phase /\ InExpression)
    BY <1>2 DEF Statement, Declaration, EmptyDeclaration, AssignUnknown, AssignLocal, AssignGlobal,
         PointerStore, PrintStatement, DiscardExpression, ReturnStatement, ConditionalJump, Join,
         OneValue, InBody, StatementStart, InExpression
  <2>5. QED
    BY <2>1, <2>2, <2>3, <2>4 DEF NothingHeld, InExpression
<1>3. CASE TopLevel
  BY <1>3 DEF TopLevel, ProgramStart, BeginFunctionDefinition, DefinitionFails, Exit,
     EndFunctionDefinition, BeginMainMethod, EndMainMethod, NothingHeld, Bodies
<1>4. CASE UNCHANGED vars
  BY <1>4 DEF vars, NothingHeld
<1>5. QED
  BY <1>1, <1>2, <1>3, <1>4 DEF Next, Finished

LEMMA RegisterInit == Init => RegisterInv
<1> SUFFICES ASSUME Init PROVE RegisterInv
  OBVIOUS
<1>1. InUse(registers) = {} /\ operands = <<>> /\ phase = "globals"
  BY DEF Init, RegistersInit, InUse
<1>2. QED
  BY <1>1, NoneHeld, Discipline DEF RegisterInv, NothingHeld

LEMMA RegisterStep == ShapeInv /\ RegisterInv /\ [Next]_vars => RegisterInv'
<1> SUFFICES ASSUME ShapeInv, RegisterInv, [Next]_vars PROVE RegisterInv'
  OBVIOUS
<1>1. TypeOK /\ ListsNest /\ RegisterDiscipline /\ NothingHeld
  BY DEF ShapeInv, RegisterInv
<1>2. CASE Expression
  BY <1>1, <1>2, DisciplineExpression, NothingHeldStep DEF RegisterInv
<1>3. CASE CallExpression
  <2>1. CASE \E f \in FunctionNames : FunctionCall(f)
    BY <1>1, <2>1, DisciplineCall, NothingHeldStep DEF RegisterInv
  <2>2. CASE registers' = registers /\ operands' = operands
    BY <1>1, <2>2, Discipline, NothingHeldStep DEF RegisterInv
  <2>3. QED
    BY <1>3, <2>1, <2>2 DEF CallExpression, BeginFunctionArguments, AddFunctionArgument, CallFails, Exit
<1>4. CASE Statement
  BY <1>1, <1>4, DisciplineStatement, NothingHeldStep DEF RegisterInv
<1>5. CASE TopLevel
  BY <1>1, <1>5, DisciplineTopLevel, NothingHeldStep DEF RegisterInv
<1>6. CASE UNCHANGED vars
  BY <1>1, <1>6, Discipline, NothingHeldStep DEF RegisterInv, vars
<1>7. QED
  BY <1>2, <1>3, <1>4, <1>5, <1>6 DEF Next, Finished

(* In every reachable state the registers in use are exactly those of the   *)
(* values the parser holds, each in a register of its own.                  *)
THEOREM RegistersDisciplined == Spec => []RegisterDiscipline
<1>1. RegisterInv => RegisterDiscipline
  BY DEF RegisterInv
<1>2. QED
  BY <1>1, ShapeInit, ShapeStep, RegisterInit, RegisterStep, PTL DEF Spec

-----------------------------------------------------------------------------
(* The cache *)

Bounded(table, n) == \A reg \in General : table[reg].memory_address < n
GlobalsBelow(list, n) == \A i \in DOMAIN list : list[i].storage = "global" => list[i].place < n

(* The addresses given to globals are cells, and so is every address a      *)
(* descriptor names: two of them are the same cell only if they are equal.  *)
AddressesFit ==
    /\ next_global_address <= MaxSymbols
    /\ phase = "globals" => Len(symbols) = next_global_address
    /\ GlobalsBelow(symbols, next_global_address)
    /\ Bounded(registers, next_global_address)

CacheInv == AddressesFit /\ CacheSound /\ TopIsFresh

-----------------------------------------------------------------------------
(* Addresses *)

LEMMA BoundedTables ==
    ASSUME NEW table \in Tables, NEW n \in Nat, Bounded(table, n), NEW reg \in General
    PROVE  /\ Bounded(RegisterUse(table, reg), n)
           /\ Bounded(RegisterAlloc(table, reg), n)
           /\ Bounded(RegisterFree(table, reg), n)
           /\ Bounded(RegisterMarkTemporary(table, reg), n)
           /\ \A forgotten : Bounded(Forget(table, forgotten), n)
           /\ \A address \in Nat : address < n => Bounded(RegisterBindMemory(table, reg, address), n)
BY DEF Tables, Descriptors, Bounded, RegisterUse, RegisterAlloc, RegisterFree,
       RegisterMarkTemporary, Forget, RegisterBindMemory, REG_NO_MEMORY

LEMMA BoundedReset == \A n \in Nat : Bounded(RegistersInit, n)
BY DEF Bounded, RegistersInit, REG_NO_MEMORY

LEMMA BoundedMore ==
    ASSUME NEW table \in Tables, NEW n \in Nat, Bounded(table, n)
    PROVE  Bounded(table, n + 1)
<1>1. \A reg \in General : table[reg].memory_address \in Int
  BY DEF Tables, Descriptors, REG_NO_MEMORY
<1>2. QED
  BY <1>1 DEF Bounded

LEMMA PlaceIsNat ==
    ASSUME TypeOK
    PROVE  \A i \in DOMAIN symbols : symbols[i].place \in Nat
<1>1. \A i \in DOMAIN symbols : symbols[i] \in Symbols
  BY DEF TypeOK
<1>2. QED
  BY <1>1 DEF Symbols

LEMMA AddressesReset ==
    ASSUME TypeOK, AddressesFit, registers' = RegistersInit, symbols' = symbols,
           next_global_address' = next_global_address, phase' = phase \/ phase' # "globals"
    PROVE  AddressesFit'
BY BoundedReset DEF TypeOK, AddressesFit

LEMMA AddressesKept ==
    ASSUME AddressesFit, Bounded(registers', next_global_address), symbols' = symbols,
           next_global_address' = next_global_address, phase' = phase \/ phase' # "globals"
    PROVE  AddressesFit'
BY DEF AddressesFit

LEMMA AddressesExpression ==
    ASSUME TypeOK, AddressesFit, Expression
    PROVE  AddressesFit'
<1>1. /\ symbols' = symbols /\ next_global_address' = next_global_address
      /\ phase' = phase \/ phase' = "exit"
  BY ShapeExpression DEF state
<1>2. registers \in Tables /\ next_global_address \in Nat /\ Bounded(registers, next_global_address)
  BY DEF TypeOK, Tables, AddressesFit
<1>3. SUFFICES Bounded(registers', next_global_address)
  BY <1>1, AddressesKept
<1>4. ASSUME NEW reg \in General, registers' = RegisterMarkTemporary(RegisterAlloc(registers, reg), reg)
      PROVE  Bounded(registers', next_global_address)
  <2>1. RegisterAlloc(registers, reg) \in Tables /\ Bounded(RegisterAlloc(registers, reg), next_global_address)
    BY <1>2, TableTypes, BoundedTables
  <2>2. QED
    BY <1>2, <1>4, <2>1, BoundedTables
<1>5. ASSUME NEW x \in Names
      PROVE  /\ LoadUnknown(x) => Bounded(registers', next_global_address)
             /\ LoadLocal(x) => Bounded(registers', next_global_address)
             /\ AddressOfLocal(x) => Bounded(registers', next_global_address)
             /\ AddressOfGlobal(x) => Bounded(registers', next_global_address)
  BY <1>4 DEF LoadUnknown, LoadLocal, AddressOfLocal, AddressOfGlobal, PushTemporary
<1>6. ASSUME NEW value \in Literals, ConstantLoad(value)
      PROVE  Bounded(registers', next_global_address)
  BY <1>4, <1>6 DEF ConstantLoad, PushTemporary
<1>7. ASSUME NEW x \in Names, LoadCached(x) \/ AddressOfUnknown(x)
      PROVE  Bounded(registers', next_global_address)
  BY <1>2, <1>7, BoundedTables DEF LoadCached, AddressOfUnknown
<1>8. ASSUME NEW x \in Names, LoadGlobal(x)
      PROVE  Bounded(registers', next_global_address)
  <2>1. PICK i \in DOMAIN symbols, reg \in General :
            /\ symbols[i].storage = "global"
            /\ registers' = RegisterBindMemory(RegisterAlloc(registers, reg), reg, symbols[i].place)
    BY <1>8 DEF LoadGlobal
  <2>2. symbols[i].place \in Nat /\ symbols[i].place < next_global_address
    BY <2>1, PlaceIsNat DEF AddressesFit, GlobalsBelow
  <2>3. RegisterAlloc(registers, reg) \in Tables /\ Bounded(RegisterAlloc(registers, reg), next_global_address)
    BY <1>2, TableTypes, BoundedTables
  <2>4. QED
    BY <1>2, <2>1, <2>2, <2>3, BoundedTables
<1>9. ASSUME NEW op \in BinaryOps, Binary(op)
      PROVE  Bounded(registers', next_global_address)
  <2>1. Top \in General /\ operands[Len(operands) - 1] \in General
    BY <1>9, HeldIsNat, TopIsGeneral DEF Binary
  <2>2. RegisterFree(registers, Top) \in Tables /\ Bounded(RegisterFree(registers, Top), next_global_address)
    BY <1>2, <2>1, TableTypes, BoundedTables
  <2>3. QED
    BY <1>2, <1>9, <2>1, <2>2, BoundedTables DEF Binary
<1>10. ASSUME NEW kind, NEW machine, Overwrite(kind, machine)
       PROVE  Bounded(registers', next_global_address)
  BY <1>2, <1>10, HeldIsNat, TopIsGeneral, BoundedTables DEF Overwrite
<1>11. Unary \/ PointerLoad => Bounded(registers', next_global_address)
  BY <1>10 DEF Unary, PointerLoad
<1>12. OutOfRegisters => Bounded(registers', next_global_address)
  BY <1>2 DEF OutOfRegisters, Exit
<1>13. QED
  BY <1>5, <1>6, <1>7, <1>8, <1>9, <1>11, <1>12 DEF Expression

LEMMA CallTable ==
    ASSUME TypeOK, NEW f \in FunctionNames, FunctionCall(f)
    PROVE  \E table \in Tables, reg \in General :
              /\ registers' = RegisterMarkTemporary(RegisterAlloc(table, reg), reg)
              /\ reg \in Available(table)
              /\ operands' = Append(SubSeq(operands, 1, calls[Len(calls)].base), reg)
              /\ \A other \in Available(table) : table[other].memory_address = REG_NO_MEMORY
              /\ \A other \in General :
                    \/ table[other].memory_address = registers[other].memory_address
                    \/ table[other].memory_address = REG_NO_MEMORY
<1> DEFINE freed == [reg \in General |-> IF reg \in ArgumentRegisters
                                         THEN [registers[reg] EXCEPT !.in_use = FALSE]
                                         ELSE registers[reg]]
           table == RegisterForgetAvailable(freed)
<1>1. /\ freed \in Tables
      /\ \A reg \in General : freed[reg].memory_address = registers[reg].memory_address
  BY DEF TypeOK, Tables, Descriptors
<1>2. PICK reg \in General :
          /\ reg \in Available(table)
          /\ registers' = RegisterMarkTemporary(RegisterAlloc(table, reg), reg)
          /\ operands' = Append(SubSeq(operands, 1, calls[Len(calls)].base), reg)
  BY DEF FunctionCall, IsLowest
<1> HIDE DEF freed
<1>3. table \in Tables
  BY <1>1, <1>2, TableTypes DEF RegisterForgetAvailable
<1>4. /\ \A other \in Available(table) : table[other].memory_address = REG_NO_MEMORY
      /\ \A other \in General : \/ table[other].memory_address = freed[other].memory_address
                                \/ table[other].memory_address = REG_NO_MEMORY
  BY <1>1 DEF RegisterForgetAvailable, Forget, Available, Tables, Descriptors
<1>5. QED
  BY <1>1, <1>2, <1>3, <1>4

LEMMA AddressesCall ==
    ASSUME TypeOK, AddressesFit, CallExpression
    PROVE  AddressesFit'
<1>1. /\ symbols' = symbols /\ next_global_address' = next_global_address
      /\ phase' = phase \/ phase' = "exit"
  BY ShapeExpression DEF state
<1>2. /\ registers \in Tables /\ next_global_address \in Nat
      /\ Bounded(registers, next_global_address)
  BY DEF TypeOK, Tables, AddressesFit
<1>3. CASE registers' = registers
  BY <1>1, <1>2, <1>3, AddressesKept
<1>4. ASSUME NEW f \in FunctionNames, FunctionCall(f)
      PROVE  AddressesFit'
  <2>1. PICK table \in Tables, reg \in General :
            /\ registers' = RegisterMarkTemporary(RegisterAlloc(table, reg), reg)
            /\ \A other \in General :
                  \/ table[other].memory_address = registers[other].memory_address
                  \/ table[other].memory_address = REG_NO_MEMORY
    BY <1>4, CallTable
  <2>2. Bounded(table, next_global_address)
    BY <1>2, <2>1 DEF Bounded, REG_NO_MEMORY
  <2>3. RegisterAlloc(table, reg) \in Tables /\ Bounded(RegisterAlloc(table, reg), next_global_address)
    BY <1>2, <2>2, TableTypes, BoundedTables
  <2>4. Bounded(registers', next_global_address)
    BY <1>2, <2>1, <2>3, BoundedTables
  <2>5. QED
    BY <1>1, <2>4, AddressesKept
<1>5. QED
  BY <1>3, <1>4 DEF CallExpression, BeginFunctionArguments, AddFunctionArgument, CallFails, Exit

(* A value of table's register reg is stored in a global's cell and the     *)
(* register becomes its copy.                                               *)
LEMMA BoundedStore ==
    ASSUME NEW table \in Tables, NEW reg \in General, NEW n \in Nat, Bounded(table, n),
           NEW address \in Nat, address < n
    PROVE  Bounded(RegisterFree(RegisterBindMemory(RegisterForgetMemory(table, address),
                                                   reg, address), reg), n)
<1> DEFINE bound == RegisterBindMemory(RegisterForgetMemory(table, address), reg, address)
<1>1. /\ RegisterForgetMemory(table, address) \in Tables
      /\ Bounded(RegisterForgetMemory(table, address), n)
  BY TableTypes, BoundedTables DEF RegisterForgetMemory
<1>2. bound \in Tables /\ Bounded(bound, n)
  BY <1>1, TableTypes, BoundedTables
<1>3. QED
  BY <1>2, BoundedTables

LEMMA AddressesDeclaration ==
    ASSUME TypeOK, AddressesFit, NEW x \in Names, NEW machine, NEW table \in Tables, NEW reg \in General,
           Bounded(table, next_global_address), InExpression, phase' = phase,
           IF InsideFunction THEN DeclareLocal(x, machine, reg)
                             ELSE DeclareGlobal(x, machine, table, reg)
    PROVE  AddressesFit'
<1>1. /\ next_global_address \in Nat /\ symbols \in Seq(Symbols) /\ MaxSymbols \in Nat
      /\ next_global_address <= MaxSymbols
      /\ GlobalsBelow(symbols, next_global_address)
  BY CodeGenAssumption DEF TypeOK, AddressesFit
<1>2. \A i \in DOMAIN symbols : symbols[i].place \in Nat
  BY PlaceIsNat
<1>3. ASSUME NEW new, symbols' = Append(symbols, new), NEW n \in Nat, next_global_address <= n,
             new.storage = "global" => new.place < n
      PROVE  Len(symbols') = Len(symbols) + 1 /\ GlobalsBelow(symbols', n)
  <2>1. /\ DOMAIN symbols' = 1..(Len(symbols) + 1) /\ Len(symbols') = Len(symbols) + 1
        /\ DOMAIN symbols = 1..Len(symbols) /\ Len(symbols) \in Nat
        /\ symbols'[Len(symbols) + 1] = new
        /\ \A i \in 1..Len(symbols) : symbols'[i] = symbols[i]
    BY <1>1, <1>3, AppendProperties
  <2>2. \A i \in DOMAIN symbols : symbols[i].storage = "global" => symbols[i].place < n
    BY <1>1, <1>2, <1>3 DEF GlobalsBelow
  <2>3. QED
    BY <1>3, <2>1, <2>2 DEF GlobalsBelow
<1>4. CASE InsideFunction
  <2> DEFINE new == [name |-> x, storage |-> "local", place |-> next_local_offset]
  <2>1. /\ symbols' = Append(symbols, new) /\ registers' = RegistersInit
        /\ next_global_address' = next_global_address
    BY <1>4 DEF DeclareLocal, Declare
  <2>2. new.storage # "global"
    OBVIOUS
  <2>3. GlobalsBelow(symbols', next_global_address)
    BY <1>1, <1>3, <2>1, <2>2
  <2>4. phase' # "globals"
    BY <1>4 DEF InsideFunction
  <2>5. QED
    BY <1>1, <2>1, <2>3, <2>4, BoundedReset DEF AddressesFit
<1>5. CASE ~InsideFunction
  <2> DEFINE new == [name |-> x, storage |-> "global", place |-> next_global_address]
             n == next_global_address + 1
  <2>1. /\ symbols' = Append(symbols, new) /\ Len(symbols) < MaxSymbols /\ next_global_address' = n
        /\ registers' = RegisterFree(
               RegisterBindMemory(RegisterForgetMemory(table, next_global_address),
                                  reg, next_global_address), reg)
    BY <1>5 DEF DeclareGlobal, Declare
  <2>2. new.place < n /\ n \in Nat /\ next_global_address <= n
    BY <1>1
  <2>3. Len(symbols') = Len(symbols) + 1 /\ GlobalsBelow(symbols', n)
    BY <1>3, <2>1, <2>2
  <2>4. phase = "globals" /\ Len(symbols) = next_global_address
    BY <1>5 DEF InsideFunction, InExpression, Bodies, AddressesFit
  <2>5. Bounded(table, n)
    BY <1>1, BoundedMore
  <2>6. Bounded(registers', n)
    BY <1>1, <2>1, <2>2, <2>5, BoundedStore
  <2>7. QED
    BY <1>1, <2>1, <2>3, <2>4, <2>6 DEF AddressesFit
<1>6. QED
  BY <1>4, <1>5

LEMMA AddressesEndBlock ==
    ASSUME ShapeInv, AddressesFit, EndBlock
    PROVE  AddressesFit'
<1> DEFINE base == scopes[Len(scopes)].symbol_table_base
<1>1. /\ symbols \in Seq(Symbols) /\ scopes \in Seq(Scopes) /\ next_local_offset \in Nat
      /\ frame_base \in Nat /\ Len(scopes) \in DOMAIN scopes
      /\ scopes[Len(scopes)] \in Scopes
  <2>1. scopes \in Seq(Scopes) /\ scopes # <<>>
    BY DEF ShapeInv, TypeOK, EndBlock
  <2>2. Len(scopes) \in DOMAIN scopes
    BY <2>1
  <2>3. QED
    BY <2>1, <2>2 DEF ShapeInv, TypeOK
<1>2. Len(symbols) = frame_base + next_local_offset
  BY DEF ShapeInv, SlotsOwned, EndBlock, StatementStart, InBody, Bodies, InsideFunction
<1>3. base \in Nat /\ base <= Len(symbols)
  <2>1. /\ scopes[Len(scopes)].symbol_table_base = frame_base + scopes[Len(scopes)].local_offset_base
        /\ scopes[Len(scopes)].local_offset_base <= next_local_offset
    BY <1>1 DEF ShapeInv, BasesAgree
  <2>2. scopes[Len(scopes)].local_offset_base \in Nat
    BY <1>1 DEF Scopes
  <2>3. QED
    BY <1>1, <1>2, <2>1, <2>2
<1>4. symbols' = SubSeq(symbols, 1, base)
  BY DEF EndBlock
<1> HIDE DEF base
<1>5. DOMAIN symbols' = 1..base /\ \A i \in 1..base : symbols'[i] = symbols[i] /\ i \in DOMAIN symbols
  BY <1>1, <1>3, <1>4
<1>6. GlobalsBelow(symbols', next_global_address)
  BY <1>5 DEF AddressesFit, GlobalsBelow
<1>7. phase' # "globals" /\ next_global_address' = next_global_address /\ registers' = RegistersInit
  BY DEF EndBlock, StatementStart, InBody, Bodies
<1>8. next_global_address \in Nat
  BY DEF ShapeInv, TypeOK
<1>9. QED
  BY <1>6, <1>7, <1>8, BoundedReset DEF AddressesFit

LEMMA AddressesStatement ==
    ASSUME ShapeInv, AddressesFit, Statement
    PROVE  AddressesFit'
<1>1. /\ registers \in Tables /\ next_global_address \in Nat /\ TypeOK
      /\ Bounded(registers, next_global_address)
  BY DEF ShapeInv, TypeOK, Tables, AddressesFit
<1>2. OneValue => Top \in General
  BY <1>1, TopIsGeneral DEF OneValue
<1>3. ASSUME NEW x \in Names, Declaration(x)
      PROVE  AddressesFit'
  <2>1. OneValue /\ InExpression /\ phase' = phase
    BY <1>3 DEF Declaration, OneValue
  <2>2. QED
    BY <1>1, <1>2, <1>3, <2>1, AddressesDeclaration DEF Declaration
<1>4. ASSUME NEW x \in Names, EmptyDeclaration(x)
      PROVE  AddressesFit'
  <2> DEFINE table(reg) == RegisterMarkTemporary(RegisterAlloc(registers, reg), reg)
  <2>1. PICK reg \in General :
            IF InsideFunction THEN DeclareLocal(x, Afc(cpu, reg, 0), reg)
                              ELSE DeclareGlobal(x, Afc(cpu, reg, 0), table(reg), reg)
    BY <1>4 DEF EmptyDeclaration
  <2>2. RegisterAlloc(registers, reg) \in Tables /\ Bounded(RegisterAlloc(registers, reg), next_global_address)
    BY <1>1, TableTypes, BoundedTables
  <2>3. table(reg) \in Tables /\ Bounded(table(reg), next_global_address)
    BY <1>1, <2>2, TableTypes, BoundedTables
  <2> HIDE DEF table
  <2>4. InExpression /\ phase' = phase
    BY <1>4 DEF EmptyDeclaration
  <2>5. QED
    BY <1>1, <2>1, <2>3, <2>4, AddressesDeclaration
<1>5. ASSUME NEW x \in Names, AssignGlobal(x)
      PROVE  AddressesFit'
  <2>1. PICK i \in DOMAIN symbols :
            /\ symbols[i].storage = "global"
            /\ registers' = RegisterFree(
                   RegisterBindMemory(RegisterForgetMemory(registers, symbols[i].place),
                                      Top, symbols[i].place), Top)
    BY <1>5 DEF AssignGlobal
  <2>2. symbols[i].place \in Nat /\ symbols[i].place < next_global_address
    BY <1>1, <2>1, PlaceIsNat DEF AddressesFit, GlobalsBelow
  <2>3. Top \in General
    BY <1>2, <1>5 DEF AssignGlobal
  <2>4. Bounded(registers', next_global_address)
    BY <1>1, <2>1, <2>2, <2>3, BoundedStore
  <2>5. QED
    BY <1>5, <2>4, AddressesKept DEF AssignGlobal, state
<1>6. ASSUME NEW x \in Names, AssignLocal(x)
      PROVE  AddressesFit'
  BY <1>1, <1>6, AddressesReset DEF AssignLocal, state
<1>7. ASSUME registers' = RegisterFree(registers, Top), OneValue, state' = state, phase' = phase
      PROVE  AddressesFit'
  BY <1>1, <1>2, <1>7, BoundedTables, AddressesKept DEF state
<1>8. (\E x \in Names : AssignUnknown(x)) \/ PrintStatement => AddressesFit'
  BY <1>7 DEF AssignUnknown, PrintStatement
<1>9. PointerStore \/ DiscardExpression \/ ReturnStatement \/ ConditionalJump \/ Join
          => AddressesFit'
  BY <1>1, AddressesReset DEF PointerStore, DiscardExpression, ReturnStatement, ConditionalJump, Join,
     state
<1>10. BeginBlock => AddressesFit'
  <2> SUFFICES ASSUME BeginBlock PROVE AddressesFit'
    OBVIOUS
  <2>1. /\ symbols' = symbols /\ registers' = registers /\ phase' \in Bodies
        /\ next_global_address' = next_global_address
    BY DEF BeginBlock, StatementStart, InBody, Bodies
  <2>2. QED
    BY <1>1, <2>1, AddressesKept DEF Bodies
<1>11. QED
  BY <1>3, <1>4, <1>5, <1>6, <1>8, <1>9, <1>10, AddressesEndBlock DEF Statement

LEMMA AddressesTopLevel ==
    ASSUME TypeOK, AddressesFit, TopLevel
    PROVE  AddressesFit'
<1>1. /\ next_global_address \in Nat /\ symbols \in Seq(Symbols)
  BY DEF TypeOK
<1>2. ASSUME NEW f \in FunctionNames, NEW parameters \in ParameterLists,
             BeginFunctionDefinition(f, parameters)
      PROVE  AddressesFit'
  <2> DEFINE added == [i \in 1..Len(parameters) |->
                          [name |-> parameters[i], storage |-> "local", place |-> i - 1]]
  <2>1. /\ symbols' = symbols \o added /\ phase' = "function_head" /\ registers' = RegistersInit
        /\ next_global_address' = next_global_address
    BY <1>2 DEF BeginFunctionDefinition
  <2>2. parameters \in Seq(Names) /\ Len(parameters) \in Nat
    BY CodeGenAssumption
  <2>3. /\ \A i \in 1..Len(parameters) : added[i].storage = "local"
        /\ Len(added) = Len(parameters) /\ added \in Seq(Symbols)
    <3>1. \A i \in 1..Len(parameters) : i - 1 \in Nat /\ parameters[i] \in Names
      BY <2>2, ElementOfSeq
    <3>2. \A i \in 1..Len(parameters) : added[i] \in Symbols
      BY <3>1 DEF Symbols
    <3>3. added \in Seq(Symbols)
      BY <2>2, <3>2
    <3>4. QED
      BY <2>2, <3>3
  <2> HIDE DEF added
  <2>4. /\ DOMAIN symbols' = 1..(Len(symbols) + Len(added))
        /\ \A i \in 1..(Len(symbols) + Len(added)) :
              symbols'[i] = IF i <= Len(symbols) THEN symbols[i] ELSE added[i - Len(symbols)]
    <3> DEFINE both == symbols \o added
    <3>0. symbols \in Seq(Symbols) /\ added \in Seq(Symbols)
      BY <1>1, <2>3
    <3>1. /\ both \in Seq(Symbols) /\ Len(both) = Len(symbols) + Len(added)
          /\ \A i \in 1..(Len(symbols) + Len(added)) :
                both[i] = IF i <= Len(symbols) THEN symbols[i] ELSE added[i - Len(symbols)]
      BY ONLY <3>0, ConcatProperties
    <3> HIDE DEF both
    <3>2. DOMAIN both = 1..(Len(symbols) + Len(added))
      BY <3>1
    <3>3. symbols' = both
      BY <2>1 DEF both
    <3>4. QED
      BY <3>1, <3>2, <3>3
  <2>5. GlobalsBelow(symbols', next_global_address)
    <3>1. ASSUME NEW i \in DOMAIN symbols', symbols'[i].storage = "global"
          PROVE  symbols'[i].place < next_global_address
      <4>1. CASE i <= Len(symbols)
        BY <1>1, <2>4, <3>1, <4>1 DEF AddressesFit, GlobalsBelow
      <4>2. CASE i > Len(symbols)
        <5>1. i - Len(symbols) \in 1..Len(parameters) /\ ~(i <= Len(symbols))
          BY <1>1, <2>3, <2>4, <4>2
        <5>2. symbols'[i] = added[i - Len(symbols)]
          BY <2>4, <3>1, <5>1
        <5>3. QED
          BY <2>3, <3>1, <5>1, <5>2
      <4>3. QED
        BY <1>1, <2>4, <4>1, <4>2
    <3>2. QED
      BY <3>1 DEF GlobalsBelow
  <2>6. QED
    BY <1>1, <2>1, <2>5, BoundedReset DEF AddressesFit
<1>3. Exit => AddressesFit'
  BY DEF Exit, state, AddressesFit
<1>4. ProgramStart \/ EndFunctionDefinition \/ BeginMainMethod \/ EndMainMethod => AddressesFit'
  BY AddressesReset DEF ProgramStart, EndFunctionDefinition, BeginMainMethod, EndMainMethod, state
<1>5. QED
  BY <1>2, <1>3, <1>4 DEF TopLevel, DefinitionFails

LEMMA AddressesStep ==
    ASSUME ShapeInv, AddressesFit, [Next]_vars
    PROVE  AddressesFit'
<1>1. TypeOK
  BY DEF ShapeInv
<1>2. CASE UNCHANGED vars
  BY <1>2 DEF vars, state, AddressesFit
<1>3. QED
  BY <1>1, <1>2, AddressesExpression, AddressesCall, AddressesStatement, AddressesTopLevel
     DEF Next, Finished

-----------------------------------------------------------------------------
(* Copies *)

(* What register_find_memory may hand out of table is what machine's memory *)
(* has.                                                                     *)
AgreesIn(table, machine, reg) ==
    table[reg].memory_address # REG_NO_MEMORY /\ ~table[reg].temporary
        => machine.r[reg] = machine.m[table[reg].memory_address]

LEMMA CacheForms ==
    /\ CacheSound <=> \A reg \in Available(registers) : AgreesIn(registers, cpu, reg)
    /\ CacheSound' <=> \A reg \in Available(registers') : AgreesIn(registers', cpu', reg)
    /\ TopIsFresh <=> (Len(operands) > Held => AgreesIn(registers, cpu, Top))
    /\ TopIsFresh' <=> (Len(operands') > Held' => AgreesIn(registers', cpu', Top'))
BY DEF CacheSound, TopIsFresh, BoundCopy, Agrees, AgreesIn

LEMMA NothingOnTop == operands' = <<>> => TopIsFresh' \/ Held' # 0
BY DEF TopIsFresh

LEMMA CacheReset ==
    ASSUME registers' = RegistersInit, operands' = <<>>, calls' = <<>>
    PROVE  CacheSound' /\ TopIsFresh'
<1>1. CacheSound'
  BY DEF CacheSound, BoundCopy, Available, RegistersInit
<1>2. Held' = 0
  BY DEF Held
<1>3. QED
  BY <1>1, <1>2, NothingOnTop

LEMMA CacheKept ==
    ASSUME CacheSound, TopIsFresh, registers' = registers, operands' = operands, calls' = calls,
           cpu' = cpu
    PROVE  CacheSound' /\ TopIsFresh'
BY DEF CacheSound, TopIsFresh, BoundCopy, Agrees, Held, Top

(* A value is pushed in an available register; no other register and no     *)
(* cell changes.                                                            *)
LEMMA CachePush ==
    ASSUME TypeOK, CacheSound, NEW reg \in Available(registers),
           operands' = Append(operands, reg), cpu'.m = cpu.m,
           \A other \in General \ {reg} :
               registers'[other] = registers[other] /\ cpu'.r[other] = cpu.r[other],
           registers'[reg].in_use, AgreesIn(registers', cpu', reg)
    PROVE  CacheSound' /\ TopIsFresh'
<1>1. reg \in General /\ operands \in Seq(General)
  BY DEF Available, TypeOK
<1>2. Top' = reg
  <2>1. Len(operands') = Len(operands) + 1 /\ operands'[Len(operands) + 1] = reg
    BY <1>1, AppendProperties
  <2>2. QED
    BY <2>1 DEF Top
<1>3. ASSUME NEW other \in Available(registers')
      PROVE  AgreesIn(registers', cpu', other)
  <2>1. other \in General /\ other # reg
    BY <1>3 DEF Available
  <2>2. other \in Available(registers)
    BY <2>1 DEF Available
  <2>3. AgreesIn(registers, cpu, other)
    BY <2>2, CacheForms
  <2>4. registers'[other] = registers[other] /\ cpu'.r[other] = cpu.r[other]
    BY <2>1
  <2>5. QED
    BY <2>3, <2>4, Zenon DEF AgreesIn
<1>4. QED
  BY <1>2, <1>3, CacheForms

(* The value of reg is stored in the cell of a global: the other copies are *)
(* forgotten and reg becomes the copy.                                      *)
LEMMA CacheStore ==
    ASSUME NEW table \in Tables, NEW machine \in MachineStates, NEW reg \in General,
           NEW address \in Word, Bounded(table, WordSize),
           \A other \in Available(table) \ {reg} : AgreesIn(table, machine, other),
           registers' = RegisterFree(RegisterBindMemory(RegisterForgetMemory(table, address),
                                                        reg, address), reg),
           cpu' = Store(machine, address, reg), operands' = <<>>, calls' = <<>>
    PROVE  CacheSound' /\ TopIsFresh'
<1>1. /\ cpu'.r = machine.r
      /\ cpu'.m[address] = machine.r[reg]
      /\ \A a \in Word \ {address} : cpu'.m[a] = machine.m[a]
  <2>1. Byte(address) = address /\ machine.r[reg] \in Word
    BY RegisterNumbers, MachineParts, ByteIsWord
  <2>2. cpu' = SetCell(machine, address, machine.r[reg])
    BY <2>1 DEF Store
  <2>3. cpu'.r = machine.r /\ cpu'.m = [machine.m EXCEPT ![address] = machine.r[reg]]
    BY <2>1, <2>2, SetCellType
  <2>4. machine.m \in [Word -> Word]
    BY DEF MachineStates
  <2>5. QED
    BY <2>3, <2>4
<1>2. ASSUME NEW other \in Available(registers')
      PROVE  AgreesIn(registers', cpu', other)
  <2>1. CASE other = reg
    <3>1. registers'[reg].memory_address = address
      BY DEF Tables, Descriptors, RegisterFree, RegisterBindMemory, RegisterForgetMemory, Forget
    <3>2. QED
      BY <1>1, <2>1, <3>1 DEF AgreesIn
  <2>2. CASE other # reg
    <3>1. /\ other \in General
          /\ registers'[other] = RegisterForgetMemory(table, address)[other]
          /\ ~registers'[other].in_use
      BY <2>2 DEF Available, Tables, RegisterFree, RegisterBindMemory, RegisterForgetMemory, Forget
    <3>2. CASE table[other].memory_address = address
      BY <3>1, <3>2 DEF AgreesIn, RegisterForgetMemory, Forget, Tables, Descriptors
    <3>3. CASE table[other].memory_address # address
      <4>1. registers'[other] = table[other] /\ other \in Available(table) \ {reg}
        BY <2>2, <3>1, <3>3 DEF RegisterForgetMemory, Forget, Available
      <4>2. table[other].memory_address \in Nat \cup {REG_NO_MEMORY}
        BY <3>1 DEF Tables, Descriptors
      <4>3. table[other].memory_address # REG_NO_MEMORY =>
                table[other].memory_address \in Word \ {address}
        <5>1. table[other].memory_address < WordSize
          BY <3>1 DEF Bounded
        <5>2. QED
          BY <3>3, <4>2, <5>1, WordSizeAssumption DEF Word
      <4>4. AgreesIn(table, machine, other)
        BY <4>1
      <4>5. QED
        BY <1>1, <4>1, <4>3, <4>4 DEF AgreesIn
    <3>4. QED
      BY <3>2, <3>3
  <2>3. QED
    BY <2>1, <2>2
<1>3. Held' = 0
  BY DEF Held
<1>4. QED
  BY <1>2, <1>3, CacheForms, NothingOnTop

(* The top value becomes available where it is used up: the copy it may be  *)
(* is still a copy.                                                         *)
LEMMA CacheFree ==
    ASSUME TypeOK, CacheSound, TopIsFresh, OneValue, registers' = RegisterFree(registers, Top),
           operands' = <<>>, calls' = calls, cpu' = cpu
    PROVE  CacheSound' /\ TopIsFresh'
<1>1. Held = 0 /\ Held' = 0 /\ Len(operands) = 1 /\ Top \in General
  BY TopIsGeneral DEF OneValue, Held
<1>2. AgreesIn(registers, cpu, Top)
  BY <1>1, CacheForms
<1>3. ASSUME NEW other \in Available(registers')
      PROVE  AgreesIn(registers', cpu', other)
  <2>1. /\ other \in General
        /\ registers'[other].memory_address = registers[other].memory_address
        /\ registers'[other].temporary = registers[other].temporary
        /\ other # Top => other \in Available(registers)
    BY <1>1 DEF Available, RegisterFree, TypeOK, Descriptors
  <2>2. AgreesIn(registers, cpu, other)
    BY <1>2, <2>1, CacheForms
  <2>3. QED
    BY <2>1, <2>2, Zenon DEF AgreesIn
<1>4. QED
  BY <1>1, <1>3, CacheForms, NothingOnTop

(* The register of a value is overwritten and marked temporary.             *)
LEMMA CacheOverwrite ==
    ASSUME TypeOK, CacheSound, NEW reg \in General, NEW table \in Tables,
           \A other \in Available(table) : AgreesIn(table, cpu, other),
           registers' = RegisterMarkTemporary(table, reg), Top' = reg, cpu'.m = cpu.m,
           \A other \in General \ {reg} : cpu'.r[other] = cpu.r[other]
    PROVE  CacheSound' /\ TopIsFresh'
<1>1. registers'[reg].temporary
  BY DEF RegisterMarkTemporary, Tables, Descriptors
<1>2. ASSUME NEW other \in Available(registers')
      PROVE  AgreesIn(registers', cpu', other)
  <2>1. CASE other = reg
    BY <1>1, <2>1 DEF AgreesIn
  <2>2. CASE other # reg
    <3>1. other \in General /\ registers'[other] = table[other] /\ other \in Available(table)
      BY <2>2 DEF Available, RegisterMarkTemporary, Tables
    <3>2. AgreesIn(table, cpu, other) /\ cpu'.r[other] = cpu.r[other]
      BY <2>2, <3>1
    <3>3. QED
      BY <3>1, <3>2, Zenon DEF AgreesIn
  <2>3. QED
    BY <2>1, <2>2
<1>3. AgreesIn(registers', cpu', Top')
  BY <1>1 DEF AgreesIn
<1>4. QED
  BY <1>2, <1>3, CacheForms

LEMMA CacheTemporary ==
    ASSUME TypeOK, CacheSound, NEW reg \in General, Fresh(reg), NEW machine,
           PushTemporary(reg, machine), machine.m = cpu.m,
           \A other \in General \ {reg} : machine.r[other] = cpu.r[other]
    PROVE  CacheSound' /\ TopIsFresh'
<1>1. reg \in Available(registers)
  BY DEF Fresh, IsLowest
<1>2. registers'[reg].in_use /\ registers'[reg].temporary
  BY DEF PushTemporary, RegisterMarkTemporary, RegisterAlloc, TypeOK, Descriptors
<1>3. \A other \in General \ {reg} : registers'[other] = registers[other]
  BY DEF PushTemporary, RegisterMarkTemporary, RegisterAlloc, TypeOK, Descriptors
<1>4. AgreesIn(registers', cpu', reg)
  BY <1>2 DEF AgreesIn
<1>5. QED
  BY <1>1, <1>2, <1>3, <1>4, CachePush DEF PushTemporary

LEMMA TernaryEffect ==
    ASSUME NEW machine \in MachineStates, NEW op \in AllBinaryOps, NEW reg \in Registers,
           NEW a \in Registers, NEW b \in Registers
    PROVE  /\ Ternary(machine, op, reg, a, b).m = machine.m
           /\ \A other \in Registers \ {reg} :
                  Ternary(machine, op, reg, a, b).r[other] = machine.r[other]
<1> DEFINE after == Ternary(machine, op, reg, a, b)
<1>1. \E o \in AllBinaryOps, k, l \in Registers : after = Ternary(machine, o, reg, k, l)
  OBVIOUS
<1> HIDE DEF after
<1>2. after.m = machine.m /\ \A other \in Registers \ {reg} : after.r[other] = machine.r[other]
  BY <1>1, RegisterInstructions
<1>3. QED
  BY <1>2 DEF after

LEMMA CacheExpression ==
    ASSUME TypeOK, AddressesFit, CacheSound, TopIsFresh, Expression
    PROVE  CacheSound' /\ TopIsFresh'
<1>1. /\ cpu \in MachineStates /\ registers \in Tables /\ General \subseteq Registers
      /\ {REG_TMP, REG_FP} \subseteq Registers \ General
  BY RegisterNumbers DEF TypeOK, Tables
<1>2. ASSUME NEW i \in DOMAIN symbols
      PROVE  /\ symbols[i].place \in Nat
             /\ symbols[i].storage = "global" => symbols[i].place \in Word
  <2>1. symbols[i].place \in Nat
    BY PlaceIsNat
  <2>2. symbols[i].storage = "global" => symbols[i].place < next_global_address
    BY DEF AddressesFit, GlobalsBelow
  <2>3. next_global_address \in Nat /\ next_global_address <= WordSize
    BY CodeGenAssumption, WordSizeAssumption DEF AddressesFit, TypeOK
  <2>4. QED
    BY <2>1, <2>2, <2>3, WordSizeAssumption DEF Word
<1>3. ASSUME NEW reg \in General, NEW value \in Int
      PROVE  /\ Afc(cpu, reg, value).m = cpu.m
             /\ \A other \in General \ {reg} : Afc(cpu, reg, value).r[other] = cpu.r[other]
  BY <1>1, RegisterInstructions
<1>4. ASSUME NEW value \in Literals, ConstantLoad(value)
      PROVE  CacheSound' /\ TopIsFresh'
  <2>1. value \in Int
    BY CodeGenAssumption
  <2>2. QED
    BY <1>3, <1>4, <2>1, CacheTemporary DEF ConstantLoad
<1>5. ASSUME NEW x \in Names, LoadUnknown(x)
      PROVE  CacheSound' /\ TopIsFresh'
  BY <1>3, <1>5, CacheTemporary DEF LoadUnknown
<1>6. ASSUME NEW x \in Names, AddressOfGlobal(x)
      PROVE  CacheSound' /\ TopIsFresh'
  <2>1. PICK i \in DOMAIN symbols, reg \in General :
            Fresh(reg) /\ PushTemporary(reg, Afc(cpu, reg, symbols[i].place))
    BY <1>6 DEF AddressOfGlobal
  <2>2. symbols[i].place \in Int
    BY <1>2
  <2>3. QED
    BY <1>3, <2>1, <2>2, CacheTemporary
<1>7. ASSUME NEW x \in Names, AddressOfLocal(x)
      PROVE  CacheSound' /\ TopIsFresh'
  <2>1. PICK i \in DOMAIN symbols, reg \in General :
            /\ Fresh(reg)
            /\ PushTemporary(reg, Ternary(Afc(cpu, reg, symbols[i].place), "SUB", reg, REG_FP, reg))
    BY <1>7 DEF AddressOfLocal
  <2> DEFINE loaded == Afc(cpu, reg, symbols[i].place)
             machine == Ternary(loaded, "SUB", reg, REG_FP, reg)
  <2>2. symbols[i].place \in Int /\ reg \in Registers /\ "SUB" \in AllBinaryOps
    BY <1>1, <1>2 DEF AllBinaryOps
  <2>3. loaded \in MachineStates
    BY <1>1, <2>2, InstructionTypes
  <2>4. loaded.m = cpu.m /\ \A other \in General \ {reg} : loaded.r[other] = cpu.r[other]
    BY <1>3, <2>2
  <2> HIDE DEF loaded
  <2>5. machine.m = loaded.m /\ \A other \in General \ {reg} : machine.r[other] = loaded.r[other]
    BY <1>1, <2>2, <2>3, TernaryEffect
  <2>6. PushTemporary(reg, machine)
    BY <2>1 DEF loaded
  <2> HIDE DEF machine
  <2>7. QED
    BY <2>1, <2>4, <2>5, <2>6, CacheTemporary
<1>8. ASSUME NEW x \in Names, LoadLocal(x)
      PROVE  CacheSound' /\ TopIsFresh'
  <2>1. PICK i \in DOMAIN symbols, reg \in General :
            /\ Fresh(reg)
            /\ PushTemporary(reg, LoadR(ComputeLocalAddress(cpu, symbols[i].place), reg, REG_TMP))
    BY <1>8 DEF LoadLocal
  <2> DEFINE pointed == ComputeLocalAddress(cpu, symbols[i].place)
             machine == LoadR(pointed, reg, REG_TMP)
  <2>2. symbols[i].place \in Int /\ reg \in Registers
    BY <1>1, <1>2
  <2>3. /\ pointed \in MachineStates /\ pointed.m = cpu.m
        /\ \A other \in General : pointed.r[other] = cpu.r[other]
    BY <1>1, <2>2, ComputeLocalAddressEffect
  <2> HIDE DEF pointed
  <2>4. machine.m = pointed.m /\ \A other \in General \ {reg} : machine.r[other] = pointed.r[other]
    BY <1>1, <2>2, <2>3, RegisterInstructions
  <2>5. PushTemporary(reg, machine)
    BY <2>1 DEF pointed
  <2> HIDE DEF machine
  <2>6. QED
    BY <2>1, <2>3, <2>4, <2>5, CacheTemporary
<1>9. ASSUME NEW x \in Names, LoadCached(x)
      PROVE  CacheSound' /\ TopIsFresh'
  <2>1. PICK i \in DOMAIN symbols, reg \in General :
            /\ reg \in CleanCopies(registers, symbols[i].place)
            /\ registers' = RegisterUse(registers, reg)
            /\ operands' = Append(operands, reg)
    BY <1>9 DEF LoadCached, IsLowest
  <2>2. reg \in Available(registers) /\ cpu' = cpu
    BY <1>9, <2>1 DEF CleanCopies, LoadCached
  <2>3. /\ \A other \in General \ {reg} : registers'[other] = registers[other]
        /\ registers'[reg].in_use
        /\ registers'[reg].memory_address = registers[reg].memory_address
        /\ registers'[reg].temporary = registers[reg].temporary
    BY <1>1, <2>1 DEF RegisterUse, Tables, Descriptors
  <2>4. AgreesIn(registers, cpu, reg)
    BY <2>2, CacheForms
  <2>5. AgreesIn(registers', cpu', reg)
    BY <2>2, <2>3, <2>4, Zenon DEF AgreesIn
  <2>6. QED
    BY <2>1, <2>2, <2>3, <2>5, CachePush
<1>10. ASSUME NEW x \in Names, LoadGlobal(x)
       PROVE  CacheSound' /\ TopIsFresh'
  <2>1. PICK i \in DOMAIN symbols, reg \in General :
            /\ symbols[i].storage = "global"
            /\ Fresh(reg)
            /\ registers' = RegisterBindMemory(RegisterAlloc(registers, reg), reg, symbols[i].place)
            /\ operands' = Append(operands, reg)
            /\ cpu' = Load(cpu, reg, symbols[i].place)
    BY <1>10 DEF LoadGlobal
  <2> DEFINE place == symbols[i].place
  <2>2. place \in Word /\ Byte(place) = place /\ cpu.m[place] \in Word /\ place \in Int
    BY <1>1, <1>2, <2>1, ByteIsWord, MachineParts
  <2>3. /\ \A other \in General \ {reg} : registers'[other] = registers[other]
        /\ registers'[reg].in_use
        /\ registers'[reg].memory_address = place
    BY <1>1, <2>1 DEF RegisterAlloc, RegisterBindMemory, Tables, Descriptors
  <2>4. reg \in Available(registers)
    BY <2>1 DEF Fresh, IsLowest
  <2> HIDE DEF place
  <2>5. cpu' = SetRegister(cpu, reg, cpu.m[place])
    BY <2>1, <2>2 DEF Load, place
  <2>6. /\ cpu'.m = cpu.m /\ cpu'.r[reg] = cpu.m[place]
        /\ \A other \in General \ {reg} : cpu'.r[other] = cpu.r[other]
    <3> DEFINE value == cpu.m[place]
    <3>1. value \in Word
      BY <2>2
    <3> HIDE DEF value
    <3>2. value \in Int /\ Byte(value) = value /\ reg \in Registers
      BY <1>1, <3>1, ByteIsWord
    <3>3. cpu' = SetRegister(cpu, reg, value)
      BY <2>5 DEF value
    <3>4. cpu'.m = cpu.m /\ cpu'.r[reg] = value
          /\ \A other \in General \ {reg} : cpu'.r[other] = cpu.r[other]
      BY <1>1, <3>2, <3>3, SetRegisterType
    <3>5. QED
      BY <3>4 DEF value
  <2>7. AgreesIn(registers', cpu', reg)
    BY <2>3, <2>6 DEF AgreesIn
  <2>8. QED
    BY <2>1, <2>3, <2>4, <2>6, <2>7, CachePush
<1>11. ASSUME NEW x \in Names, AddressOfUnknown(x)
       PROVE  CacheSound' /\ TopIsFresh'
  <2>1. PICK reg \in General : /\ Fresh(reg)
                               /\ registers' = RegisterAlloc(registers, reg)
                               /\ operands' = Append(operands, reg)
    BY <1>11 DEF AddressOfUnknown
  <2>2. /\ \A other \in General \ {reg} : registers'[other] = registers[other]
        /\ registers'[reg].in_use
        /\ registers'[reg].memory_address = REG_NO_MEMORY
    BY <1>1, <2>1 DEF RegisterAlloc, Tables, Descriptors
  <2>3. reg \in Available(registers) /\ cpu' = cpu
    BY <1>11, <2>1 DEF Fresh, IsLowest, AddressOfUnknown
  <2>4. AgreesIn(registers', cpu', reg)
    BY <2>2 DEF AgreesIn
  <2>5. QED
    BY <2>1, <2>2, <2>3, <2>4, CachePush
<1>12. ASSUME NEW op \in BinaryOps, Binary(op)
       PROVE  CacheSound' /\ TopIsFresh'
  <2> DEFINE left == operands[Len(operands) - 1]
             table == RegisterFree(registers, Top)
  <2>1. /\ Len(operands) > 1 /\ Len(operands) > Held
        /\ Top \in General /\ left \in General /\ Len(operands) \in Nat
        /\ op \in AllBinaryOps
    BY <1>12, HeldIsNat, TopIsGeneral, CodeGenAssumption DEF Binary
  <2>2. /\ cpu' = Ternary(cpu, op, left, left, Top)
        /\ registers' = RegisterMarkTemporary(table, left)
        /\ operands' = SubSeq(operands, 1, Len(operands) - 1)
    BY <1>12 DEF Binary, Pop
  <2>3. Top' = left
    <3>1. Len(operands') = Len(operands) - 1 /\ operands'[Len(operands) - 1] = left
      BY <2>1, <2>2 DEF TypeOK
    <3>2. QED
      BY <3>1 DEF Top
  <2>4. ASSUME NEW other \in Available(table)
        PROVE  AgreesIn(table, cpu, other)
    <3>1. /\ other \in General
          /\ table[other].memory_address = registers[other].memory_address
          /\ table[other].temporary = registers[other].temporary
          /\ other # Top => other \in Available(registers)
      BY <1>1, <2>1 DEF Available, RegisterFree, Tables, Descriptors
    <3>2. AgreesIn(registers, cpu, other)
      BY <2>1, <3>1, CacheForms
    <3>3. QED
      BY <3>1, <3>2, Zenon DEF AgreesIn
  <2>5. table \in Tables
    BY <1>1, <2>1, TableTypes
  <2> HIDE DEF left, table
  <2>6. cpu'.m = cpu.m /\ \A other \in General \ {left} : cpu'.r[other] = cpu.r[other]
    BY <1>1, <2>1, <2>2, TernaryEffect
  <2>7. QED
    BY <2>1, <2>2, <2>3, <2>4, <2>5, <2>6, CacheOverwrite
<1>13. ASSUME NEW kind, NEW machine, Overwrite(kind, machine), machine.m = cpu.m,
              \A other \in General \ {Top} : machine.r[other] = cpu.r[other]
       PROVE  CacheSound' /\ TopIsFresh'
  <2>1. Top \in General /\ Top' = Top
    BY <1>13, HeldIsNat, TopIsGeneral DEF Overwrite, Top
  <2>2. \A other \in Available(registers) : AgreesIn(registers, cpu, other)
    BY CacheForms
  <2>3. QED
    BY <1>1, <1>13, <2>1, <2>2, CacheOverwrite DEF Overwrite
<1>14. Unary \/ PointerLoad => CacheSound' /\ TopIsFresh'
  <2>1. ASSUME Unary \/ PointerLoad
        PROVE  Top \in Registers
    BY <1>1, <2>1, HeldIsNat, TopIsGeneral DEF Unary, PointerLoad, Overwrite
  <2>2. ASSUME Top \in Registers, NEW machine,
               machine = Not(cpu, Top, Top) \/ machine = LoadR(cpu, Top, Top)
        PROVE  machine.m = cpu.m /\ \A other \in General \ {Top} : machine.r[other] = cpu.r[other]
    BY <1>1, <2>2, RegisterInstructions
  <2>3. QED
    BY <1>13, <2>1, <2>2 DEF Unary, PointerLoad
<1>15. OutOfRegisters => CacheSound' /\ TopIsFresh'
  BY CacheKept DEF OutOfRegisters, Exit
<1>16. QED
  BY <1>4, <1>5, <1>6, <1>7, <1>8, <1>9, <1>10, <1>11, <1>12, <1>14, <1>15 DEF Expression

(* A call makes every available register forget, and what the callee leaves *)
(* in them does not matter; an argument list hides the values below it.     *)
LEMMA CacheCall ==
    ASSUME TypeOK, CacheSound, TopIsFresh, CallExpression
    PROVE  CacheSound' /\ TopIsFresh'
<1>1. ASSUME NEW f \in FunctionNames, FunctionCall(f)
      PROVE  CacheSound' /\ TopIsFresh'
  <2>1. PICK table \in Tables, reg \in General :
            /\ registers' = RegisterMarkTemporary(RegisterAlloc(table, reg), reg)
            /\ operands' = Append(SubSeq(operands, 1, calls[Len(calls)].base), reg)
            /\ \A other \in Available(table) : table[other].memory_address = REG_NO_MEMORY
    BY <1>1, CallTable
  <2>2. /\ registers'[reg].temporary /\ registers'[reg].in_use
        /\ \A other \in General \ {reg} : registers'[other] = table[other]
    BY <2>1 DEF RegisterMarkTemporary, RegisterAlloc, Tables, Descriptors
  <2>3. \A other \in Available(registers') : AgreesIn(registers', cpu', other)
    BY <2>1, <2>2 DEF Available, AgreesIn
  <2>4. Top' = reg
    <3> DEFINE kept == SubSeq(operands, 1, calls[Len(calls)].base)
    <3>1. kept \in Seq(General)
      <4>1. calls # <<>> /\ calls \in Seq(ArgumentLists) /\ operands \in Seq(General)
        BY <1>1 DEF FunctionCall, TypeOK
      <4>2. calls[Len(calls)] \in ArgumentLists
        BY <4>1
      <4>3. calls[Len(calls)].base \in Nat
        BY <4>2 DEF ArgumentLists
      <4>4. calls[Len(calls)].base <= Len(operands)
        <5>1. Len(operands) = calls[Len(calls)].base + calls[Len(calls)].count
          BY <1>1 DEF FunctionCall, Held
        <5>2. calls[Len(calls)].count \in Nat
          BY <4>2 DEF ArgumentLists
        <5>3. QED
          BY <4>3, <5>1, <5>2
      <4>5. QED
        BY <4>1, <4>3, <4>4
    <3> HIDE DEF kept
    <3>2. operands' = Append(kept, reg)
      BY <2>1 DEF kept
    <3>3. Len(operands') = Len(kept) + 1 /\ operands'[Len(kept) + 1] = reg
      BY <3>1, <3>2, AppendProperties
    <3>4. QED
      BY <3>3 DEF Top
  <2>5. AgreesIn(registers', cpu', Top')
    BY <2>2, <2>4 DEF AgreesIn
  <2>6. QED
    BY <2>3, <2>5, CacheForms
<1>2. ASSUME registers' = registers, cpu' = cpu
      PROVE  CacheSound'
  BY <1>2 DEF CacheSound, BoundCopy, Agrees
<1>3. BeginFunctionArguments => CacheSound' /\ TopIsFresh'
  <2> SUFFICES ASSUME BeginFunctionArguments PROVE CacheSound' /\ TopIsFresh'
    OBVIOUS
  <2>1. calls' = Append(calls, [base |-> Len(operands), count |-> 0]) /\ operands' = operands
    BY DEF BeginFunctionArguments
  <2>2. Held' = Len(operands')
    <3> DEFINE list == [base |-> Len(operands), count |-> 0]
    <3>1. list \in ArgumentLists /\ calls \in Seq(ArgumentLists) /\ Len(operands) \in Nat
      BY DEF TypeOK, ArgumentLists
    <3>2. list.base + list.count = Len(operands)
      BY <3>1
    <3>3. calls' = Append(calls, list)
      BY <2>1
    <3> HIDE DEF list
    <3>4. calls' # <<>> /\ calls'[Len(calls')] = list
      BY <3>1, <3>3
    <3>5. QED
      BY <2>1, <3>2, <3>4 DEF Held
  <2>3. TopIsFresh'
    <3>1. Len(operands') \in Nat
      BY <2>1 DEF TypeOK
    <3>2. QED
      BY <2>2, <3>1 DEF TopIsFresh
  <2>4. QED
    BY <1>2, <2>3 DEF BeginFunctionArguments
<1>4. AddFunctionArgument => CacheSound' /\ TopIsFresh'
  <2> SUFFICES ASSUME AddFunctionArgument PROVE CacheSound' /\ TopIsFresh'
    OBVIOUS
  <2>1. /\ operands' = operands /\ Len(operands) = Held + 1 /\ calls # <<>>
        /\ calls' = [calls EXCEPT ![Len(calls)].count = @ + 1]
        /\ calls \in Seq(ArgumentLists)
    BY DEF AddFunctionArgument, TypeOK
  <2>2. /\ Len(calls) \in DOMAIN calls /\ calls[Len(calls)] \in ArgumentLists
        /\ Len(calls') = Len(calls) /\ calls' # <<>>
    BY <2>1
  <2>3. /\ calls'[Len(calls')].base = calls[Len(calls)].base
        /\ calls'[Len(calls')].count = calls[Len(calls)].count + 1
    BY <2>1, <2>2 DEF ArgumentLists
  <2>4. calls[Len(calls)].base \in Nat /\ calls[Len(calls)].count \in Nat
    BY <2>2 DEF ArgumentLists
  <2>5. Held' = Len(operands') /\ Held' \in Nat
    <3> DEFINE base == calls[Len(calls)].base
               count == calls[Len(calls)].count
    <3>1. Held = base + count
      BY <2>1 DEF Held
    <3>2. Held' = base + (count + 1)
      <4>1. Held' = calls'[Len(calls')].base + calls'[Len(calls')].count
        BY <2>2 DEF Held
      <4>2. QED
        BY <4>1, <2>3
    <3>3. operands' = operands /\ Len(operands) = Held + 1
      BY <2>1
    <3>4. base \in Nat /\ count \in Nat
      BY <2>4
    <3> HIDE DEF base, count
    <3>5. QED
      BY <3>1, <3>2, <3>3, <3>4
  <2>6. QED
    BY <1>2, <2>5 DEF AddFunctionArgument, TopIsFresh
<1>5. ASSUME NEW f \in FunctionNames, CallFails(f)
      PROVE  CacheSound' /\ TopIsFresh'
  BY <1>5, CacheKept DEF CallFails, Exit
<1>6. QED
  BY <1>1, <1>3, <1>4, <1>5 DEF CallExpression

LEMMA AddressIsCell ==
    ASSUME TypeOK, AddressesFit
    PROVE  /\ Bounded(registers, WordSize)
           /\ next_global_address < MaxSymbols => next_global_address \in Word
           /\ \A i \in DOMAIN symbols : symbols[i].storage = "global" => symbols[i].place \in Word
<1>1. /\ next_global_address \in Nat /\ next_global_address <= MaxSymbols
      /\ MaxSymbols \in Nat /\ MaxSymbols <= WordSize /\ WordSize \in Nat
  BY CodeGenAssumption, WordSizeAssumption DEF AddressesFit, TypeOK
<1>2. \A reg \in General : registers[reg].memory_address \in Int
  BY DEF TypeOK, Descriptors, REG_NO_MEMORY
<1>3. QED
  BY <1>1, <1>2, PlaceIsNat DEF AddressesFit, Bounded, GlobalsBelow, Word

LEMMA CacheStatement ==
    ASSUME ShapeInv, AddressesFit, CacheSound, TopIsFresh, Statement
    PROVE  CacheSound' /\ TopIsFresh'
<1>1. /\ TypeOK /\ registers \in Tables /\ cpu \in MachineStates /\ General \subseteq Registers
      /\ Bounded(registers, WordSize)
  BY AddressIsCell, RegisterNumbers DEF ShapeInv, TypeOK, Tables
<1>2. \A other \in Available(registers) : AgreesIn(registers, cpu, other)
  BY CacheForms
<1>3. ~InsideFunction /\ InExpression /\ Len(symbols) < MaxSymbols => next_global_address \in Word
  BY <1>1, AddressIsCell DEF AddressesFit, InsideFunction, InExpression, Bodies
<1>4. ASSUME NEW x \in Names, Declaration(x)
      PROVE  CacheSound' /\ TopIsFresh'
  <2>1. OneValue /\ operands' = <<>> /\ calls' = <<>> /\ Top \in General
    BY <1>1, <1>4, TopIsGeneral DEF Declaration, OneValue
  <2>2. CASE InsideFunction
    BY <1>4, <2>1, <2>2, CacheReset DEF Declaration, DeclareLocal
  <2>3. CASE ~InsideFunction
    <3>1. DeclareGlobal(x, cpu, registers, Top) /\ next_global_address \in Word
      BY <1>3, <1>4, <2>1, <2>3 DEF Declaration, OneValue, DeclareGlobal, Declare
    <3>2. QED
      BY <1>1, <1>2, <2>1, <3>1, CacheStore DEF DeclareGlobal
  <2>4. QED
    BY <2>2, <2>3
<1>5. ASSUME NEW x \in Names, EmptyDeclaration(x)
      PROVE  CacheSound' /\ TopIsFresh'
  <2> DEFINE table(reg) == RegisterMarkTemporary(RegisterAlloc(registers, reg), reg)
  <2>1. operands' = <<>> /\ calls' = <<>> /\ InExpression
    BY <1>5 DEF EmptyDeclaration
  <2>2. CASE InsideFunction
    BY <1>5, <2>1, <2>2, CacheReset DEF EmptyDeclaration, DeclareLocal
  <2>3. CASE ~InsideFunction
    <3>1. PICK reg \in General : DeclareGlobal(x, Afc(cpu, reg, 0), table(reg), reg)
      BY <1>5, <2>3 DEF EmptyDeclaration
    <3>2. next_global_address \in Word
      BY <1>3, <2>1, <2>3, <3>1 DEF DeclareGlobal, Declare
    <3> DEFINE machine == Afc(cpu, reg, 0)
    <3>3. /\ machine \in MachineStates /\ machine.m = cpu.m
          /\ \A other \in General \ {reg} : machine.r[other] = cpu.r[other]
      BY <1>1, RegisterInstructions
    <3>4. table(reg) \in Tables /\ Bounded(table(reg), WordSize)
      <4>1. /\ RegisterAlloc(registers, reg) \in Tables
            /\ Bounded(RegisterAlloc(registers, reg), WordSize)
        BY <1>1, TableTypes, BoundedTables, WordSizeAssumption
      <4>2. QED
        BY <4>1, TableTypes, BoundedTables, WordSizeAssumption
    <3>5. \A other \in General \ {reg} : table(reg)[other] = registers[other]
      BY <1>1 DEF RegisterMarkTemporary, RegisterAlloc, Tables, Descriptors
    <3> DEFINE fresh == table(reg)
    <3>6. DeclareGlobal(x, machine, fresh, reg)
      BY <3>1
    <3>7. fresh \in Tables /\ Bounded(fresh, WordSize)
      BY <3>4
    <3>8. \A other \in General \ {reg} : fresh[other] = registers[other]
      BY <3>5
    <3> HIDE DEF machine, fresh, table
    <3>9. ASSUME NEW other \in Available(fresh) \ {reg}
          PROVE  AgreesIn(fresh, machine, other)
      <4>1. /\ other \in Available(registers) /\ fresh[other] = registers[other]
            /\ machine.r[other] = cpu.r[other]
        BY <3>3, <3>8 DEF Available
      <4>2. AgreesIn(registers, cpu, other)
        BY <1>2, <4>1
      <4>3. QED
        BY <3>3, <4>1, <4>2, Zenon DEF AgreesIn
    <3>10. QED
      BY <2>1, <3>2, <3>3, <3>6, <3>7, <3>9, CacheStore DEF DeclareGlobal
  <2>4. QED
    BY <2>2, <2>3
<1>6. ASSUME NEW x \in Names, AssignGlobal(x)
      PROVE  CacheSound' /\ TopIsFresh'
  <2>1. PICK i \in DOMAIN symbols :
            /\ symbols[i].storage = "global"
            /\ cpu' = Store(cpu, symbols[i].place, Top)
            /\ registers' = RegisterFree(
                   RegisterBindMemory(RegisterForgetMemory(registers, symbols[i].place),
                                      Top, symbols[i].place), Top)
    BY <1>6 DEF AssignGlobal
  <2>2. operands' = <<>> /\ calls' = <<>> /\ Top \in General
    BY <1>1, <1>6, TopIsGeneral DEF AssignGlobal, InBody, OneValue
  <2>3. symbols[i].place \in Word
    BY <1>1, <2>1, AddressIsCell
  <2>4. QED
    BY <1>1, <1>2, <2>1, <2>2, <2>3, CacheStore
<1>7. (\E x \in Names : AssignUnknown(x)) \/ PrintStatement => CacheSound' /\ TopIsFresh'
  BY <1>1, CacheFree DEF AssignUnknown, PrintStatement
<1>8. (\E x \in Names : AssignLocal(x)) \/ PointerStore \/ DiscardExpression \/ ReturnStatement
          \/ ConditionalJump \/ Join \/ EndBlock => CacheSound' /\ TopIsFresh'
  BY CacheReset DEF AssignLocal, PointerStore, DiscardExpression, ReturnStatement, ConditionalJump,
     Join, EndBlock, StatementStart, InBody, OneValue
<1>9. BeginBlock => CacheSound' /\ TopIsFresh'
  BY CacheKept DEF BeginBlock
<1>10. QED
  BY <1>4, <1>5, <1>6, <1>7, <1>8, <1>9 DEF Statement

LEMMA CacheTopLevel ==
    ASSUME NothingHeld, CacheSound, TopIsFresh, TopLevel
    PROVE  CacheSound' /\ TopIsFresh'
<1>1. Exit => CacheSound' /\ TopIsFresh'
  BY CacheKept DEF Exit
<1>2. ProgramStart \/ EndFunctionDefinition \/ BeginMainMethod \/ EndMainMethod
          => CacheSound' /\ TopIsFresh'
  BY CacheReset DEF ProgramStart, EndFunctionDefinition, BeginMainMethod, EndMainMethod, NothingHeld,
     Bodies
<1>3. ASSUME NEW f \in FunctionNames, NEW parameters, BeginFunctionDefinition(f, parameters)
      PROVE  CacheSound' /\ TopIsFresh'
  BY <1>3, CacheReset DEF BeginFunctionDefinition, NothingHeld, Bodies
<1>4. QED
  BY <1>1, <1>2, <1>3 DEF TopLevel, DefinitionFails

LEMMA CacheInit == Init => CacheInv
<1> SUFFICES ASSUME Init PROVE CacheInv
  OBVIOUS
<1>1. /\ registers = RegistersInit /\ operands = <<>> /\ calls = <<>> /\ symbols = <<>>
      /\ next_global_address = 0
  BY DEF Init
<1>2. AddressesFit
  BY <1>1, BoundedReset, CodeGenAssumption DEF AddressesFit, GlobalsBelow
<1>3. CacheSound
  BY <1>1 DEF CacheSound, BoundCopy, Available, RegistersInit
<1>4. TopIsFresh
  BY <1>1 DEF TopIsFresh, Held
<1>5. QED
  BY <1>2, <1>3, <1>4 DEF CacheInv

LEMMA CacheStep == ShapeInv /\ RegisterInv /\ CacheInv /\ [Next]_vars => CacheInv'
<1> SUFFICES ASSUME ShapeInv, RegisterInv, CacheInv, [Next]_vars PROVE CacheInv'
  OBVIOUS
<1>1. TypeOK /\ NothingHeld /\ AddressesFit /\ CacheSound /\ TopIsFresh
  BY DEF ShapeInv, RegisterInv, CacheInv
<1>2. AddressesFit'
  BY <1>1, AddressesStep
<1>3. CASE UNCHANGED vars
  BY <1>1, <1>2, <1>3, CacheKept DEF vars, CacheInv
<1>4. QED
  BY <1>1, <1>2, <1>3, CacheExpression, CacheCall, CacheStatement, CacheTopLevel
     DEF Next, Finished, CacheInv

(* Every clean copy register_find_memory may hand out holds what memory has *)
(* at that moment: no assignment, pointer store, call, block end or jump    *)
(* target leaves a stale one.                                               *)
THEOREM CacheIsSound == Spec => []CacheSound
<1>1. CacheInv => CacheSound
  BY DEF CacheInv
<1>2. QED
  BY <1>1, ShapeInit, ShapeStep, RegisterInit, RegisterStep, CacheInit, CacheStep, PTL DEF Spec

(* The value on top of the parser's values, the only one a step makes       *)
(* available, is as fresh as the copies that are available already.         *)
THEOREM TopStaysFresh == Spec => []TopIsFresh
<1>1. CacheInv => TopIsFresh
  BY DEF CacheInv
<1>2. QED
  BY <1>1, ShapeInit, ShapeStep, RegisterInit, RegisterStep, CacheInit, CacheStep, PTL DEF Spec
==============================================================================
