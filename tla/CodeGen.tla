------------------------------- MODULE CodeGen -------------------------------
(***************************************************************************)
(* The code generator (src/c/code, src/c/symbol.c, src/c/functions.c and   *)
(* the register descriptors), driven by the parser's actions in src/yacc.y *)
(* and executed in lockstep: every action is one code_* call, and cpu is   *)
(* the machine after the instructions that call emitted, along the path of *)
(* execution on which they are reached.  What the compiler believes        *)
(* (registers, symbols, offsets) can so be compared with what the program  *)
(* finds when it runs.  Where the emitted code is reached from elsewhere   *)
(* (a jump target, a function entry, the return of a callee) the machine   *)
(* is arbitrary, within RegisterFiles and Memories.                        *)
(*                                                                         *)
(* Jump targets and instruction addresses are the subject of Layout.       *)
(***************************************************************************)
EXTENDS Machine, Sequences, FiniteSets

CONSTANTS
    Names,              \* identifiers of variables and parameters
    FunctionNames,      \* identifiers of functions
    Literals,           \* values of the number tokens
    BinaryOps,          \* opcodes of the binary expressions in use
    ParameterLists,     \* parameter lists a definition may have
    RegisterFiles,      \* registers the program may have where it is reached from elsewhere
    Memories,           \* memories likewise
    MAX_FUNCTIONS, MAX_FUNCTION_PARAMETERS, MAX_CALL_DEPTH,
    MaxSymbols,         \* bound: size of the symbol table, 256 in the code
    MaxScopes           \* bound: depth of nested blocks

ASSUME CodeGenAssumption ==
    /\ Literals \subseteq Nat
    /\ BinaryOps \subseteq AllBinaryOps
    /\ ParameterLists \subseteq Seq(Names)
    /\ RegisterFiles \subseteq [Registers -> Word]
    /\ Memories \subseteq [Word -> Word]
    /\ {MAX_FUNCTIONS, MAX_FUNCTION_PARAMETERS, MAX_CALL_DEPTH, MaxSymbols, MaxScopes} \subseteq Nat
    /\ MaxSymbols <= WordSize
    /\ \A parameters \in ParameterLists : 2 * Len(parameters) + 2 <= WordSize

VARIABLES
    phase,                  \* where the parser is in Program; inside_function follows from it
    registers,              \* the register descriptors
    symbols,                \* the symbol table, oldest first
    next_global_address,
    next_local_offset,
    scopes,                 \* the bases the open blocks restore, outermost first
    functions,              \* the function table, oldest first
    operands,               \* registers of the values the parser holds, oldest first
    calls,                  \* the open argument lists: operands below each, arguments in it
    cpu,                    \* the machine the emitted code runs on
    event,                  \* the source operation just compiled, and what its code showed
    frame_base              \* history: symbols in the table when the current function began

state == <<symbols, next_global_address, next_local_offset, scopes, functions, frame_base>>
vars == <<phase, registers, operands, calls, cpu, event, state>>

Phases == {"globals", "toplevel", "function_head", "function_body", "function_tail",
           "main_head", "main_body", "main_tail", "done", "exit"}
Bodies == {"function_body", "main_body"}
InsideFunction == phase \in {"function_head", "function_body", "function_tail",
                             "main_head", "main_body", "main_tail"}

Symbols == [name : Names, storage : {"global", "local"}, place : Nat]
Scopes == [symbol_table_base : Nat, local_offset_base : Nat]
FunctionEntries == [name : FunctionNames, parameter_count : Nat]
ArgumentLists == [base : Nat, count : Nat]
Kinds == {"start", "literal", "read", "address", "binary", "not", "follow", "declare", "assign",
          "store", "print", "discard", "return", "branch", "join", "open", "close", "list",
          "argument", "call", "frame", "exit"}
Nothing == "nothing"
Subjects == Names \cup FunctionNames \cup BinaryOps \cup {Nothing}
Events == [kind : Kinds, subject : Subjects, values : Seq(Int)]

Event(kind, subject, values) == [kind |-> kind, subject |-> subject, values |-> values]
Saw(kind, subject, values) == event' = Event(kind, subject, values)

(* Mutant of IsNewest: the scan starts at the oldest entry.                 *)
MutantIsOldest(table, i, name) ==
    /\ i \in DOMAIN table
    /\ table[i].name = name
    /\ \A j \in DOMAIN table : table[j].name = name => i <= j

(* symbol_get and function_get_* scan a table from its newest entry.        *)
IsNewest(table, i, name) ==
    /\ i \in DOMAIN table
    /\ table[i].name = name
    /\ \A j \in DOMAIN table : table[j].name = name => j <= i

Unknown(table, name) == \A i \in DOMAIN table : table[i].name # name

(* Values the parser holds outside the innermost open argument list and the *)
(* arguments already recorded in it: an expression uses only those above.   *)
Held == IF calls = <<>> THEN 0 ELSE calls[Len(calls)].base + calls[Len(calls)].count
Top == operands[Len(operands)]
Pop == SubSeq(operands, 1, Len(operands) - 1)

InExpression == phase \in Bodies \cup {"globals"}
InBody == phase \in Bodies /\ calls = <<>>
StatementStart == InBody /\ operands = <<>>
OneValue == InExpression /\ calls = <<>> /\ Len(operands) = 1

(* The compiler reset its descriptors at a point other code jumps to: the   *)
(* frame is the one of this activation, anything else may have changed.     *)
Elsewhere ==
    \E r \in RegisterFiles, m \in Memories :
        cpu' = [r |-> [r EXCEPT ![REG_SP] = cpu.r[REG_SP], ![REG_FP] = cpu.r[REG_FP]],
                m |-> m]

Exit ==
    /\ phase' = "exit"
    /\ Saw("exit", Nothing, <<>>)
    /\ UNCHANGED <<registers, operands, calls, cpu, state>>

-----------------------------------------------------------------------------
(* code_expressions.c *)

Fresh(reg) == IsLowest(reg, Available(registers))

(* A fresh register takes the value the instructions of machine left in it. *)
PushTemporary(reg, machine) ==
    /\ registers' = RegisterMarkTemporary(RegisterAlloc(registers, reg), reg)
    /\ operands' = Append(operands, reg)
    /\ cpu' = machine
    /\ UNCHANGED <<phase, calls, state>>

ConstantLoad(value) ==
    /\ InExpression
    /\ Saw("literal", Nothing, <<value>>)
    /\ \E reg \in General : Fresh(reg) /\ PushTemporary(reg, Afc(cpu, reg, value))

LoadUnknown(x) ==
    /\ InExpression
    /\ Unknown(symbols, x)
    /\ Saw("read", x, <<>>)
    /\ \E reg \in General : Fresh(reg) /\ PushTemporary(reg, Afc(cpu, reg, 0))

LoadLocal(x) ==
    /\ InExpression
    /\ Saw("read", x, <<>>)
    /\ \E i \in DOMAIN symbols, reg \in General :
        /\ IsNewest(symbols, i, x)
        /\ symbols[i].storage = "local"
        /\ Fresh(reg)
        /\ PushTemporary(reg, LoadR(ComputeLocalAddress(cpu, symbols[i].place), reg, REG_TMP))

(* The register that still has the global is used again: nothing is emitted. *)
LoadCached(x) ==
    /\ InExpression
    /\ \E i \in DOMAIN symbols, reg \in General :
        /\ IsNewest(symbols, i, x)
        /\ symbols[i].storage = "global"
        /\ IsLowest(reg, CleanCopies(registers, symbols[i].place))
        /\ registers' = RegisterUse(registers, reg)
        /\ operands' = Append(operands, reg)
    /\ Saw("read", x, <<>>)
    /\ UNCHANGED <<phase, calls, cpu, state>>

LoadGlobal(x) ==
    /\ InExpression
    /\ \E i \in DOMAIN symbols, reg \in General :
        /\ IsNewest(symbols, i, x)
        /\ symbols[i].storage = "global"
        /\ CleanCopies(registers, symbols[i].place) = {}
        /\ Fresh(reg)
        /\ registers' = RegisterBindMemory(RegisterAlloc(registers, reg), reg, symbols[i].place)
        /\ operands' = Append(operands, reg)
        /\ cpu' = Load(cpu, reg, symbols[i].place)
    /\ Saw("read", x, <<>>)
    /\ UNCHANGED <<phase, calls, state>>

Binary(op) ==
    /\ InExpression
    /\ Len(operands) >= Held + 2
    /\ LET left == operands[Len(operands) - 1]
       IN  /\ cpu' = Ternary(cpu, op, left, left, Top)
           /\ registers' = RegisterMarkTemporary(RegisterFree(registers, Top), left)
    /\ operands' = Pop
    /\ Saw("binary", op, <<>>)
    /\ UNCHANGED <<phase, calls, state>>

(* NOT and the pointer read overwrite the register of their operand.        *)
Overwrite(kind, machine) ==
    /\ InExpression
    /\ Len(operands) > Held
    /\ cpu' = machine
    /\ registers' = RegisterMarkTemporary(registers, Top)
    /\ Saw(kind, Nothing, <<>>)
    /\ UNCHANGED <<phase, operands, calls, state>>

Unary == Overwrite("not", Not(cpu, Top, Top))
PointerLoad == Overwrite("follow", LoadR(cpu, Top, Top))

AddressOfLocal(x) ==
    /\ InExpression
    /\ Saw("address", x, <<>>)
    /\ \E i \in DOMAIN symbols, reg \in General :
        /\ IsNewest(symbols, i, x)
        /\ symbols[i].storage = "local"
        /\ Fresh(reg)
        /\ PushTemporary(reg, Ternary(Afc(cpu, reg, symbols[i].place), "SUB", reg, REG_FP, reg))

AddressOfGlobal(x) ==
    /\ InExpression
    /\ Saw("address", x, <<>>)
    /\ \E i \in DOMAIN symbols, reg \in General :
        /\ IsNewest(symbols, i, x)
        /\ symbols[i].storage = "global"
        /\ Fresh(reg)
        /\ PushTemporary(reg, Afc(cpu, reg, symbols[i].place))

(* Nothing is emitted: the value is whatever the register had.              *)
AddressOfUnknown(x) ==
    /\ InExpression
    /\ Unknown(symbols, x)
    /\ \E reg \in General :
        /\ Fresh(reg)
        /\ registers' = RegisterAlloc(registers, reg)
        /\ operands' = Append(operands, reg)
    /\ Saw("address", x, <<>>)
    /\ UNCHANGED <<phase, calls, cpu, state>>

(* register_alloc ends the compiler; only the reuse of a clean copy of a    *)
(* global and a call that frees its arguments need no register.             *)
OutOfRegisters ==
    /\ InExpression
    /\ Available(registers) = {}
    /\ Exit

-----------------------------------------------------------------------------
(* Statements that end an expression *)

Declare(x, storage, place) ==
    /\ Len(symbols) < MaxSymbols
    /\ symbols' = Append(symbols, [name |-> x, storage |-> storage, place |-> place])

(* Mutant of DeclareLocal: the next local gets the same slot.               *)
MutantSameSlot(x, machine, reg) ==
    /\ Declare(x, "local", next_local_offset)
    /\ cpu' = StackPush(StoreR(ComputeLocalAddress(machine, next_local_offset), REG_TMP, reg))
    /\ registers' = RegistersInit
    /\ UNCHANGED <<next_global_address, next_local_offset>>

(* code_add_variable_declaration inside a function, of a value in reg.      *)
DeclareLocal(x, machine, reg) ==
    /\ Declare(x, "local", next_local_offset)
    /\ next_local_offset' = next_local_offset + 1
    /\ cpu' = StackPush(StoreR(ComputeLocalAddress(machine, next_local_offset), REG_TMP, reg))
    /\ registers' = RegistersInit
    /\ UNCHANGED next_global_address

(* ... and outside: table is the descriptors with reg holding the value.    *)
DeclareGlobal(x, machine, table, reg) ==
    /\ Declare(x, "global", next_global_address)
    /\ next_global_address' = next_global_address + 1
    /\ cpu' = Store(machine, next_global_address, reg)
    /\ registers' = RegisterFree(
           RegisterBindMemory(RegisterForgetMemory(table, next_global_address),
                              reg, next_global_address), reg)
    /\ UNCHANGED next_local_offset

Declaration(x) ==
    /\ OneValue
    /\ IF InsideFunction THEN DeclareLocal(x, cpu, Top)
                         ELSE DeclareGlobal(x, cpu, registers, Top)
    /\ operands' = <<>>
    /\ Saw("declare", x, <<>>)
    /\ UNCHANGED <<phase, calls, scopes, functions, frame_base>>

EmptyDeclaration(x) ==
    /\ InExpression /\ calls = <<>> /\ operands = <<>>
    /\ \E reg \in General :
        /\ Fresh(reg)
        /\ LET machine == Afc(cpu, reg, 0)
               table == RegisterMarkTemporary(RegisterAlloc(registers, reg), reg)
           IN  IF InsideFunction THEN DeclareLocal(x, machine, reg)
                                 ELSE DeclareGlobal(x, machine, table, reg)
    /\ Saw("declare", x, <<>>)
    /\ UNCHANGED <<phase, operands, calls, scopes, functions, frame_base>>

AssignUnknown(x) ==
    /\ InBody /\ OneValue
    /\ Unknown(symbols, x)
    /\ registers' = RegisterFree(registers, Top)
    /\ operands' = <<>>
    /\ Saw("assign", x, <<>>)
    /\ UNCHANGED <<phase, calls, cpu, state>>

AssignLocal(x) ==
    /\ InBody /\ OneValue
    /\ \E i \in DOMAIN symbols :
        /\ IsNewest(symbols, i, x)
        /\ symbols[i].storage = "local"
        /\ cpu' = StoreR(ComputeLocalAddress(cpu, symbols[i].place), REG_TMP, Top)
    /\ registers' = RegistersInit
    /\ operands' = <<>>
    /\ Saw("assign", x, <<>>)
    /\ UNCHANGED <<phase, calls, state>>

AssignGlobal(x) ==
    /\ InBody /\ OneValue
    /\ \E i \in DOMAIN symbols :
        /\ IsNewest(symbols, i, x)
        /\ symbols[i].storage = "global"
        /\ cpu' = Store(cpu, symbols[i].place, Top)
        /\ registers' = RegisterFree(
               RegisterBindMemory(RegisterForgetMemory(registers, symbols[i].place),
                                  Top, symbols[i].place), Top)
    /\ operands' = <<>>
    /\ Saw("assign", x, <<>>)
    /\ UNCHANGED <<phase, calls, state>>

(* Mutant of PointerStore: the copies of globals it may have changed stay.  *)
MutantPointerStoreKeepsCopies ==
    /\ InBody
    /\ Len(operands) = 2
    /\ cpu' = StoreR(cpu, operands[1], operands[2])
    /\ registers' = RegisterFree(RegisterFree(registers, operands[2]), operands[1])
    /\ operands' = <<>>
    /\ Saw("store", Nothing, <<>>)
    /\ UNCHANGED <<phase, calls, state>>

PointerStore ==
    /\ InBody
    /\ Len(operands) = 2
    /\ cpu' = StoreR(cpu, operands[1], operands[2])
    /\ registers' = RegistersInit
    /\ operands' = <<>>
    /\ Saw("store", Nothing, <<>>)
    /\ UNCHANGED <<phase, calls, state>>

PrintStatement ==
    /\ InBody /\ OneValue
    /\ Saw("print", Nothing, <<cpu.r[Top]>>)
    /\ registers' = RegisterFree(registers, Top)
    /\ operands' = <<>>
    /\ UNCHANGED <<phase, calls, cpu, state>>

DiscardExpression ==
    /\ InBody /\ OneValue
    /\ registers' = RegistersInit
    /\ operands' = <<>>
    /\ Saw("discard", Nothing, <<>>)
    /\ UNCHANGED <<phase, calls, cpu, state>>

(* The code after a return is reached only by a jump; the event is what the *)
(* caller gets: the value, its stack and frame pointers and where it goes.  *)
ReturnStatement ==
    /\ InBody /\ OneValue
    /\ LET gone == FunctionSuffix(Cop(cpu, REG_RETURN, Top))
       IN  Saw("return", Nothing, <<gone.r[REG_RETURN], gone.r[REG_SP], gone.r[REG_FP], gone.r[REG_RA]>>)
    /\ registers' = RegistersInit
    /\ operands' = <<>>
    /\ Elsewhere
    /\ UNCHANGED <<phase, calls, state>>

(* The condition of an if or a while: the code that follows runs in this    *)
(* state when it is true, in another execution's when it is not.            *)
ConditionalJump ==
    /\ InBody /\ OneValue
    /\ Saw("branch", Nothing, <<cpu.r[Top]>>)
    /\ registers' = RegistersInit
    /\ operands' = <<>>
    /\ IF cpu.r[Top] # 0 THEN UNCHANGED cpu ELSE Elsewhere
    /\ UNCHANGED <<phase, calls, state>>

(* Every other jump and jump target: the start of a while, the jump over an *)
(* else, the loop's jump back, and the patches at the end of each.          *)
Join ==
    /\ StatementStart
    /\ registers' = RegistersInit
    /\ Elsewhere
    /\ Saw("join", Nothing, <<>>)
    /\ UNCHANGED <<phase, operands, calls, state>>

-----------------------------------------------------------------------------
(* Blocks, functions and main *)

(* Mutant of OpenScope: counts the symbols of the function only.            *)
MutantScopeOfFunction ==
    [symbol_table_base |-> next_local_offset, local_offset_base |-> next_local_offset]

(* scope_init_child: what the end of the block will restore.                *)
OpenScope == [symbol_table_base |-> Len(symbols), local_offset_base |-> next_local_offset]

(* The formal bound on blocks and symbols is the only guard not in the code. *)
BeginBlock ==
    /\ StatementStart \/ phase \in {"function_head", "main_head"}
    /\ Len(scopes) < MaxScopes
    /\ scopes' = Append(scopes, OpenScope)
    /\ phase' = CASE phase = "function_head" -> "function_body"
                  [] phase = "main_head" -> "main_body"
                  [] OTHER -> phase
    /\ Saw("open", Nothing, <<>>)
    /\ UNCHANGED <<registers, operands, calls, cpu, symbols, next_global_address,
                   next_local_offset, functions, frame_base>>

(* Mutant of StackPops: one pop is missing.                                 *)
MutantOnePopMissing(machine, count) ==
    IF count = 0 THEN machine
    ELSE [machine EXCEPT !.r[REG_TMP] = 1, !.r[REG_SP] = Byte(machine.r[REG_SP] + count - 1)]

(* The pops of the block's locals, all together.                            *)
StackPops(machine, count) ==
    IF count = 0 THEN machine
    ELSE [machine EXCEPT !.r[REG_TMP] = 1, !.r[REG_SP] = Byte(machine.r[REG_SP] + count)]

EndBlock ==
    /\ StatementStart
    /\ scopes # <<>>
    /\ LET scope == scopes[Len(scopes)]
       IN  /\ cpu' = StackPops(cpu, next_local_offset - scope.local_offset_base)
           /\ symbols' = SubSeq(symbols, 1, scope.symbol_table_base)
           /\ next_local_offset' = scope.local_offset_base
    /\ scopes' = SubSeq(scopes, 1, Len(scopes) - 1)
    /\ registers' = RegistersInit
    /\ phase' = IF Len(scopes) > 1 THEN phase
                ELSE IF phase = "function_body" THEN "function_tail" ELSE "main_tail"
    /\ Saw("close", Nothing, <<>>)
    /\ UNCHANGED <<operands, calls, next_global_address, functions, frame_base>>

ProgramStart ==
    /\ phase = "globals" /\ operands = <<>> /\ calls = <<>>
    /\ phase' = "toplevel"
    /\ registers' = RegistersInit
    /\ Saw("frame", Nothing, <<>>)
    /\ UNCHANGED <<operands, calls, cpu, state>>

(* code_add_parameter_locals copies argument i from the caller's pushes,    *)
(* below the saved ra and fp, into slot i of the frame.                     *)
ArgumentCell(fp, count, i) == Byte(fp + count - i + 2)
LocalCell(fp, i) == Byte(fp - i)

ParameterLocals(machine, count, reg) ==
    LET fp == machine.r[REG_FP]
        argument(i) == machine.m[ArgumentCell(fp, count, i)]
    IN  IF count = 0 THEN machine
        ELSE [r |-> [machine.r EXCEPT ![reg] = argument(count - 1), ![REG_TMP] = 1,
                                      ![REG_SP] = Byte(machine.r[REG_SP] - count)],
              m |-> [a \in Word |->
                        IF \E i \in 0..(count - 1) : a = LocalCell(fp, i)
                        THEN argument(CHOOSE i \in 0..(count - 1) : a = LocalCell(fp, i))
                        ELSE machine.m[a]]]

BeginFunctionDefinition(f, parameters) ==
    /\ phase = "toplevel"
    /\ Len(functions) < MAX_FUNCTIONS
    /\ Len(parameters) <= MAX_FUNCTION_PARAMETERS
    /\ Len(symbols) + Len(parameters) <= MaxSymbols
    /\ phase' = "function_head"
    /\ functions' = Append(functions, [name |-> f, parameter_count |-> Len(parameters)])
    /\ symbols' = symbols \o
           [i \in 1..Len(parameters) |->
               [name |-> parameters[i], storage |-> "local", place |-> i - 1]]
    /\ next_local_offset' = Len(parameters)
    /\ \E r \in RegisterFiles, m \in Memories, reg \in General :
        /\ Fresh(reg)
        /\ cpu' = ParameterLocals(FunctionPrefix([r |-> r, m |-> m]), Len(parameters), reg)
    /\ registers' = RegistersInit
    /\ frame_base' = Len(symbols)
    /\ Saw("frame", Nothing, <<>>)
    /\ UNCHANGED <<operands, calls, next_global_address, scopes>>

DefinitionFails(parameters) ==
    /\ phase = "toplevel"
    /\ Len(functions) >= MAX_FUNCTIONS \/ Len(parameters) > MAX_FUNCTION_PARAMETERS
    /\ Exit

EndFunctionDefinition ==
    /\ phase = "function_tail"
    /\ phase' = "toplevel"
    /\ cpu' = FunctionSuffix(Afc(cpu, REG_RETURN, 0))
    /\ Saw("frame", Nothing, <<cpu'.r[REG_RETURN], cpu'.r[REG_SP], cpu'.r[REG_FP], cpu'.r[REG_RA]>>)
    /\ registers' = RegistersInit
    /\ UNCHANGED <<operands, calls, state>>

BeginMainMethod ==
    /\ phase = "toplevel"
    /\ phase' = "main_head"
    /\ next_local_offset' = 0
    /\ \E r \in RegisterFiles, m \in Memories :
        cpu' = Cop(Afc([r |-> r, m |-> m], REG_SP, WordSize - 1), REG_FP, REG_SP)
    /\ registers' = RegistersInit
    /\ frame_base' = Len(symbols)
    /\ Saw("frame", Nothing, <<>>)
    /\ UNCHANGED <<operands, calls, symbols, next_global_address, scopes, functions>>

EndMainMethod ==
    /\ phase = "main_tail"
    /\ phase' = "done"
    /\ registers' = RegistersInit
    /\ Saw("frame", Nothing, <<>>)
    /\ UNCHANGED <<operands, calls, cpu, state>>

-----------------------------------------------------------------------------
(* Calls *)

(* Mutant of BeginFunctionArguments: an inner list starts at the bottom.    *)
MutantListFromBottom ==
    /\ InExpression
    /\ Len(calls) < MAX_CALL_DEPTH
    /\ calls' = Append(calls, [base |-> 0, count |-> 0])
    /\ Saw("list", Nothing, <<>>)
    /\ UNCHANGED <<phase, registers, operands, cpu, state>>

BeginFunctionArguments ==
    /\ InExpression
    /\ Len(calls) < MAX_CALL_DEPTH
    /\ calls' = Append(calls, [base |-> Len(operands), count |-> 0])
    /\ Saw("list", Nothing, <<>>)
    /\ UNCHANGED <<phase, registers, operands, cpu, state>>

AddFunctionArgument ==
    /\ calls # <<>>
    /\ Len(operands) = Held + 1
    /\ calls[Len(calls)].count < MAX_FUNCTION_PARAMETERS
    /\ calls' = [calls EXCEPT ![Len(calls)].count = @ + 1]
    /\ Saw("argument", Nothing, <<>>)
    /\ UNCHANGED <<phase, registers, operands, cpu, state>>

Arguments == SubSeq(operands, calls[Len(calls)].base + 1, Held)
(* Mutants of the two sets below: the first argument does not count as one, *)
(* and no register is saved.                                                *)
MutantFirstArgumentMissed == {Arguments[i] : i \in DOMAIN Arguments \ {1}}
MutantNothingSaved == {}

ArgumentRegisters == {Arguments[i] : i \in DOMAIN Arguments}
SavedRegisters == InUse(registers) \ ArgumentRegisters

(* The caller pushes the saved registers in ascending order, then the       *)
(* arguments in theirs, from sp downwards.                                  *)
SavedCell(reg) == Byte(cpu.r[REG_SP] - Cardinality({s \in SavedRegisters : s < reg}))
SavedCells == {SavedCell(reg) : reg \in SavedRegisters}
(* Mutant of PushedArgumentCell: the last argument is pushed first.         *)
MutantReversedArguments(i) ==
    Byte(cpu.r[REG_SP] - Cardinality(SavedRegisters) - (Len(Arguments) - i))

PushedArgumentCell(i) == Byte(cpu.r[REG_SP] - Cardinality(SavedRegisters) - (i - 1))

CallerMemory ==
    [a \in Word |->
        IF a \in SavedCells
        THEN cpu.r[CHOOSE reg \in SavedRegisters : a = SavedCell(reg)]
        ELSE IF \E i \in DOMAIN Arguments : a = PushedArgumentCell(i)
        THEN cpu.r[Arguments[CHOOSE i \in DOMAIN Arguments : a = PushedArgumentCell(i)]]
        ELSE cpu.m[a]]

(* Where the callee's prefix puts its frame: below the pushes and the two   *)
(* cells of the saved ra and fp.                                            *)
CalleeFrame == Byte(cpu.r[REG_SP] - Cardinality(SavedRegisters) - Len(Arguments) - 2)

(* The callee is any code that gives back sp and fp and does not write the  *)
(* saved registers through a pointer; then they are popped into place.      *)
CallReturns(reg, r, m) ==
    LET back == [a \in Word |-> IF a \in SavedCells THEN CallerMemory[a] ELSE m[a]]
    IN  cpu' = [r |-> [k \in Registers |->
                          CASE k = reg -> r[REG_RETURN]
                            [] k \in {REG_SP, REG_FP} -> cpu.r[k]
                            [] k \in SavedRegisters -> back[SavedCell(k)]
                            [] k = REG_TMP /\ SavedRegisters \cup ArgumentRegisters # {} -> 1
                            [] OTHER -> r[k]],
                m |-> back]

FunctionCall(f) ==
    /\ calls # <<>>
    /\ Len(operands) = Held
    /\ \E i \in DOMAIN functions :
        /\ IsNewest(functions, i, f)
        /\ functions[i].parameter_count = Len(Arguments)
    /\ LET freed == [reg \in General |-> IF reg \in ArgumentRegisters
                                         THEN [registers[reg] EXCEPT !.in_use = FALSE]
                                         ELSE registers[reg]]
           table == RegisterForgetAvailable(freed)
       IN  \E reg \in General, r \in RegisterFiles, m \in Memories :
            /\ IsLowest(reg, Available(table))
            /\ registers' = RegisterMarkTemporary(RegisterAlloc(table, reg), reg)
            /\ operands' = Append(SubSeq(operands, 1, calls[Len(calls)].base), reg)
            /\ CallReturns(reg, r, m)
    /\ calls' = SubSeq(calls, 1, Len(calls) - 1)
    /\ Saw("call", f, [i \in DOMAIN Arguments |->
                       CallerMemory[ArgumentCell(CalleeFrame, Len(Arguments), i - 1)]])
    /\ UNCHANGED <<phase, state>>

CallFails(f) ==
    /\ InExpression
    /\ \/ Len(calls) = MAX_CALL_DEPTH       \* at the next argument list
       \/ /\ calls # <<>>
          /\ Len(operands) = Held + 1
          /\ calls[Len(calls)].count = MAX_FUNCTION_PARAMETERS
       \/ /\ calls # <<>>
          /\ Len(operands) = Held
          /\ \/ Unknown(functions, f)
             \/ \E i \in DOMAIN functions :
                    /\ IsNewest(functions, i, f)
                    /\ functions[i].parameter_count # Len(Arguments)
    /\ Exit

-----------------------------------------------------------------------------
Init ==
    /\ phase = "globals"
    /\ registers = RegistersInit
    /\ symbols = <<>> /\ next_global_address = 0 /\ next_local_offset = 0
    /\ scopes = <<>> /\ functions = <<>> /\ frame_base = 0
    /\ operands = <<>> /\ calls = <<>>
    /\ \E r \in RegisterFiles, m \in Memories : cpu = [r |-> r, m |-> m]
    /\ event = Event("start", Nothing, <<>>)

Expression ==
    \/ \E value \in Literals : ConstantLoad(value)
    \/ \E x \in Names : \/ LoadUnknown(x) \/ LoadLocal(x) \/ LoadCached(x) \/ LoadGlobal(x)
                        \/ AddressOfLocal(x) \/ AddressOfGlobal(x) \/ AddressOfUnknown(x)
    \/ \E op \in BinaryOps : Binary(op)
    \/ Unary
    \/ PointerLoad
    \/ OutOfRegisters

CallExpression ==
    \/ BeginFunctionArguments
    \/ AddFunctionArgument
    \/ \E f \in FunctionNames : FunctionCall(f) \/ CallFails(f)

Statement ==
    \/ \E x \in Names : \/ Declaration(x) \/ EmptyDeclaration(x)
                        \/ AssignUnknown(x) \/ AssignLocal(x) \/ AssignGlobal(x)
    \/ PointerStore
    \/ PrintStatement
    \/ DiscardExpression
    \/ ReturnStatement
    \/ ConditionalJump
    \/ Join
    \/ BeginBlock
    \/ EndBlock

TopLevel ==
    \/ ProgramStart
    \/ \E parameters \in ParameterLists :
        \/ \E f \in FunctionNames : BeginFunctionDefinition(f, parameters)
        \/ DefinitionFails(parameters)
    \/ EndFunctionDefinition
    \/ BeginMainMethod
    \/ EndMainMethod

Finished == phase \in {"done", "exit"} /\ UNCHANGED vars

Next == Expression \/ CallExpression \/ Statement \/ TopLevel \/ Finished

Spec == Init /\ [][Next]_vars
-----------------------------------------------------------------------------
(* Type invariant. *)
TypeOK ==
    /\ phase \in Phases
    /\ registers \in [General -> Descriptors(Nat)]
    /\ symbols \in Seq(Symbols)
    /\ next_global_address \in Nat
    /\ next_local_offset \in Nat
    /\ scopes \in Seq(Scopes)
    /\ functions \in Seq(FunctionEntries)
    /\ operands \in Seq(General)
    /\ calls \in Seq(ArgumentLists)
    /\ cpu \in MachineStates
    /\ event \in Events
    /\ frame_base \in Nat

(* The registers marked in use are exactly those of the values the parser   *)
(* still holds, one each: no register leaks over a statement, none is       *)
(* handed out twice, whatever calls and argument lists are open.            *)
RegisterDiscipline ==
    /\ InUse(registers) = {operands[i] : i \in DOMAIN operands}
    /\ \A i, j \in DOMAIN operands : operands[i] = operands[j] => i = j

(* Argument lists nest: an inner list starts above what the outer recorded. *)
ListsNest ==
    /\ Held <= Len(operands)
    /\ \A i, j \in DOMAIN calls : i < j => calls[i].base + calls[i].count <= calls[j].base

BoundCopy(reg) == registers[reg].memory_address # REG_NO_MEMORY /\ ~registers[reg].temporary
Agrees(reg) == cpu.r[reg] = cpu.m[registers[reg].memory_address]

(* A register register_find_memory may hand out again holds what memory has *)
(* now: no store, call, block end or jump target leaves a stale copy.       *)
CacheSound ==
    \A reg \in Available(registers) : BoundCopy(reg) => Agrees(reg)

(* Why: a bound register becomes available only from the top of the parser's *)
(* values, where no store or call can have come since it was loaded.         *)
TopIsFresh ==
    Len(operands) > Held => (BoundCopy(Top) => Agrees(Top))

(* Inside a function sp stays next_local_offset cells below fp, over every  *)
(* declaration, block, call and join: a push never lands on a local.        *)
StackBelowLocals ==
    InsideFunction => cpu.r[REG_SP] = Byte(cpu.r[REG_FP] - next_local_offset)

(* The symbols of the current function own the slots 0..next_local_offset-1 *)
(* in order, so no two live locals share a cell of the frame.               *)
SlotsOwned ==
    InsideFunction =>
        /\ Len(symbols) = frame_base + next_local_offset
        /\ \A k \in 0..(next_local_offset - 1) :
              /\ symbols[frame_base + k + 1].storage = "local"
              /\ symbols[frame_base + k + 1].place = k

(* The two bases an open block restores belong together, and blocks nest.   *)
BasesAgree ==
    /\ scopes # <<>> => phase \in Bodies \cup {"exit"}
    /\ \A i \in DOMAIN scopes :
        /\ scopes[i].symbol_table_base = frame_base + scopes[i].local_offset_base
        /\ scopes[i].local_offset_base <=
              IF i = Len(scopes) THEN next_local_offset ELSE scopes[i + 1].local_offset_base

(* Only globals outlive a function: what README and report say of scopes.   *)
OnlyGlobalsBetweenFunctions ==
    phase = "toplevel" => \A i \in DOMAIN symbols : symbols[i].storage = "global"

-----------------------------------------------------------------------------
(* The refinement of SourceSemantics. *)
SymbolCell(symbol) ==
    IF symbol.storage = "global" THEN Byte(symbol.place)
    ELSE LocalCell(cpu.r[REG_FP], symbol.place)

Environment(table) ==
    [x \in {table[i].name : i \in DOMAIN table} |->
        SymbolCell(table[CHOOSE i \in DOMAIN table : IsNewest(table, i, x)])]

Source == INSTANCE SourceSemantics WITH
    Apply  <- Alu,
    values <- [i \in DOMAIN operands |-> cpu.r[operands[i]]],
    lists  <- calls,
    memory <- cpu.m,
    env    <- Environment(symbols),
    hidden <- [i \in DOMAIN scopes |->
                  Environment(SubSeq(symbols, 1, scopes[i].symbol_table_base))]

(* The generated code does what the source says: every read, however it is  *)
(* served, gives the variable's current value; intermediate values survive  *)
(* nested calls; each call passes the values of its own arguments in order; *)
(* blocks give back exactly the names they hid.                             *)
ImplementsSource == Source!Spec
==============================================================================
