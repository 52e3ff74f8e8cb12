-------------------------------- MODULE Frames --------------------------------
(***************************************************************************)
(* The stack at run time: calls, prefixes, parameter copies, suffixes and  *)
(* block ends of src/c/code/code_functions.c and code_core.c as the        *)
(* machine executes them, instruction sequence by instruction sequence,    *)
(* over any depth of (recursive) activations.  CodeGen treats a callee as  *)
(* any code that gives back sp, fp and the saved registers; here is the    *)
(* callee.                                                                 *)
(*                                                                         *)
(* A body is any sequence of statements over its locals.  The program is   *)
(* one whose pointers point to live locals and whose stack stays above     *)
(* StackLimit: the code checks neither.                                    *)
(***************************************************************************)
EXTENDS Machine, SequencesExt

CONSTANTS
    Literals,
    ReturnAddresses,    \* the addresses behind the call instructions
    StackLimit,         \* bound: lowest cell the stack may grow to
    MaxLocals,          \* bound: locals of an activation
    MaxParameters,      \* bound: parameters of a function
    MaxBlocks           \* bound: nested blocks of a body

ASSUME FramesAssumption ==
    /\ Literals \cup ReturnAddresses \subseteq Word
    /\ StackLimit \in Word
    /\ {MaxLocals, MaxParameters, MaxBlocks} \subseteq Nat

VARIABLES
    cpu,
    next_local_offset,  \* at the point of the body that runs
    bases,              \* local_offset_base of its open blocks, outermost first
    operands,           \* registers of the values it holds, oldest first
    callers,            \* what the code behind each pending call was compiled with
    event

vars == <<cpu, next_local_offset, bases, operands, callers, event>>

Top == Last(operands)
StatementStart == operands = <<>>
OneValue == Len(operands) = 1

(* The general registers no value is held in, of which register_alloc takes *)
(* the lowest.                                                              *)
Fresh(reg) == IsLowest(reg, General \ Range(operands))

(* The code a loop of the generator emits, executed: after[i] is the machine *)
(* behind the instructions of turn i.                                       *)
Loop(Turn(_, _), machine, n) ==
    LET after[i \in 0..n] == IF i = 0 THEN machine ELSE Turn(after[i - 1], i) IN after[n]

Pops(machine, n) == Loop(LAMBDA m, i : StackPop(m), machine, n)
Push(machine, reg) == StackPush(StoreR(machine, REG_SP, reg))
PushAll(machine, regs) == Loop(LAMBDA m, i : Push(m, regs[i]), machine, Len(regs))

LocalCell(fp, i) == Byte(fp - i)
Depth == Len(callers) + 1

-----------------------------------------------------------------------------
(* Expressions *)

PushTemporary(reg, machine) ==
    /\ cpu' = machine
    /\ operands' = Append(operands, reg)
    /\ UNCHANGED <<next_local_offset, bases, callers>>

ConstantLoad(v) ==
    /\ \E reg \in General : Fresh(reg) /\ PushTemporary(reg, Afc(cpu, reg, v))
    /\ event' = <<"literal", v>>

VariableLoad(i) ==
    /\ \E reg \in General :
        Fresh(reg) /\ PushTemporary(reg, LoadR(ComputeLocalAddress(cpu, i), reg, REG_TMP))
    /\ event' = <<"read", i + 1>>

VariableAddress(i) ==
    /\ \E reg \in General :
        Fresh(reg) /\ PushTemporary(reg, Ternary(Afc(cpu, reg, i), "SUB", reg, REG_FP, reg))
    /\ event' = <<"address", i + 1>>

-----------------------------------------------------------------------------
(* Statements *)

VariableDeclaration ==
    /\ OneValue /\ next_local_offset < MaxLocals
    /\ cpu.r[REG_SP] > StackLimit
    /\ cpu' = StackPush(StoreR(ComputeLocalAddress(cpu, next_local_offset), REG_TMP, Top))
    /\ next_local_offset' = next_local_offset + 1
    /\ operands' = <<>>
    /\ event' = <<"declare">>
    /\ UNCHANGED <<bases, callers>>

VariableAssignment(i) ==
    /\ OneValue
    /\ cpu' = StoreR(ComputeLocalAddress(cpu, i), REG_TMP, Top)
    /\ operands' = <<>>
    /\ event' = <<"assign", i + 1>>
    /\ UNCHANGED <<next_local_offset, bases, callers>>

BeginBlock ==
    /\ StatementStart /\ Len(bases) < MaxBlocks
    /\ bases' = Append(bases, next_local_offset)
    /\ event' = <<"open">>
    /\ UNCHANGED <<cpu, next_local_offset, operands, callers>>

(* The pops of code_add_stack_pop in end_block's loop.                      *)
ClosedBlock == Pops(cpu, next_local_offset - Last(bases))

(* Mutant of EndBlock: the body's own block ends like any other.            *)
MutantEndsBody ==
    /\ StatementStart /\ bases # <<>>
    /\ cpu' = ClosedBlock
    /\ next_local_offset' = Last(bases)
    /\ bases' = Front(bases)
    /\ event' = <<"close">>
    /\ UNCHANGED <<operands, callers>>

EndBlock ==
    /\ StatementStart /\ Len(bases) > 1
    /\ cpu' = ClosedBlock
    /\ next_local_offset' = Last(bases)
    /\ bases' = Front(bases)
    /\ event' = <<"close">>
    /\ UNCHANGED <<operands, callers>>

-----------------------------------------------------------------------------
(* Calls and returns *)

(* Mutant of CopyParameter: the last argument is taken for the first.       *)
MutantParametersReversed(machine, n, i) ==
    LET reg == REG_FIRST_GENERAL
        at == Ternary(Afc(machine, REG_TMP, i + 3), "ADD", REG_TMP, REG_FP, REG_TMP)
        loaded == LoadR(at, reg, REG_TMP)
    IN  StackPush(StoreR(ComputeLocalAddress(loaded, i), REG_TMP, reg))

(* code_add_parameter_locals, one turn of its loop for parameter i of n.    *)
CopyParameter(machine, n, i) ==
    LET reg == REG_FIRST_GENERAL
        at == Ternary(Afc(machine, REG_TMP, n - i + 2), "ADD", REG_TMP, REG_FP, REG_TMP)
        loaded == LoadR(at, reg, REG_TMP)
    IN  StackPush(StoreR(ComputeLocalAddress(loaded, i), REG_TMP, reg))

ParameterLocals(machine, n) ==
    Loop(LAMBDA m, k : CopyParameter(m, n, k - 1), machine, n)

(* The scan over the general registers that pushes those in use that hold   *)
(* no argument.                                                             *)
SaveRegisters(machine, kept) ==
    Loop(LAMBDA m, reg : IF reg \in kept THEN Push(m, reg) ELSE m, machine, REG_LAST_GENERAL)

(* From the first push of the caller to the body of the callee.  A call     *)
(* with no register left for its result is not compiled.                    *)
FunctionCall(n, return_address) ==
    /\ n <= Len(operands)
    /\ Len(operands) - n < REG_LAST_GENERAL
    /\ cpu.r[REG_SP] >= StackLimit + Len(operands) + 2 + n
    /\ LET kept == SubSeq(operands, 1, Len(operands) - n)
           arguments == SubSeq(operands, Len(operands) - n + 1, Len(operands))
           pushed == PushAll(SaveRegisters(cpu, Range(kept)), arguments)
       IN  /\ cpu' = ParameterLocals(FunctionPrefix(Afc(pushed, REG_RA, return_address)), n)
           /\ callers' = Append(callers,
                  [next_local_offset |-> next_local_offset, bases |-> bases,
                   operands |-> kept, argument_count |-> n])
    /\ next_local_offset' = n
    /\ bases' = <<n>>
    /\ operands' = <<>>
    /\ event' = <<"call", n>>

(* What the caller does behind the call: drop the arguments, load the saved *)
(* registers in reverse order, fetch the result.                            *)
Restore(machine, reg) == LET popped == StackPop(machine) IN LoadR(popped, reg, REG_SP)

RestoreRegisters(machine, kept) ==
    Loop(LAMBDA m, i : LET reg == REG_LAST_GENERAL + 1 - i
                       IN  IF reg \in kept THEN Restore(m, reg) ELSE m,
         machine, REG_LAST_GENERAL)

(* Mutant of AfterCall: the arguments stay on the stack.                    *)
MutantArgumentsStay(machine, caller, reg) ==
    Cop(RestoreRegisters(machine, Range(caller.operands)), reg, REG_RETURN)

AfterCall(machine, caller, reg) ==
    Cop(RestoreRegisters(Pops(machine, caller.argument_count), Range(caller.operands)),
        reg, REG_RETURN)

(* From the callee's suffix, with the result in r0, to the caller's code.   *)
Leave(machine) ==
    LET gone == FunctionSuffix(machine)
        caller == Last(callers)
    IN  /\ callers # <<>>
        /\ \E reg \in General :
            /\ IsLowest(reg, General \ Range(caller.operands))
            /\ cpu' = AfterCall(gone, caller, reg)
            /\ operands' = Append(caller.operands, reg)
        /\ next_local_offset' = caller.next_local_offset
        /\ bases' = caller.bases
        /\ callers' = Front(callers)
        /\ event' = <<"return", gone.r[REG_RA]>>

ReturnStatement == OneValue /\ Leave(Cop(cpu, REG_RETURN, Top))

(* The end of the body's block, then the fallback return 0.                 *)
EndFunctionDefinition ==
    /\ StatementStart /\ Len(bases) = 1
    /\ Leave(Afc(ClosedBlock, REG_RETURN, 0))

-----------------------------------------------------------------------------
(* The frames as they can be found in memory: each prefix saved the fp of   *)
(* the frame below it.                                                      *)
FramePointer[k \in 1..Depth] ==
    IF k = Depth THEN cpu.r[REG_FP] ELSE cpu.m[Byte(FramePointer[k + 1] + 1)]

LocalCount(k) == IF k = Depth THEN next_local_offset ELSE callers[k].next_local_offset

LocalCells == UNION {{LocalCell(FramePointer[k], i) : i \in 0..(LocalCount(k) - 1)} : k \in 1..Depth}

PointerLoad ==
    /\ operands # <<>>
    /\ cpu.r[Top] \in LocalCells
    /\ cpu' = LoadR(cpu, Top, Top)
    /\ event' = <<"follow">>
    /\ UNCHANGED <<next_local_offset, bases, operands, callers>>

PointerStore ==
    /\ Len(operands) = 2
    /\ cpu.r[operands[1]] \in LocalCells
    /\ cpu' = StoreR(cpu, operands[1], operands[2])
    /\ operands' = <<>>
    /\ event' = <<"store">>
    /\ UNCHANGED <<next_local_offset, bases, callers>>

(* resetMachine, and then begin_main_method with its block.                 *)
Init ==
    /\ LET reset == [r |-> [reg \in Registers |-> 0], m |-> [a \in Word |-> 0]]
       IN  cpu = Cop(Afc(reset, REG_SP, WordSize - 1), REG_FP, REG_SP)
    /\ next_local_offset = 0 /\ bases = <<0>>
    /\ operands = <<>> /\ callers = <<>>
    /\ event = <<"start">>

Expression ==
    \/ \E v \in Literals : ConstantLoad(v)
    \/ \E i \in 0..(next_local_offset - 1) : VariableLoad(i) \/ VariableAddress(i)
    \/ PointerLoad
    \/ \E n \in 0..MaxParameters, return_address \in ReturnAddresses :
            FunctionCall(n, return_address)

Statement ==
    \/ VariableDeclaration
    \/ \E i \in 0..(next_local_offset - 1) : VariableAssignment(i)
    \/ PointerStore
    \/ BeginBlock
    \/ EndBlock
    \/ ReturnStatement
    \/ EndFunctionDefinition

Next == Expression \/ Statement

Spec == Init /\ [][Next]_vars

-----------------------------------------------------------------------------
(* Type invariant. *)
TypeOK ==
    /\ cpu \in MachineStates
    /\ next_local_offset \in Nat
    /\ bases \in Seq(Nat) \ {<<>>}
    /\ operands \in Seq(General)
    /\ \A k \in DOMAIN callers : callers[k].operands \in Seq(General)

(* In every activation, however it got there (called, or resumed after any  *)
(* depth of calls that returned from inside their blocks), sp is as far     *)
(* below fp as the code that runs next was compiled to believe.             *)
StackBelowLocals == cpu.r[REG_SP] = Byte(cpu.r[REG_FP] - next_local_offset)

(* The frames stand in the memory as the calls left them, without gaps: one *)
(* takes what its locals, the registers saved by its call, the arguments,   *)
(* ra and fp need, and the saved fp below it still leads there.             *)
FramesAbut ==
    /\ FramePointer[1] = WordSize - 1
    /\ \A k \in DOMAIN callers :
          FramePointer[k + 1] = FramePointer[k] - callers[k].next_local_offset
                                - Len(callers[k].operands) - callers[k].argument_count - 2
    /\ StackLimit <= cpu.r[REG_SP] /\ cpu.r[REG_SP] <= FramePointer[Depth]

(* The refinement of Activations: the caller's locals, held values and      *)
(* return address are where the chain of saved frame pointers says.         *)
Locals(k) ==
    [i \in 1..LocalCount(k) |->
        LET cell == LocalCell(FramePointer[k], i - 1) IN [cell |-> cell, value |-> cpu.m[cell]]]

(* How many registers are saved before this one.                            *)
SavedBefore(reg, kept) == Cardinality({other \in kept : other < reg})

SavedValue(k, reg) ==
    LET before == SavedBefore(reg, Range(callers[k].operands))
    IN  cpu.m[Byte(FramePointer[k] - LocalCount(k) - before)]

RunningLocals == Locals(Depth)
Held == [i \in DOMAIN operands |-> cpu.r[operands[i]]]
Suspended ==
    [k \in DOMAIN callers |->
        [locals |-> Locals(k),
         held |-> [i \in DOMAIN callers[k].operands |-> SavedValue(k, callers[k].operands[i])],
         return_address |-> cpu.m[Byte(FramePointer[k + 1] + 2)]]]

Calls == INSTANCE Activations WITH
    Cell <- Word, locals <- RunningLocals, held <- Held, suspended <- Suspended

(* Every activation has its locals to itself, is suspended by a call and    *)
(* taken up by the return as it was, at its own return address, with the    *)
(* result added and nothing changed but through pointers: what CodeGen      *)
(* assumes of a callee.                                                     *)
ImplementsActivations == Calls!Spec
==============================================================================
