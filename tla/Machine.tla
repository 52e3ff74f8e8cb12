------------------------------- MODULE Machine -------------------------------
(***************************************************************************)
(* The machine the compiled program runs on, as web/app.js interprets it:  *)
(* one operator per instruction the code generator emits inside a basic    *)
(* block, over a record [r, m] of registers and memory.  A cell holds a    *)
(* Word and is addressed by one, so the stack wraps as it does in step().  *)
(* The code's words are bytes; WordSize scales 256 down.                   *)
(***************************************************************************)
EXTENDS Registers

CONSTANT WordSize       \* number of values of a word and of memory cells, 256 in the code

ASSUME WordSizeAssumption == WordSize \in Nat /\ WordSize > LastGeneral

Word == 0..(WordSize - 1)
Byte(value) == value % WordSize
Truth(condition) == IF condition THEN 1 ELSE 0

MachineStates == [r : [Registers -> Word], m : [Word -> Word]]

(* Mutant of SetRegister: the value is not cut to a byte.                   *)
MutantWithoutByte(machine, reg, value) == [machine EXCEPT !.r[reg] = value]

SetRegister(machine, reg, value) == [machine EXCEPT !.r[reg] = Byte(value)]
SetCell(machine, address, value) == [machine EXCEPT !.m[address] = value]

(* The ALU of step(): what each binary opcode computes from its operands.   *)
Alu(op, a, b) ==
    CASE op = "ADD" -> a + b
      [] op = "SUB" -> a - b
      [] op = "MUL" -> a * b
      [] op = "DIV" -> IF b = 0 THEN 0 ELSE a \div b
      [] op = "LT"  -> Truth(a < b)
      [] op = "GT"  -> Truth(a > b)
      [] op = "LEQ" -> Truth(a <= b)
      [] op = "GEQ" -> Truth(a >= b)
      [] op = "EQ"  -> Truth(a = b)
      [] op = "NEQ" -> Truth(a # b)
      [] op = "AND" -> Truth(a # 0 /\ b # 0)
      [] op = "OR"  -> Truth(a # 0 \/ b # 0)

AllBinaryOps == {"ADD", "SUB", "MUL", "DIV", "LT", "GT", "LEQ", "GEQ", "EQ", "NEQ", "AND", "OR"}

Afc(machine, reg, value) == SetRegister(machine, reg, value)
Cop(machine, reg, from)  == SetRegister(machine, reg, machine.r[from])
Ternary(machine, op, reg, a, b) ==
    SetRegister(machine, reg, Alu(op, machine.r[a], machine.r[b]))
Not(machine, reg, from) == SetRegister(machine, reg, Truth(machine.r[from] = 0))
Load(machine, reg, address) == SetRegister(machine, reg, machine.m[Byte(address)])
Store(machine, address, reg) == SetCell(machine, Byte(address), machine.r[reg])
LoadR(machine, reg, at)  == SetRegister(machine, reg, machine.m[machine.r[at]])
StoreR(machine, at, reg) == SetCell(machine, machine.r[at], machine.r[reg])

(* The fixed instruction sequences of code_core.c and code_functions.c.     *)
StackPush(machine) == Ternary(Afc(machine, REG_TMP, 1), "SUB", REG_SP, REG_SP, REG_TMP)
StackPop(machine)  == Ternary(Afc(machine, REG_TMP, 1), "ADD", REG_SP, REG_SP, REG_TMP)

ComputeLocalAddress(machine, offset) ==
    Ternary(Afc(machine, REG_TMP, offset), "SUB", REG_TMP, REG_FP, REG_TMP)

(* Mutant of FunctionPrefix: fp stays the caller's.                         *)
MutantPrefixKeepsFrame(machine) ==
    LET raSaved == StackPush(StoreR(machine, REG_SP, REG_RA))
    IN  StackPush(StoreR(raSaved, REG_SP, REG_FP))

FunctionPrefix(machine) ==
    LET raSaved == StackPush(StoreR(machine, REG_SP, REG_RA))
        fpSaved == StackPush(StoreR(raSaved, REG_SP, REG_FP))
    IN  Cop(fpSaved, REG_FP, REG_SP)

(* Mutant of FunctionSuffix: fp and ra are popped in the order of the pushes. *)
MutantSuffixSwapsLoads(machine) ==
    LET popped   == StackPop(Cop(machine, REG_SP, REG_FP))
        restored == StackPop(LoadR(popped, REG_RA, REG_SP))
    IN  LoadR(restored, REG_FP, REG_SP)

(* Up to the JMPR: what the returning function leaves in sp, fp and ra.     *)
FunctionSuffix(machine) ==
    LET popped   == StackPop(Cop(machine, REG_SP, REG_FP))
        restored == StackPop(LoadR(popped, REG_FP, REG_SP))
    IN  LoadR(restored, REG_RA, REG_SP)
==============================================================================
