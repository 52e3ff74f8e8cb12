----------------------------- MODULE WebMachine ------------------------------
(***************************************************************************)
(* step() of web/app.js: a program is a sequence of decoded instructions   *)
(* [op, a, b, c], and cpu holds what the page keeps of the machine.  The   *)
(* operators of Machine change r and m of it and leave the other fields.   *)
(***************************************************************************)
EXTENDS Machine, Sequences, FiniteSetsExt

(* The instructions with three registers, as app.js lists them.             *)
TernaryMnemonics ==
    {"ADD", "MUL", "SOU", "DIV", "AND", "OR", "BAND", "BOR", "LT", "GT", "EQ", "LEQ", "GEQ", "NEQ"}

(* resetMachine, as far as the machine goes.                                *)
Zeroed ==
    [r |-> [reg \in Registers |-> 0], m |-> [address \in Word |-> 0],
     pc |-> 0, cycles |-> 0, output |-> <<>>, halted |-> FALSE]

BitsOf(value) == {i \in 0..7 : (value \div 2^i) % 2 = 1}
OfBits(bits) == MapThenSumSet(LAMBDA i : 2^i, bits)

TernaryResult(op, b, c) ==
    CASE op = "BAND" -> OfBits(BitsOf(b) \cap BitsOf(c))
      [] op = "BOR"  -> OfBits(BitsOf(b) \cup BitsOf(c))
      [] op = "SOU"  -> Alu("SUB", b, c)
      [] OTHER       -> Alu(op, b, c)

Pri(cpu, reg) == [cpu EXCEPT !.output = Append(@, cpu.r[reg])]

(* The switch of step(), less the jumps.                                    *)
Effect(cpu, i) ==
    CASE i.op \in TernaryMnemonics ->
             SetRegister(cpu, i.a, TernaryResult(i.op, cpu.r[i.b], cpu.r[i.c]))
      [] i.op = "AFC"  -> Afc(cpu, i.a, i.b)
      [] i.op = "COP"  -> Cop(cpu, i.a, i.b)
      [] i.op = "NOT"  -> Not(cpu, i.a, i.b)
      [] i.op = "BNOT" -> SetRegister(cpu, i.a, -cpu.r[i.b] - 1)
      [] i.op = "LOAD" -> Load(cpu, i.a, i.b)
      [] i.op = "STR"  -> Store(cpu, i.a, i.b)
      [] i.op = "LDI"  -> LoadR(cpu, i.a, i.b)
      [] i.op = "STI"  -> StoreR(cpu, i.a, i.b)
      [] i.op = "PRI"  -> Pri(cpu, i.a)
      [] OTHER         -> cpu

(* Mutant of NextPc: J goes where the text says.                            *)
MutantJumpUncut(cpu, i) ==
    CASE i.op = "J"                        -> i.a
      [] i.op = "JF" /\ cpu.r[i.a] = 0     -> Byte(i.b)
      [] i.op = "JI"                       -> Byte(cpu.r[i.a])
      [] OTHER                             -> cpu.pc + 1

NextPc(cpu, i) ==
    CASE i.op = "J"                        -> Byte(i.a)
      [] i.op = "JF" /\ cpu.r[i.a] = 0     -> Byte(i.b)
      [] i.op = "JI"                       -> Byte(cpu.r[i.a])
      [] OTHER                             -> cpu.pc + 1

Execute(cpu, i) == [Effect(cpu, i) EXCEPT !.pc = NextPc(cpu, i), !.cycles = @ + 1]

Step(cpu, program) ==
    IF cpu.halted \/ cpu.pc >= Len(program) THEN [cpu EXCEPT !.halted = TRUE]
    ELSE LET after == Execute(cpu, program[cpu.pc + 1])
         IN  [after EXCEPT !.halted = after.pc >= Len(program)]
==============================================================================
