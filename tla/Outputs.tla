-------------------------------- MODULE Outputs --------------------------------
(***************************************************************************)
(* The compiler's two output files, each loaded and run in the page, beside *)
(* the program the code generator asked for.  A request is a call of a     *)
(* code_add_*_operand_instruction, with its jumps already resolved; what   *)
(* it asks for is the comment its opcode has in src/c/instruction.h.       *)
(***************************************************************************)
EXTENDS Encoding

CONSTANTS
    Opcodes,            \* the opcodes used
    UsedRegisters,      \* the registers used
    Literals,           \* constants and addresses used
    Targets,            \* jump targets used
    MaxProgram,         \* bound: instructions emitted
    MaxCycles           \* bound: instructions executed

ASSUME OutputsAssumption ==
    /\ Opcodes \subseteq DOMAIN opcode_t \ {"BNOT", "BAND", "BOR"}
    /\ UsedRegisters \subseteq Registers
    /\ Literals \subseteq Int
    /\ Targets \subseteq Nat
    /\ {MaxProgram, MaxCycles} \subseteq Nat

VARIABLES
    phase,          \* "emitting", then "running"
    requests,       \* what the code generator asked for, in order
    text,           \* build/out.s
    binary,         \* build/out.bin
    intended,       \* a machine that does what was asked for
    textCpu,        \* the page after loading build/out.s
    binaryCpu       \* the page after loading build/out.bin

vars == <<phase, requests, text, binary, intended, textCpu, binaryCpu>>

Calls(opcodes, operands) == [opcode : Opcodes \cap opcodes, operands : operands]

(* Every call the code generator makes, less what no rule of the grammar    *)
(* asks for (BNOT, BAND, BOR).                                              *)
Requests ==
    UNION {Calls({"NOP"}, {<<0>>}),
           Calls({"JMP"}, {<<target>> : target \in Targets}),
           Calls({"JMPR", "PRI"}, {<<reg>> : reg \in UsedRegisters}),
           Calls({"AFC", "LOAD"}, UsedRegisters \X Literals),
           Calls({"STORE"}, Literals \X UsedRegisters),
           Calls({"COP", "NOT", "LOADR", "STORER"}, UsedRegisters \X UsedRegisters),
           Calls({"JMF"}, UsedRegisters \X Targets),
           Calls(AllBinaryOps, UsedRegisters \X UsedRegisters \X UsedRegisters)}

Constructed(request) ==
    LET x == request.operands
    IN  CASE Len(x) = 1 -> OneOperandInstruction(request.opcode, x[1])
          [] Len(x) = 2 -> TwoOperandInstruction(request.opcode, x[1], x[2])
          [] Len(x) = 3 -> ThreeOperandInstruction(request.opcode, x[1], x[2], x[3])

Written == Each(LAMBDA request : InstructionWrite(Constructed(request)), requests)
Bytes   == Each(LAMBDA request : BinaryBytes(Constructed(request)), requests)

-----------------------------------------------------------------------------
(* What instruction.h says of an opcode, on the machine's operators.        *)
Asked(cpu, request) ==
    LET opcode == request.opcode
        x == request.operands
    IN  CASE opcode \in AllBinaryOps -> Ternary(cpu, opcode, x[1], x[2], x[3])
          [] opcode = "AFC"          -> Afc(cpu, x[1], x[2])
          [] opcode = "COP"          -> Cop(cpu, x[1], x[2])
          [] opcode = "NOT"          -> Not(cpu, x[1], x[2])
          [] opcode = "LOAD"         -> Load(cpu, x[1], x[2])
          [] opcode = "STORE"        -> Store(cpu, x[1], x[2])
          [] opcode = "LOADR"        -> LoadR(cpu, x[1], x[2])
          [] opcode = "STORER"       -> StoreR(cpu, x[1], x[2])
          [] opcode = "PRI"          -> Pri(cpu, x[1])
          [] OTHER                   -> cpu

AskedPc(cpu, request) ==
    LET x == request.operands
    IN  CASE request.opcode = "JMP"                      -> x[1]
          [] request.opcode = "JMF" /\ cpu.r[x[1]] = 0   -> x[2]
          [] request.opcode = "JMPR"                     -> cpu.r[x[1]]
          [] OTHER                                       -> cpu.pc + 1

Perform(cpu, request) ==
    [Asked(cpu, request) EXCEPT !.pc = AskedPc(cpu, request), !.cycles = @ + 1]

Carry(cpu) ==
    IF cpu.halted \/ cpu.pc >= Len(requests) THEN [cpu EXCEPT !.halted = TRUE]
    ELSE LET after == Perform(cpu, requests[cpu.pc + 1])
         IN  [after EXCEPT !.halted = after.pc >= Len(requests)]

-----------------------------------------------------------------------------
Init ==
    /\ phase = "emitting"
    /\ requests = <<>> /\ text = <<>> /\ binary = <<>>
    /\ intended = Zeroed /\ textCpu = Zeroed /\ binaryCpu = Zeroed

Emit ==
    /\ phase = "emitting" /\ Len(requests) < MaxProgram
    /\ \E request \in Requests : requests' = Append(requests, request)
    /\ UNCHANGED <<phase, text, binary, intended, textCpu, binaryCpu>>

(* main's last calls: scope_write_instructions, scope_write_binary.  The    *)
(* VHDL file has the bytes of the binary.                                   *)
Write ==
    /\ phase = "emitting" /\ requests # <<>>
    /\ phase' = "running"
    /\ text' = Written
    /\ binary' = Bytes
    /\ UNCHANGED <<requests, intended, textCpu, binaryCpu>>

Running ==
    /\ phase = "running" /\ ~(intended.halted /\ textCpu.halted)
    /\ textCpu.cycles < MaxCycles

(* One click on Step in two pages, one for each file.                       *)
StepBoth ==
    /\ Running
    /\ intended' = Carry(intended)
    /\ textCpu' = Step(textCpu, ParseAssembly(text))
    /\ binaryCpu' = Step(binaryCpu, DecodeBinary(binary))
    /\ UNCHANGED <<phase, requests, text, binary>>

Finished == phase = "running" /\ ~Running /\ UNCHANGED vars

Next == Emit \/ Write \/ StepBoth \/ Finished

Spec == Init /\ [][Next]_vars

-----------------------------------------------------------------------------
(* Whichever file is loaded, the page runs the same program: every line of  *)
(* the text is accepted, and registers, memory, pc and output stay equal,   *)
(* although each opcode places and cuts its operands differently in the two.*)
SameExecution ==
    /\ \A k \in DOMAIN text : Readable(text[k])
    /\ textCpu = binaryCpu

Fits == \A k \in DOMAIN requests :
    \A n \in DOMAIN requests[k].operands :
        requests[k].opcode \in {"JMP", "JMF"} => requests[k].operands[n] < WordSize

(* A program whose jumps fit a byte does what the code generator asked for. *)
ExecutesAsAsked == Fits => textCpu = intended

(* After a binary is loaded the editor shows its instructions as text;      *)
(* loading that text again gives the program that is already there.         *)
EditorKeepsBinary ==
    LET program == DecodeBinary(binary)
        editor == Each(FormatInstruction, program)
    IN  /\ \A k \in DOMAIN editor : Readable(editor[k])
        /\ ParseAssembly(editor) = program

(* The line INSTRUCTION_SET.md has for a request.                           *)
Documented(request) ==
    LET x == request.operands
        Reg(n) == RegisterToken(x[n])
        Name(opcode) == IF opcode = "SUB" THEN "SUB" ELSE OpcodeName(opcode)
    IN  [op |-> Name(request.opcode),
         operands |->
            CASE request.opcode \in AllBinaryOps        -> <<Reg(1), Reg(2), Reg(3)>>
              [] request.opcode = "AFC"                 -> <<Reg(1), Hex(x[2]), Blank>>
              [] request.opcode = "STORER"              -> <<Blank, Reg(1), Reg(2)>>
              [] request.opcode \in {"JMPR", "PRI"}     -> <<Blank, Reg(1), Blank>>]

(* INSTRUCTION_SET.md: a program written in its forms is loaded and does    *)
(* what their comments say.                                                 *)
DocumentedFormsWork ==
    phase = "running" /\ ~intended.halted =>
        LET request == requests[intended.pc + 1]
            line == Documented(request)
        IN  Readable(line) /\ Execute(intended, ParseLine(line)) = Perform(intended, request)
===============================================================================
