------------------------------- MODULE Encoding -------------------------------
(***************************************************************************)
(* How an instruction leaves the compiler and reaches the interpreter: the *)
(* constructors of src/c/code/code_core.c, the text and the binary form of *)
(* src/c/instruction.c, and the two readers of web/app.js, with the text   *)
(* the page writes into its editor.  Operand orders and cuts to a byte are *)
(* kept; characters are not: a line of text is its mnemonic and its tokens. *)
(***************************************************************************)
EXTENDS WebMachine

ASSUME EncodingAssumption == REG_RA < WordSize       \* a register's number is a byte

(* opcode_t, with the values of its names.                                  *)
opcode_t ==
    [NOP |-> 0, AFC |-> 1, COP |-> 2, ADD |-> 3, MUL |-> 4, SUB |-> 5, DIV |-> 6,
     NOT |-> 7, AND |-> 8, OR |-> 9, BNOT |-> 10, BAND |-> 11, BOR |-> 12,
     LOAD |-> 13, STORE |-> 14, LOADR |-> 15, STORER |-> 16,
     JMP |-> 17, JMF |-> 18, JMPR |-> 19,
     LT |-> 20, GT |-> 21, EQ |-> 22, LEQ |-> 23, GEQ |-> 24, NEQ |-> 25, PRI |-> 26]

TernaryOpcodes == (TernaryMnemonics \ {"SOU"}) \cup {"SUB"}

(* i_op1, i_op2 and i_op3: what is not given stays 0.                       *)
Instruction(opcode, a1, a2, a3) == [opcode |-> opcode, arguments |-> <<a1, a2, a3>>]

(* Mutant of OneOperandInstruction: i_op1 for every opcode.                 *)
MutantOperandFirst(opcode, a1) == Instruction(opcode, a1, 0, 0)

OneOperandInstruction(opcode, a1) ==
    IF opcode \in {"JMP", "JMPR", "PRI"} THEN Instruction(opcode, 0, a1, 0)
                                         ELSE Instruction(opcode, a1, 0, 0)

(* Mutant of TwoOperandInstruction: i_op2 for every opcode.                 *)
MutantConditionFirst(opcode, a1, a2) == Instruction(opcode, a1, a2, 0)

TwoOperandInstruction(opcode, a1, a2) ==
    IF opcode \in {"JMF", "STORER"} THEN Instruction(opcode, 0, a1, a2)
                                    ELSE Instruction(opcode, a1, a2, 0)

ThreeOperandInstruction(opcode, a1, a2, a3) == Instruction(opcode, a1, a2, a3)

-----------------------------------------------------------------------------
(* instruction_write, and the bytes of the binary and VHDL files *)

OpcodeName(opcode) ==
    CASE opcode = "SUB"    -> "SOU"
      [] opcode = "STORE"  -> "STR"
      [] opcode = "LOADR"  -> "LDI"
      [] opcode = "STORER" -> "STI"
      [] opcode = "JMP"    -> "J"
      [] opcode = "JMF"    -> "JF"
      [] opcode = "JMPR"   -> "JI"
      [] OTHER             -> opcode

RegisterToken(reg) == [kind |-> "register", value |-> reg]
NumberToken(value) == [kind |-> "number", value |-> value]

(* print_hex: only a negative number is brought into a byte.                *)
Hex(value) == NumberToken(IF value < 0 THEN Byte(value) ELSE value)

(* The operands of a line, by the switch of instruction_write.              *)
WrittenOperands(opcode, arguments) ==
    LET Reg(n) == RegisterToken(arguments[n + 1])
        Num(n) == Hex(arguments[n + 1])
    IN  CASE opcode \in TernaryOpcodes                    -> <<Reg(0), Reg(1), Reg(2)>>
          [] opcode \in {"COP", "NOT", "BNOT", "LOADR"}   -> <<Reg(0), Reg(1)>>
          [] opcode = "STORER"                            -> <<Reg(1), Reg(2)>>
          [] opcode \in {"AFC", "LOAD"}                   -> <<Reg(0), Num(1)>>
          [] opcode = "STORE"                             -> <<Num(0), Reg(1)>>
          [] opcode = "JMF"                               -> <<Reg(1), Num(2)>>
          [] opcode = "JMP"                               -> <<Num(1)>>
          [] opcode \in {"JMPR", "PRI"}                   -> <<Reg(1)>>
          [] OTHER                                        -> <<>>

InstructionWrite(instruction) ==
    [op |-> OpcodeName(instruction.opcode),
     operands |-> WrittenOperands(instruction.opcode, instruction.arguments)]

(* instruction_get_binary_bytes: each argument is cut to an unsigned char.  *)
BinaryBytes(instruction) ==
    [op |-> opcode_t[instruction.opcode],
     a |-> Byte(instruction.arguments[1]),
     b |-> Byte(instruction.arguments[2]),
     c |-> Byte(instruction.arguments[3])]

-----------------------------------------------------------------------------
(* parseAssembly, decodeBinary and formatInstruction *)

OPCODES ==
    [NOP |-> 0, AFC |-> 1, COP |-> 2, ADD |-> 3, MUL |-> 4, SOU |-> 5, DIV |-> 6,
     NOT |-> 7, AND |-> 8, OR |-> 9, BNOT |-> 10, BAND |-> 11, BOR |-> 12,
     LOAD |-> 13, STR |-> 14, LDI |-> 15, STI |-> 16, J |-> 17, JF |-> 18, JI |-> 19,
     LT |-> 20, GT |-> 21, EQ |-> 22, LEQ |-> 23, GEQ |-> 24, NEQ |-> 25, PRI |-> 26]

OPCODE_NAMES(code) == CHOOSE op \in DOMAIN OPCODES : OPCODES[op] = code

Decoded(op, a, b, c) == [op |-> op, a |-> a, b |-> b, c |-> c]

(* What parseAssembly and formatInstruction take the operands a, b, c for.  *)
OperandKinds(op) ==
    CASE op \in TernaryMnemonics                       -> <<"register", "register", "register">>
      [] op \in {"COP", "NOT", "BNOT", "LDI", "STI"}   -> <<"register", "register">>
      [] op \in {"AFC", "LOAD", "JF"}                  -> <<"register", "number">>
      [] op = "STR"                                    -> <<"number", "register">>
      [] op = "J"                                      -> <<"number">>
      [] op \in {"JI", "PRI"}                          -> <<"register">>
      [] OTHER                                         -> <<>>

Blank == [kind |-> "blank", value |-> 0]        \* the token _

(* parseRegister and parseNumber, where they do not throw: _ is register 0, *)
(* a number that is not there is 0.                                         *)
Readable(line) ==
    LET kinds == OperandKinds(line.op)
    IN  /\ line.op \in DOMAIN OPCODES
        /\ \A k \in DOMAIN kinds :
            IF k \in DOMAIN line.operands
            THEN \/ line.operands[k].kind = kinds[k]
                 \/ line.operands[k] = Blank /\ kinds[k] = "register"
            ELSE kinds[k] = "number"

ParseLine(line) ==
    LET kinds == OperandKinds(line.op)
        Operand(k) == IF k \in DOMAIN kinds /\ k \in DOMAIN line.operands
                      THEN line.operands[k].value ELSE 0
    IN  Decoded(line.op, Operand(1), Operand(2), Operand(3))

(* Mutant of DecodeBytes: STI is not shifted.                               *)
MutantStiUnshifted(bytes) ==
    LET op == OPCODE_NAMES(bytes.op)
    IN  CASE op \in {"J", "JI", "PRI"} -> Decoded(op, bytes.b, 0, 0)
          [] op = "JF"                 -> Decoded(op, bytes.b, bytes.c, 0)
          [] OTHER                     -> Decoded(op, bytes.a, bytes.b, bytes.c)

DecodeBytes(bytes) ==
    LET op == OPCODE_NAMES(bytes.op)
    IN  CASE op \in {"J", "JI", "PRI"} -> Decoded(op, bytes.b, 0, 0)
          [] op \in {"JF", "STI"}      -> Decoded(op, bytes.b, bytes.c, 0)
          [] OTHER                     -> Decoded(op, bytes.a, bytes.b, bytes.c)

(* Mutant of FormatInstruction: the operand that is not shown is c.         *)
MutantFormatsInBinaryOrder(i) ==
    [op |-> i.op,
     operands |-> [k \in DOMAIN OperandKinds(i.op) |->
                      [kind |-> OperandKinds(i.op)[k], value |-> Byte(<<i.c, i.b, i.a>>[k])]]]

(* A register's name is its number; hex() brings a number into a byte.      *)
FormatInstruction(i) ==
    LET kinds == OperandKinds(i.op)
        operands == <<i.a, i.b, i.c>>
    IN  [op |-> i.op,
         operands |-> [k \in DOMAIN kinds |->
                          IF kinds[k] = "number" THEN NumberToken(Byte(operands[k]))
                                                 ELSE RegisterToken(operands[k])]]

(* A list taken form by form, as the loops over lines and bytes do.         *)
Each(Form(_), list) == [k \in DOMAIN list |-> Form(list[k])]
ParseAssembly(lines) == Each(ParseLine, lines)
DecodeBinary(records) == Each(DecodeBytes, records)
===============================================================================
