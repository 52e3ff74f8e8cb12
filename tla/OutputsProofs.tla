----------------------------- MODULE OutputsProofs -----------------------------
(***************************************************************************)
(* The two output files mean the same to the page, and what the code       *)
(* generator asked for, for every register file, word size and program.    *)
(***************************************************************************)
EXTENDS Outputs, MachineProofs

-----------------------------------------------------------------------------
(* Opcodes *)

LEMMA OpcodesDiffer ==
    \A p, q \in DOMAIN OPCODES : OPCODES[p] = OPCODES[q] => p = q
BY DEF OPCODES

LEMMA OpcodeNumbers ==
    \A opcode \in DOMAIN opcode_t :
        OpcodeName(opcode) \in DOMAIN OPCODES /\ OPCODES[OpcodeName(opcode)] = opcode_t[opcode]
BY DEF OPCODES, opcode_t, OpcodeName

(* app.js names an opcode byte as instruction.c names the opcode.           *)
LEMMA OpcodeBytes ==
    \A opcode \in DOMAIN opcode_t : OPCODE_NAMES(opcode_t[opcode]) = OpcodeName(opcode)
BY OpcodesDiffer, OpcodeNumbers DEF OPCODE_NAMES

LEMMA NamedTernary ==
    ASSUME NEW opcode \in AllBinaryOps
    PROVE  /\ opcode \in TernaryOpcodes /\ opcode \in DOMAIN opcode_t
           /\ OpcodeName(opcode) \in TernaryMnemonics
           /\ opcode # "SUB" => OpcodeName(opcode) = opcode
           /\ opcode = "SUB" => OpcodeName(opcode) = "SOU"
BY DEF AllBinaryOps, TernaryOpcodes, TernaryMnemonics, OpcodeName, opcode_t

-----------------------------------------------------------------------------
(* Bytes *)

(* A register's number is its own byte.                                     *)
LEMMA RegisterBytes == \A reg \in Registers : Byte(reg) = reg
BY EncodingAssumption, ByteIsWord, LastGeneralAssumption, WordSizeAssumption
   DEF Registers, Word, REG_RA

LEMMA CutTwice == Byte(0) = 0 /\ \A value \in Int : Byte(Byte(value)) = Byte(value)
<1>1. 0 \in Word /\ \A value \in Int : Byte(value) \in Word
  BY ByteIsWord
<1>2. QED
  BY <1>1, ByteIsWord

(* What print_hex writes for a number.                                      *)
Shown(value) == IF value < 0 THEN Byte(value) ELSE value

LEMMA ShownBytes ==
    ASSUME NEW value \in Int
    PROVE  Byte(Shown(value)) = Byte(value) /\ Shown(value) \in Nat
<1>1. Byte(value) \in Nat /\ Byte(Byte(value)) = Byte(value)
  BY ByteIsWord, CutTwice
<1>2. CASE value < 0
  BY <1>1, <1>2 DEF Shown
<1>3. CASE ~(value < 0)
  BY <1>3 DEF Shown
<1>4. QED
  BY <1>2, <1>3

-----------------------------------------------------------------------------
(* Lines of text *)

LEMMA WrittenTernary ==
    ASSUME NEW opcode \in TernaryOpcodes, NEW x, NEW y, NEW z
    PROVE  WrittenOperands(opcode, <<x, y, z>>) = <<RegisterToken(x), RegisterToken(y), RegisterToken(z)>>
BY DEF WrittenOperands, TernaryOpcodes, TernaryMnemonics

LEMMA WrittenOthers ==
    ASSUME NEW x, NEW y, NEW z
    PROVE  /\ \A opcode \in {"COP", "NOT", "LOADR"} :
                WrittenOperands(opcode, <<x, y, z>>) = <<RegisterToken(x), RegisterToken(y)>>
           /\ WrittenOperands("STORER", <<x, y, z>>) = <<RegisterToken(y), RegisterToken(z)>>
           /\ \A opcode \in {"AFC", "LOAD"} :
                WrittenOperands(opcode, <<x, y, z>>) = <<RegisterToken(x), Hex(y)>>
           /\ WrittenOperands("STORE", <<x, y, z>>) = <<Hex(x), RegisterToken(y)>>
           /\ WrittenOperands("JMF", <<x, y, z>>) = <<RegisterToken(y), Hex(z)>>
           /\ WrittenOperands("JMP", <<x, y, z>>) = <<Hex(y)>>
           /\ \A opcode \in {"JMPR", "PRI"} :
                WrittenOperands(opcode, <<x, y, z>>) = <<RegisterToken(y)>>
           /\ WrittenOperands("NOP", <<x, y, z>>) = <<>>
BY DEF WrittenOperands, TernaryOpcodes, TernaryMnemonics

LEMMA Kinds ==
    /\ \A op \in TernaryMnemonics : OperandKinds(op) = <<"register", "register", "register">>
    /\ \A op \in {"COP", "NOT", "LDI", "STI"} : OperandKinds(op) = <<"register", "register">>
    /\ \A op \in {"AFC", "LOAD", "JF"} : OperandKinds(op) = <<"register", "number">>
    /\ OperandKinds("STR") = <<"number", "register">>
    /\ OperandKinds("J") = <<"number">>
    /\ \A op \in {"JI", "PRI"} : OperandKinds(op) = <<"register">>
    /\ OperandKinds("NOP") = <<>>
BY DEF OperandKinds, TernaryMnemonics

Token(kind, value) == [kind |-> kind, value |-> value]

LEMMA TokenForms ==
    /\ \A value : RegisterToken(value) = Token("register", value)
    /\ \A value : NumberToken(value) = Token("number", value)
    /\ \A value : Hex(value) = Token("number", Shown(value))
BY DEF RegisterToken, NumberToken, Hex, Token, Shown

(* A line whose operands are of the kinds of its mnemonic is read as it is. *)
LEMMA ReadThree ==
    ASSUME NEW op \in DOMAIN OPCODES, NEW j, NEW k, NEW l, NEW x, NEW y, NEW z,
           OperandKinds(op) = <<j, k, l>>
    PROVE  LET line == [op |-> op, operands |-> <<Token(j, x), Token(k, y), Token(l, z)>>]
           IN  Readable(line) /\ ParseLine(line) = Decoded(op, x, y, z)
BY DEF Readable, ParseLine, Token

LEMMA ReadTwo ==
    ASSUME NEW op \in DOMAIN OPCODES, NEW j, NEW k, NEW x, NEW y,
           OperandKinds(op) = <<j, k>>
    PROVE  LET line == [op |-> op, operands |-> <<Token(j, x), Token(k, y)>>]
           IN  Readable(line) /\ ParseLine(line) = Decoded(op, x, y, 0)
BY DEF Readable, ParseLine, Token

LEMMA ReadOne ==
    ASSUME NEW op \in DOMAIN OPCODES, NEW j, NEW x, OperandKinds(op) = <<j>>
    PROVE  LET line == [op |-> op, operands |-> <<Token(j, x)>>]
           IN  Readable(line) /\ ParseLine(line) = Decoded(op, x, 0, 0)
BY DEF Readable, ParseLine, Token

LEMMA ReadNone ==
    ASSUME NEW op \in DOMAIN OPCODES, OperandKinds(op) = <<>>
    PROVE  LET line == [op |-> op, operands |-> <<>>]
           IN  Readable(line) /\ ParseLine(line) = Decoded(op, 0, 0, 0)
BY DEF Readable, ParseLine

-----------------------------------------------------------------------------
(* Bytes of an instruction *)

LEMMA DecodedBytes ==
    ASSUME NEW opcode \in DOMAIN opcode_t, NEW x, NEW y, NEW z
    PROVE  LET decoded == DecodeBytes(BinaryBytes(Instruction(opcode, x, y, z)))
               name == OpcodeName(opcode)
           IN  /\ opcode \in {"JMP", "JMPR", "PRI"} => decoded = Decoded(name, Byte(y), 0, 0)
               /\ opcode \in {"JMF", "STORER"} => decoded = Decoded(name, Byte(y), Byte(z), 0)
               /\ opcode \notin {"JMP", "JMPR", "PRI", "JMF", "STORER"} =>
                      decoded = Decoded(name, Byte(x), Byte(y), Byte(z))
<1> DEFINE bytes == BinaryBytes(Instruction(opcode, x, y, z))
           name == OpcodeName(opcode)
<1>1. bytes = [op |-> opcode_t[opcode], a |-> Byte(x), b |-> Byte(y), c |-> Byte(z)]
  BY DEF BinaryBytes, Instruction
<1>2. OPCODE_NAMES(bytes.op) = name
  BY <1>1, OpcodeBytes
<1>3. /\ opcode = "JMP" => name = "J"
      /\ opcode = "JMPR" => name = "JI"
      /\ opcode = "PRI" => name = "PRI"
      /\ opcode = "JMF" => name = "JF"
      /\ opcode = "STORER" => name = "STI"
      /\ opcode \notin {"JMP", "JMPR", "PRI", "JMF", "STORER"} =>
              name \notin {"J", "JI", "PRI", "JF", "STI"}
  BY DEF OpcodeName, opcode_t
<1> HIDE DEF bytes, name
<1>4. /\ name \in {"J", "JI", "PRI"} => DecodeBytes(bytes) = Decoded(name, bytes.b, 0, 0)
      /\ name \in {"JF", "STI"} => DecodeBytes(bytes) = Decoded(name, bytes.b, bytes.c, 0)
      /\ name \notin {"J", "JI", "PRI", "JF", "STI"} =>
              DecodeBytes(bytes) = Decoded(name, bytes.a, bytes.b, bytes.c)
  BY <1>2 DEF DecodeBytes
<1>5. bytes.a = Byte(x) /\ bytes.b = Byte(y) /\ bytes.c = Byte(z)
  BY <1>1
<1>6. QED
  BY <1>3, <1>4, <1>5 DEF bytes, name

-----------------------------------------------------------------------------
(* A request, out of the compiler and into the page, by its opcode *)

Arrival(request, parsed, decoded) ==
    LET line == InstructionWrite(Constructed(request))
    IN  /\ Readable(line)
        /\ ParseLine(line) = parsed
        /\ DecodeBytes(BinaryBytes(Constructed(request))) = decoded

Request(opcode, operands) == [opcode |-> opcode, operands |-> operands]

LEMMA ArrivesTernary ==
    ASSUME NEW opcode \in AllBinaryOps, NEW x \in Registers, NEW y \in Registers, NEW z \in Registers
    PROVE  LET i == Decoded(OpcodeName(opcode), x, y, z)
           IN  Arrival(Request(opcode, <<x, y, z>>), i, i)
<1> DEFINE request == Request(opcode, <<x, y, z>>)
           name == OpcodeName(opcode)
<1>1. Constructed(request) = Instruction(opcode, x, y, z)
  BY DEF Constructed, Request, ThreeOperandInstruction
<1>2. opcode \in TernaryOpcodes /\ opcode \in DOMAIN opcode_t /\ name \in TernaryMnemonics
  BY NamedTernary
<1>3. InstructionWrite(Constructed(request)) =
        [op |-> name,
         operands |-> <<Token("register", x), Token("register", y), Token("register", z)>>]
  BY <1>1, <1>2, WrittenTernary, TokenForms DEF InstructionWrite, Instruction
<1>4. opcode \notin {"JMP", "JMPR", "PRI", "JMF", "STORER"}
  BY DEF AllBinaryOps
<1>5. DecodeBytes(BinaryBytes(Constructed(request))) = Decoded(name, x, y, z)
  BY <1>1, <1>2, <1>4, DecodedBytes, RegisterBytes
<1>6. OperandKinds(name) = <<"register", "register", "register">> /\ name \in DOMAIN OPCODES
  BY <1>2, Kinds, OpcodeNumbers
<1>7. QED
  BY <1>3, <1>5, <1>6, ReadThree DEF Arrival

LEMMA ArrivesRegisters ==
    ASSUME NEW opcode \in {"COP", "NOT", "LOADR", "STORER"}, NEW x \in Registers, NEW y \in Registers
    PROVE  LET name == OpcodeName(opcode)
               parsed == Decoded(name, x, y, 0)
           IN  Arrival(Request(opcode, <<x, y>>), parsed, parsed)
<1> DEFINE request == Request(opcode, <<x, y>>)
           name == OpcodeName(opcode)
<1>1. Constructed(request) = IF opcode = "STORER" THEN Instruction(opcode, 0, x, y)
                                                  ELSE Instruction(opcode, x, y, 0)
  BY DEF Constructed, Request, TwoOperandInstruction
<1>2. /\ opcode \in DOMAIN opcode_t
      /\ name = CASE opcode = "COP" -> "COP" [] opcode = "NOT" -> "NOT"
                  [] opcode = "LOADR" -> "LDI" [] opcode = "STORER" -> "STI"
  BY DEF OpcodeName, opcode_t
<1>3. InstructionWrite(Constructed(request)) =
        [op |-> name, operands |-> <<Token("register", x), Token("register", y)>>]
  BY <1>1, WrittenOthers, TokenForms DEF InstructionWrite, Instruction
<1>4. DecodeBytes(BinaryBytes(Constructed(request))) = Decoded(name, x, y, 0)
  <2>1. CASE opcode = "STORER"
    BY <1>1, <1>2, <2>1, DecodedBytes, RegisterBytes
  <2>2. CASE opcode # "STORER"
    BY <1>1, <1>2, <2>2, DecodedBytes, RegisterBytes, CutTwice
  <2>3. QED
    BY <2>1, <2>2
<1>5. OperandKinds(name) = <<"register", "register">> /\ name \in DOMAIN OPCODES
  BY <1>2, Kinds, OpcodeNumbers
<1>6. QED
  BY <1>3, <1>4, <1>5, ReadTwo DEF Arrival

LEMMA ArrivesNumberSecond ==
    ASSUME NEW opcode \in {"AFC", "LOAD"}, NEW x \in Registers, NEW v \in Int
    PROVE  Arrival(Request(opcode, <<x, v>>), Decoded(opcode, x, Shown(v), 0), Decoded(opcode, x, Byte(v), 0))
<1> DEFINE request == Request(opcode, <<x, v>>)
<1>1. Constructed(request) = Instruction(opcode, x, v, 0)
  BY DEF Constructed, Request, TwoOperandInstruction
<1>2. opcode \in DOMAIN opcode_t /\ OpcodeName(opcode) = opcode
  BY DEF OpcodeName, opcode_t
<1>3. InstructionWrite(Constructed(request)) =
        [op |-> opcode, operands |-> <<Token("register", x), Token("number", Shown(v))>>]
  BY <1>1, <1>2, WrittenOthers, TokenForms DEF InstructionWrite, Instruction
<1>4. DecodeBytes(BinaryBytes(Constructed(request))) = Decoded(opcode, x, Byte(v), 0)
  BY <1>1, <1>2, DecodedBytes, RegisterBytes, CutTwice
<1>5. OperandKinds(opcode) = <<"register", "number">> /\ opcode \in DOMAIN OPCODES
  BY <1>2, Kinds, OpcodeNumbers
<1>6. QED
  BY <1>3, <1>4, <1>5, ReadTwo DEF Arrival

LEMMA ArrivesStore ==
    ASSUME NEW v \in Int, NEW x \in Registers
    PROVE  Arrival(Request("STORE", <<v, x>>), Decoded("STR", Shown(v), x, 0), Decoded("STR", Byte(v), x, 0))
<1> DEFINE request == Request("STORE", <<v, x>>)
<1>1. Constructed(request) = Instruction("STORE", v, x, 0)
  BY DEF Constructed, Request, TwoOperandInstruction
<1>2. "STORE" \in DOMAIN opcode_t /\ OpcodeName("STORE") = "STR"
  BY DEF OpcodeName, opcode_t
<1>3. InstructionWrite(Constructed(request)) =
        [op |-> "STR", operands |-> <<Token("number", Shown(v)), Token("register", x)>>]
  <2>1. WrittenOperands("STORE", <<v, x, 0>>) = <<Hex(v), RegisterToken(x)>>
    BY WrittenOthers
  <2>2. Hex(v) = Token("number", Shown(v)) /\ RegisterToken(x) = Token("register", x)
    BY TokenForms
  <2>3. QED
    BY <1>1, <1>2, <2>1, <2>2 DEF InstructionWrite, Instruction
<1>4. DecodeBytes(BinaryBytes(Constructed(request))) = Decoded("STR", Byte(v), x, 0)
  BY <1>1, <1>2, DecodedBytes, RegisterBytes, CutTwice
<1>5. OperandKinds("STR") = <<"number", "register">> /\ "STR" \in DOMAIN OPCODES
  BY <1>2, Kinds, OpcodeNumbers
<1>6. QED
  BY <1>3, <1>4, <1>5, ReadTwo DEF Arrival

LEMMA ArrivesConditional ==
    ASSUME NEW x \in Registers, NEW v \in Int
    PROVE  Arrival(Request("JMF", <<x, v>>), Decoded("JF", x, Shown(v), 0), Decoded("JF", x, Byte(v), 0))
<1> DEFINE request == Request("JMF", <<x, v>>)
<1>1. Constructed(request) = Instruction("JMF", 0, x, v)
  BY DEF Constructed, Request, TwoOperandInstruction
<1>2. "JMF" \in DOMAIN opcode_t /\ OpcodeName("JMF") = "JF"
  BY DEF OpcodeName, opcode_t
<1>3. InstructionWrite(Constructed(request)) =
        [op |-> "JF", operands |-> <<Token("register", x), Token("number", Shown(v))>>]
  BY <1>1, <1>2, WrittenOthers, TokenForms DEF InstructionWrite, Instruction
<1>4. DecodeBytes(BinaryBytes(Constructed(request))) = Decoded("JF", x, Byte(v), 0)
  BY <1>1, <1>2, DecodedBytes, RegisterBytes
<1>5. OperandKinds("JF") = <<"register", "number">> /\ "JF" \in DOMAIN OPCODES
  BY <1>2, Kinds, OpcodeNumbers
<1>6. QED
  BY <1>3, <1>4, <1>5, ReadTwo DEF Arrival

LEMMA ArrivesJump ==
    ASSUME NEW v \in Int
    PROVE  Arrival(Request("JMP", <<v>>), Decoded("J", Shown(v), 0, 0), Decoded("J", Byte(v), 0, 0))
<1> DEFINE request == Request("JMP", <<v>>)
<1>1. Constructed(request) = Instruction("JMP", 0, v, 0)
  BY DEF Constructed, Request, OneOperandInstruction
<1>2. "JMP" \in DOMAIN opcode_t /\ OpcodeName("JMP") = "J"
  BY DEF OpcodeName, opcode_t
<1>3. InstructionWrite(Constructed(request)) = [op |-> "J", operands |-> <<Token("number", Shown(v))>>]
  BY <1>1, <1>2, WrittenOthers, TokenForms DEF InstructionWrite, Instruction
<1>4. DecodeBytes(BinaryBytes(Constructed(request))) = Decoded("J", Byte(v), 0, 0)
  BY <1>1, <1>2, DecodedBytes
<1>5. OperandKinds("J") = <<"number">> /\ "J" \in DOMAIN OPCODES
  BY <1>2, Kinds, OpcodeNumbers
<1>6. QED
  BY <1>3, <1>4, <1>5, ReadOne DEF Arrival

LEMMA ArrivesRegister ==
    ASSUME NEW opcode \in {"JMPR", "PRI"}, NEW x \in Registers
    PROVE  LET i == Decoded(OpcodeName(opcode), x, 0, 0)
           IN  Arrival(Request(opcode, <<x>>), i, i)
<1> DEFINE request == Request(opcode, <<x>>)
           name == OpcodeName(opcode)
<1>1. Constructed(request) = Instruction(opcode, 0, x, 0)
  BY DEF Constructed, Request, OneOperandInstruction
<1>2. /\ opcode \in DOMAIN opcode_t
      /\ name = IF opcode = "JMPR" THEN "JI" ELSE "PRI"
  BY DEF OpcodeName, opcode_t
<1>3. InstructionWrite(Constructed(request)) = [op |-> name, operands |-> <<Token("register", x)>>]
  BY <1>1, <1>2, WrittenOthers, TokenForms DEF InstructionWrite, Instruction
<1>4. DecodeBytes(BinaryBytes(Constructed(request))) = Decoded(name, x, 0, 0)
  BY <1>1, <1>2, DecodedBytes, RegisterBytes
<1>5. OperandKinds(name) = <<"register">> /\ name \in DOMAIN OPCODES
  BY <1>2, Kinds, OpcodeNumbers
<1>6. QED
  BY <1>3, <1>4, <1>5, ReadOne DEF Arrival

LEMMA ArrivesNop ==
    LET i == Decoded("NOP", 0, 0, 0) IN Arrival(Request("NOP", <<0>>), i, i)
<1> DEFINE request == Request("NOP", <<0>>)
<1>1. Constructed(request) = Instruction("NOP", 0, 0, 0)
  BY DEF Constructed, Request, OneOperandInstruction
<1>2. "NOP" \in DOMAIN opcode_t /\ OpcodeName("NOP") = "NOP"
  BY DEF OpcodeName, opcode_t
<1>3. InstructionWrite(Constructed(request)) = [op |-> "NOP", operands |-> <<>>]
  BY <1>1, <1>2, WrittenOthers DEF InstructionWrite, Instruction
<1>4. DecodeBytes(BinaryBytes(Constructed(request))) = Decoded("NOP", 0, 0, 0)
  BY <1>1, <1>2, DecodedBytes, CutTwice
<1>5. OperandKinds("NOP") = <<>> /\ "NOP" \in DOMAIN OPCODES
  BY <1>2, Kinds, OpcodeNumbers
<1>6. QED
  BY <1>3, <1>4, <1>5, ReadNone DEF Arrival

-----------------------------------------------------------------------------
(* What a request and its two images do to a machine *)

Fields == {"r", "m", "pc", "cycles", "output", "halted"}

Typed(cpu) ==
    /\ DOMAIN cpu = Fields
    /\ cpu = [field \in Fields |-> cpu[field]]
    /\ cpu.r \in [Registers -> Word]
    /\ cpu.m \in [Word -> Word]
    /\ cpu.pc \in Nat

FitsIn(request) == \A n \in DOMAIN request.operands :
    request.opcode \in {"JMP", "JMF"} => request.operands[n] < WordSize

Means(request, parsed, decoded) ==
    /\ \A cpu : /\ Effect(cpu, parsed) = Asked(cpu, request)
                /\ Effect(cpu, decoded) = Asked(cpu, request)
                /\ NextPc(cpu, parsed) = NextPc(cpu, decoded)
    /\ \A cpu : Typed(cpu) =>
            /\ NextPc(cpu, parsed) \in Nat
            /\ FitsIn(request) => NextPc(cpu, parsed) = AskedPc(cpu, request)

LEMMA MeansTernary ==
    ASSUME NEW opcode \in AllBinaryOps, NEW x, NEW y, NEW z
    PROVE  LET i == Decoded(OpcodeName(opcode), x, y, z)
           IN  Means(Request(opcode, <<x, y, z>>), i, i)
<1> DEFINE request == Request(opcode, <<x, y, z>>)
           name == OpcodeName(opcode)
           i == Decoded(name, x, y, z)
<1>1. name \in TernaryMnemonics /\ name \notin {"J", "JF", "JI"} /\ name \notin {"BAND", "BOR"}
  BY NamedTernary DEF TernaryMnemonics, AllBinaryOps, OpcodeName
<1>2. ASSUME NEW b, NEW c
      PROVE  TernaryResult(name, b, c) = Alu(opcode, b, c)
  <2>1. CASE opcode = "SUB"
    <3>1. name = "SOU"
      BY <2>1, NamedTernary
    <3>2. TernaryResult("SOU", b, c) = Alu("SUB", b, c)
      BY DEF TernaryResult
    <3>3. QED
      BY <2>1, <3>1, <3>2
  <2>2. CASE opcode # "SUB"
    <3>1. name = opcode /\ opcode \notin {"BAND", "BOR", "SOU"}
      BY <2>2, NamedTernary DEF AllBinaryOps
    <3>2. TernaryResult(opcode, b, c) = Alu(opcode, b, c)
      BY <3>1 DEF TernaryResult
    <3>3. QED
      BY <3>1, <3>2
  <2>3. QED
    BY <2>1, <2>2
<1>3. i.op = name /\ i.a = x /\ i.b = y /\ i.c = z
  BY DEF Decoded
<1>4. request.opcode = opcode /\ request.operands = <<x, y, z>>
  BY DEF Request
<1> HIDE DEF request, name, i
<1>5. \A cpu : Effect(cpu, i) = SetRegister(cpu, x, Alu(opcode, cpu.r[y], cpu.r[z]))
  BY <1>1, <1>2, <1>3 DEF Effect, TernaryMnemonics
<1>6. \A cpu : Asked(cpu, request) = SetRegister(cpu, x, Alu(opcode, cpu.r[y], cpu.r[z]))
  BY <1>4 DEF Asked, Ternary, AllBinaryOps
<1>7. \A cpu : NextPc(cpu, i) = cpu.pc + 1
  BY <1>1, <1>3 DEF NextPc
<1>8. opcode \notin {"JMP", "JMF", "JMPR"}
  BY DEF AllBinaryOps
<1>9. \A cpu : AskedPc(cpu, request) = cpu.pc + 1
  BY <1>4, <1>8 DEF AskedPc
<1>10. QED
  BY <1>5, <1>6, <1>7, <1>9 DEF Means, Typed, request, i, name

(* The number of a line, its byte in the record and the number itself.      *)
LEMMA NumberBytes ==
    ASSUME NEW v \in Int
    PROVE  Byte(Shown(v)) = Byte(v) /\ Byte(Byte(v)) = Byte(v)
BY ShownBytes, CutTwice

LEMMA EffectForms ==
    /\ \A cpu, a, b : Effect(cpu, Decoded("AFC", a, b, 0)) = SetRegister(cpu, a, b)
    /\ \A cpu, a, b : Effect(cpu, Decoded("COP", a, b, 0)) = Cop(cpu, a, b)
    /\ \A cpu, a, b : Effect(cpu, Decoded("NOT", a, b, 0)) = Not(cpu, a, b)
    /\ \A cpu, a, b : Effect(cpu, Decoded("LOAD", a, b, 0)) = SetRegister(cpu, a, cpu.m[Byte(b)])
    /\ \A cpu, a, b : Effect(cpu, Decoded("STR", a, b, 0)) = SetCell(cpu, Byte(a), cpu.r[b])
    /\ \A cpu, a, b : Effect(cpu, Decoded("LDI", a, b, 0)) = LoadR(cpu, a, b)
    /\ \A cpu, a, b : Effect(cpu, Decoded("STI", a, b, 0)) = StoreR(cpu, a, b)
    /\ \A cpu, a, b : Effect(cpu, Decoded("JF", a, b, 0)) = cpu
    /\ \A cpu, a : Effect(cpu, Decoded("J", a, 0, 0)) = cpu
    /\ \A cpu, a : Effect(cpu, Decoded("JI", a, 0, 0)) = cpu
    /\ \A cpu : Effect(cpu, Decoded("NOP", 0, 0, 0)) = cpu
    /\ \A cpu, a : Effect(cpu, Decoded("PRI", a, 0, 0)) = Pri(cpu, a)
BY DEF Effect, Decoded, TernaryMnemonics, Afc, Load, Store

LEMMA AskedForms ==
    /\ \A cpu, a, b : Asked(cpu, Request("AFC", <<a, b>>)) = SetRegister(cpu, a, b)
    /\ \A cpu, a, b : Asked(cpu, Request("COP", <<a, b>>)) = Cop(cpu, a, b)
    /\ \A cpu, a, b : Asked(cpu, Request("NOT", <<a, b>>)) = Not(cpu, a, b)
    /\ \A cpu, a, b : Asked(cpu, Request("LOAD", <<a, b>>)) = SetRegister(cpu, a, cpu.m[Byte(b)])
    /\ \A cpu, a, b : Asked(cpu, Request("STORE", <<a, b>>)) = SetCell(cpu, Byte(a), cpu.r[b])
    /\ \A cpu, a, b : Asked(cpu, Request("LOADR", <<a, b>>)) = LoadR(cpu, a, b)
    /\ \A cpu, a, b : Asked(cpu, Request("STORER", <<a, b>>)) = StoreR(cpu, a, b)
    /\ \A cpu, a, b : Asked(cpu, Request("JMF", <<a, b>>)) = cpu
    /\ \A cpu, a : Asked(cpu, Request("JMP", <<a>>)) = cpu
    /\ \A cpu, a : Asked(cpu, Request("JMPR", <<a>>)) = cpu
    /\ \A cpu, a : Asked(cpu, Request("NOP", <<a>>)) = cpu
    /\ \A cpu, a : Asked(cpu, Request("PRI", <<a>>)) = Pri(cpu, a)
BY DEF Asked, Request, AllBinaryOps, Afc, Load, Store

LEMMA PcForms ==
    /\ \A cpu, a, b : \A op \in {"AFC", "COP", "NOT", "LOAD", "STR", "LDI", "STI", "PRI", "NOP"} :
           NextPc(cpu, Decoded(op, a, b, 0)) = cpu.pc + 1
    /\ \A cpu, a, b : NextPc(cpu, Decoded("J", a, b, 0)) = Byte(a)
    /\ \A cpu, a, b : NextPc(cpu, Decoded("JF", a, b, 0)) = IF cpu.r[a] = 0 THEN Byte(b) ELSE cpu.pc + 1
    /\ \A cpu, a, b : NextPc(cpu, Decoded("JI", a, b, 0)) = Byte(cpu.r[a])
BY DEF NextPc, Decoded

LEMMA AskedPcForms ==
    /\ \A cpu, a, b : \A opcode \in {"AFC", "COP", "NOT", "LOAD", "STORE", "LOADR", "STORER"} :
           AskedPc(cpu, Request(opcode, <<a, b>>)) = cpu.pc + 1
    /\ \A cpu, a : \A opcode \in {"PRI", "NOP"} : AskedPc(cpu, Request(opcode, <<a>>)) = cpu.pc + 1
    /\ \A cpu, a : AskedPc(cpu, Request("JMP", <<a>>)) = a
    /\ \A cpu, a, b : AskedPc(cpu, Request("JMF", <<a, b>>)) = IF cpu.r[a] = 0 THEN b ELSE cpu.pc + 1
    /\ \A cpu, a : AskedPc(cpu, Request("JMPR", <<a>>)) = cpu.r[a]
BY DEF AskedPc, Request

LEMMA MeansRegisters ==
    ASSUME NEW opcode \in {"COP", "NOT", "LOADR", "STORER"}, NEW x, NEW y
    PROVE  LET i == Decoded(OpcodeName(opcode), x, y, 0)
           IN  Means(Request(opcode, <<x, y>>), i, i)
<1>1. OpcodeName(opcode) = CASE opcode = "COP" -> "COP" [] opcode = "NOT" -> "NOT"
                             [] opcode = "LOADR" -> "LDI" [] opcode = "STORER" -> "STI"
  BY DEF OpcodeName
<1>2. \A cpu : Effect(cpu, Decoded(OpcodeName(opcode), x, y, 0)) = Asked(cpu, Request(opcode, <<x, y>>))
  BY <1>1, EffectForms, AskedForms
<1>3. \A cpu : /\ NextPc(cpu, Decoded(OpcodeName(opcode), x, y, 0)) = cpu.pc + 1
               /\ AskedPc(cpu, Request(opcode, <<x, y>>)) = cpu.pc + 1
  BY <1>1, PcForms, AskedPcForms
<1>4. QED
  BY <1>2, <1>3 DEF Means, Typed

LEMMA MeansNumberSecond ==
    ASSUME NEW opcode \in {"AFC", "LOAD"}, NEW x, NEW v \in Int
    PROVE  Means(Request(opcode, <<x, v>>), Decoded(opcode, x, Shown(v), 0), Decoded(opcode, x, Byte(v), 0))
<1>1. \A cpu : /\ SetRegister(cpu, x, Shown(v)) = SetRegister(cpu, x, v)
               /\ SetRegister(cpu, x, Byte(v)) = SetRegister(cpu, x, v)
  BY NumberBytes DEF SetRegister
<1>2. \A cpu : /\ Effect(cpu, Decoded(opcode, x, Shown(v), 0)) = Asked(cpu, Request(opcode, <<x, v>>))
               /\ Effect(cpu, Decoded(opcode, x, Byte(v), 0)) = Asked(cpu, Request(opcode, <<x, v>>))
  <2>1. CASE opcode = "AFC"
    BY <1>1, <2>1, EffectForms, AskedForms
  <2>2. CASE opcode = "LOAD"
    BY <2>2, EffectForms, AskedForms, NumberBytes
  <2>3. QED
    BY <2>1, <2>2
<1>3. \A cpu : /\ NextPc(cpu, Decoded(opcode, x, Shown(v), 0)) = cpu.pc + 1
               /\ NextPc(cpu, Decoded(opcode, x, Byte(v), 0)) = cpu.pc + 1
               /\ AskedPc(cpu, Request(opcode, <<x, v>>)) = cpu.pc + 1
  BY PcForms, AskedPcForms
<1>4. QED
  BY <1>2, <1>3 DEF Means, Typed

LEMMA MeansStore ==
    ASSUME NEW v \in Int, NEW x
    PROVE  Means(Request("STORE", <<v, x>>), Decoded("STR", Shown(v), x, 0), Decoded("STR", Byte(v), x, 0))
<1>1. \A cpu : /\ Effect(cpu, Decoded("STR", Shown(v), x, 0)) = Asked(cpu, Request("STORE", <<v, x>>))
               /\ Effect(cpu, Decoded("STR", Byte(v), x, 0)) = Asked(cpu, Request("STORE", <<v, x>>))
  BY EffectForms, AskedForms, NumberBytes
<1>2. \A cpu : /\ NextPc(cpu, Decoded("STR", Shown(v), x, 0)) = cpu.pc + 1
               /\ NextPc(cpu, Decoded("STR", Byte(v), x, 0)) = cpu.pc + 1
               /\ AskedPc(cpu, Request("STORE", <<v, x>>)) = cpu.pc + 1
  BY PcForms, AskedPcForms
<1>3. QED
  BY <1>1, <1>2 DEF Means, Typed

LEMMA MeansConditional ==
    ASSUME NEW x, NEW v \in Nat
    PROVE  Means(Request("JMF", <<x, v>>), Decoded("JF", x, Shown(v), 0), Decoded("JF", x, Byte(v), 0))
<1>1. v \in Int
  OBVIOUS
<1>2. \A cpu : /\ Effect(cpu, Decoded("JF", x, Shown(v), 0)) = Asked(cpu, Request("JMF", <<x, v>>))
               /\ Effect(cpu, Decoded("JF", x, Byte(v), 0)) = Asked(cpu, Request("JMF", <<x, v>>))
  BY EffectForms, AskedForms
<1>3. \A cpu : /\ NextPc(cpu, Decoded("JF", x, Shown(v), 0)) = IF cpu.r[x] = 0 THEN Byte(v) ELSE cpu.pc + 1
               /\ NextPc(cpu, Decoded("JF", x, Byte(v), 0)) = IF cpu.r[x] = 0 THEN Byte(v) ELSE cpu.pc + 1
               /\ AskedPc(cpu, Request("JMF", <<x, v>>)) = IF cpu.r[x] = 0 THEN v ELSE cpu.pc + 1
  BY <1>1, PcForms, AskedPcForms, NumberBytes
<1>4. Byte(v) \in Nat /\ (FitsIn(Request("JMF", <<x, v>>)) => Byte(v) = v)
  <2>1. FitsIn(Request("JMF", <<x, v>>)) => v < WordSize
    BY DEF FitsIn, Request
  <2>2. v < WordSize => v \in Word
    BY WordSizeAssumption DEF Word
  <2>3. QED
    BY <1>1, <2>1, <2>2, ByteIsWord
<1>5. QED
  BY <1>2, <1>3, <1>4 DEF Means, Typed

LEMMA MeansJump ==
    ASSUME NEW v \in Nat
    PROVE  Means(Request("JMP", <<v>>), Decoded("J", Shown(v), 0, 0), Decoded("J", Byte(v), 0, 0))
<1>1. v \in Int
  OBVIOUS
<1>2. \A cpu : /\ Effect(cpu, Decoded("J", Shown(v), 0, 0)) = Asked(cpu, Request("JMP", <<v>>))
               /\ Effect(cpu, Decoded("J", Byte(v), 0, 0)) = Asked(cpu, Request("JMP", <<v>>))
  BY EffectForms, AskedForms
<1>3. \A cpu : /\ NextPc(cpu, Decoded("J", Shown(v), 0, 0)) = Byte(v)
               /\ NextPc(cpu, Decoded("J", Byte(v), 0, 0)) = Byte(v)
               /\ AskedPc(cpu, Request("JMP", <<v>>)) = v
  BY <1>1, PcForms, AskedPcForms, NumberBytes
<1>4. Byte(v) \in Nat /\ (FitsIn(Request("JMP", <<v>>)) => Byte(v) = v)
  <2>1. FitsIn(Request("JMP", <<v>>)) => v < WordSize
    BY DEF FitsIn, Request
  <2>2. v < WordSize => v \in Word
    BY WordSizeAssumption DEF Word
  <2>3. QED
    BY <1>1, <2>1, <2>2, ByteIsWord
<1>5. QED
  BY <1>2, <1>3, <1>4 DEF Means

LEMMA MeansRegister ==
    ASSUME NEW opcode \in {"JMPR", "PRI"}, NEW x \in Registers
    PROVE  LET i == Decoded(OpcodeName(opcode), x, 0, 0)
           IN  Means(Request(opcode, <<x>>), i, i)
<1>1. /\ opcode = "JMPR" => OpcodeName(opcode) = "JI"
      /\ opcode = "PRI" => OpcodeName(opcode) = "PRI"
  BY DEF OpcodeName
<1>2. \A cpu : Effect(cpu, Decoded(OpcodeName(opcode), x, 0, 0)) = Asked(cpu, Request(opcode, <<x>>))
  BY <1>1, EffectForms, AskedForms
<1>3. ASSUME NEW cpu, Typed(cpu)
      PROVE  /\ NextPc(cpu, Decoded(OpcodeName(opcode), x, 0, 0)) \in Nat
             /\ NextPc(cpu, Decoded(OpcodeName(opcode), x, 0, 0)) = AskedPc(cpu, Request(opcode, <<x>>))
  <2>1. cpu.r[x] \in Word /\ cpu.pc + 1 \in Nat
    BY <1>3 DEF Typed
  <2>2. Byte(cpu.r[x]) = cpu.r[x] /\ cpu.r[x] \in Nat
    BY <2>1, ByteIsWord
  <2>3. QED
    BY <1>1, <2>1, <2>2, PcForms, AskedPcForms
<1>4. QED
  BY <1>2, <1>3 DEF Means

LEMMA MeansNop ==
    LET i == Decoded("NOP", 0, 0, 0) IN Means(Request("NOP", <<0>>), i, i)
<1>1. \A cpu : Effect(cpu, Decoded("NOP", 0, 0, 0)) = Asked(cpu, Request("NOP", <<0>>))
  BY EffectForms, AskedForms
<1>2. \A cpu : /\ NextPc(cpu, Decoded("NOP", 0, 0, 0)) = cpu.pc + 1
               /\ AskedPc(cpu, Request("NOP", <<0>>)) = cpu.pc + 1
  BY PcForms, AskedPcForms
<1>3. QED
  BY <1>1, <1>2 DEF Means, Typed

-----------------------------------------------------------------------------
(* The text the page writes for a decoded instruction *)

Editable(i) == Readable(FormatInstruction(i)) /\ ParseLine(FormatInstruction(i)) = i

Formatted(kind, value) == IF kind = "number" THEN Token("number", Byte(value))
                                             ELSE Token("register", value)

LEMMA FormattedTokens ==
    ASSUME NEW op, NEW x, NEW y, NEW z
    PROVE  FormatInstruction(Decoded(op, x, y, z)) =
               [op |-> op,
                operands |-> [k \in DOMAIN OperandKinds(op) |->
                                 Formatted(OperandKinds(op)[k], <<x, y, z>>[k])]]
BY TokenForms DEF FormatInstruction, Decoded, Formatted

LEMMA EditableNone == Editable(Decoded("NOP", 0, 0, 0))
<1>1. OperandKinds("NOP") = <<>> /\ "NOP" \in DOMAIN OPCODES
  BY Kinds DEF OPCODES
<1> DEFINE tokens == [k \in DOMAIN OperandKinds("NOP") |-> Formatted(OperandKinds("NOP")[k], <<0, 0, 0>>[k])]
<1>2. tokens = <<>>
  BY <1>1
<1>3. FormatInstruction(Decoded("NOP", 0, 0, 0)) = [op |-> "NOP", operands |-> tokens]
  BY FormattedTokens, Zenon
<1>4. QED
  BY <1>1, <1>2, <1>3, ReadNone DEF Editable

LEMMA EditableOne ==
    ASSUME NEW op \in DOMAIN OPCODES, NEW j, NEW x, OperandKinds(op) = <<j>>,
           Formatted(j, x) = Token(j, x)
    PROVE  Editable(Decoded(op, x, 0, 0))
<1> DEFINE tokens == [k \in DOMAIN OperandKinds(op) |-> Formatted(OperandKinds(op)[k], <<x, 0, 0>>[k])]
<1>1. tokens = <<Token(j, x)>>
  OBVIOUS
<1>2. FormatInstruction(Decoded(op, x, 0, 0)) = [op |-> op, operands |-> tokens]
  BY FormattedTokens, Zenon
<1>3. QED
  BY <1>1, <1>2, ReadOne DEF Editable

LEMMA EditableTwo ==
    ASSUME NEW op \in DOMAIN OPCODES, NEW j, NEW k, NEW x, NEW y, OperandKinds(op) = <<j, k>>,
           Formatted(j, x) = Token(j, x), Formatted(k, y) = Token(k, y)
    PROVE  Editable(Decoded(op, x, y, 0))
<1> DEFINE tokens == [n \in DOMAIN OperandKinds(op) |-> Formatted(OperandKinds(op)[n], <<x, y, 0>>[n])]
<1>1. tokens = <<Token(j, x), Token(k, y)>>
  OBVIOUS
<1>2. FormatInstruction(Decoded(op, x, y, 0)) = [op |-> op, operands |-> tokens]
  BY FormattedTokens, Zenon
<1>3. QED
  BY <1>1, <1>2, ReadTwo DEF Editable

LEMMA EditableThree ==
    ASSUME NEW op \in DOMAIN OPCODES, NEW x, NEW y, NEW z,
           OperandKinds(op) = <<"register", "register", "register">>
    PROVE  Editable(Decoded(op, x, y, z))
<1>1. \A value : Formatted("register", value) = Token("register", value)
  BY DEF Formatted
<1> DEFINE tokens == [n \in DOMAIN OperandKinds(op) |-> Formatted(OperandKinds(op)[n], <<x, y, z>>[n])]
<1>2. tokens = <<Token("register", x), Token("register", y), Token("register", z)>>
  BY <1>1
<1>3. FormatInstruction(Decoded(op, x, y, z)) = [op |-> op, operands |-> tokens]
  BY FormattedTokens, Zenon
<1>4. QED
  BY <1>2, <1>3, ReadThree DEF Editable

LEMMA FormattedSame ==
    /\ \A value : Formatted("register", value) = Token("register", value)
    /\ \A value \in Int : Formatted("number", Byte(value)) = Token("number", Byte(value))
BY CutTwice DEF Formatted

LEMMA EditableForms ==
    /\ \A opcode \in AllBinaryOps : \A x, y, z : Editable(Decoded(OpcodeName(opcode), x, y, z))
    /\ \A opcode \in {"COP", "NOT", "LOADR", "STORER"} : \A x, y :
           Editable(Decoded(OpcodeName(opcode), x, y, 0))
    /\ \A op \in {"AFC", "LOAD", "JF"} : \A x : \A v \in Int : Editable(Decoded(op, x, Byte(v), 0))
    /\ \A v \in Int : \A x : Editable(Decoded("STR", Byte(v), x, 0))
    /\ \A v \in Int : Editable(Decoded("J", Byte(v), 0, 0))
    /\ \A opcode \in {"JMPR", "PRI"} : \A x : Editable(Decoded(OpcodeName(opcode), x, 0, 0))
    /\ Editable(Decoded("NOP", 0, 0, 0))
<1>1. \A opcode \in AllBinaryOps : \A x, y, z : Editable(Decoded(OpcodeName(opcode), x, y, z))
  BY NamedTernary, OpcodeNumbers, Kinds, EditableThree
<1>2. ASSUME NEW opcode \in {"COP", "NOT", "LOADR", "STORER"}, NEW x, NEW y
      PROVE  Editable(Decoded(OpcodeName(opcode), x, y, 0))
  <2>1. OpcodeName(opcode) \in {"COP", "NOT", "LDI", "STI"} /\ OpcodeName(opcode) \in DOMAIN OPCODES
    BY DEF OpcodeName, OPCODES
  <2>2. OperandKinds(OpcodeName(opcode)) = <<"register", "register">>
    BY <2>1, Kinds
  <2>3. QED
    BY <2>1, <2>2, FormattedSame, EditableTwo
<1>3. ASSUME NEW op \in {"AFC", "LOAD", "JF"}, NEW x, NEW v \in Int
      PROVE  Editable(Decoded(op, x, Byte(v), 0))
  <2>1. OperandKinds(op) = <<"register", "number">> /\ op \in DOMAIN OPCODES
    BY Kinds DEF OPCODES
  <2>2. QED
    BY <2>1, FormattedSame, EditableTwo
<1>4. ASSUME NEW v \in Int, NEW x
      PROVE  Editable(Decoded("STR", Byte(v), x, 0))
  <2>1. OperandKinds("STR") = <<"number", "register">> /\ "STR" \in DOMAIN OPCODES
    BY Kinds DEF OPCODES
  <2>2. QED
    BY <2>1, FormattedSame, EditableTwo
<1>5. ASSUME NEW v \in Int
      PROVE  Editable(Decoded("J", Byte(v), 0, 0))
  <2>1. OperandKinds("J") = <<"number">> /\ "J" \in DOMAIN OPCODES
    BY Kinds DEF OPCODES
  <2>2. QED
    BY <2>1, FormattedSame, EditableOne
<1>6. ASSUME NEW opcode \in {"JMPR", "PRI"}, NEW x
      PROVE  Editable(Decoded(OpcodeName(opcode), x, 0, 0))
  <2>1. OpcodeName(opcode) \in {"JI", "PRI"} /\ OpcodeName(opcode) \in DOMAIN OPCODES
    BY DEF OpcodeName, OPCODES
  <2>2. OperandKinds(OpcodeName(opcode)) = <<"register">>
    BY <2>1, Kinds
  <2>3. QED
    BY <2>1, <2>2, FormattedSame, EditableOne
<1>7. QED
  BY <1>1, <1>2, <1>3, <1>4, <1>5, <1>6, EditableNone

-----------------------------------------------------------------------------
(* Every request *)

Faithful(request) ==
    \E parsed, decoded :
        Arrival(request, parsed, decoded) /\ Means(request, parsed, decoded) /\ Editable(decoded)

LEMMA PairParts ==
    ASSUME NEW S, NEW T, NEW p \in S \X T
    PROVE  p[1] \in S /\ p[2] \in T /\ p = <<p[1], p[2]>>
OBVIOUS

LEMMA RequestCases ==
    ASSUME NEW request \in Requests
    PROVE  \/ \E opcode \in AllBinaryOps, x, y, z \in Registers : request = Request(opcode, <<x, y, z>>)
           \/ \E opcode \in {"COP", "NOT", "LOADR", "STORER"}, x, y \in Registers :
                  request = Request(opcode, <<x, y>>)
           \/ \E opcode \in {"AFC", "LOAD"}, x \in Registers, v \in Int : request = Request(opcode, <<x, v>>)
           \/ \E v \in Int, x \in Registers : request = Request("STORE", <<v, x>>)
           \/ \E x \in Registers, v \in Nat : request = Request("JMF", <<x, v>>)
           \/ \E v \in Nat : request = Request("JMP", <<v>>)
           \/ \E opcode \in {"JMPR", "PRI"}, x \in Registers : request = Request(opcode, <<x>>)
           \/ request = Request("NOP", <<0>>)
<1>1. \A opcodes, operands : \A call \in Calls(opcodes, operands) :
        \E opcode \in opcodes, x \in operands : call = Request(opcode, x)
  BY DEF Calls, Request
<1>2. UsedRegisters \subseteq Registers /\ Literals \subseteq Int /\ Targets \subseteq Nat
  BY OutputsAssumption
<1>3. CASE request \in Calls({"NOP"}, {<<0>>})
  BY <1>1, <1>3
<1>4. CASE request \in Calls({"JMP"}, {<<target>> : target \in Targets})
  BY <1>1, <1>2, <1>4
<1>5. CASE request \in Calls({"JMPR", "PRI"}, {<<reg>> : reg \in UsedRegisters})
  BY <1>1, <1>2, <1>5
<1>6. CASE request \in Calls({"AFC", "LOAD"}, UsedRegisters \X Literals)
  <2>1. PICK opcode \in {"AFC", "LOAD"}, p \in UsedRegisters \X Literals : request = Request(opcode, p)
    BY <1>1, <1>6
  <2>2. p[1] \in UsedRegisters /\ p[2] \in Literals /\ p = <<p[1], p[2]>>
    BY PairParts
  <2>3. QED
    BY <1>2, <2>1, <2>2
<1>7. CASE request \in Calls({"STORE"}, Literals \X UsedRegisters)
  <2>1. PICK p \in Literals \X UsedRegisters : request = Request("STORE", p)
    BY <1>1, <1>7
  <2>2. p[1] \in Literals /\ p[2] \in UsedRegisters /\ p = <<p[1], p[2]>>
    BY PairParts
  <2>3. QED
    BY <1>2, <2>1, <2>2
<1>8. CASE request \in Calls({"COP", "NOT", "LOADR", "STORER"}, UsedRegisters \X UsedRegisters)
  <2>1. PICK opcode \in {"COP", "NOT", "LOADR", "STORER"}, p \in UsedRegisters \X UsedRegisters :
          request = Request(opcode, p)
    BY <1>1, <1>8
  <2>2. PICK x \in Registers, y \in Registers : p = <<x, y>>
    BY <1>2
  <2>3. QED
    BY <2>1, <2>2
<1>9. CASE request \in Calls({"JMF"}, UsedRegisters \X Targets)
  <2>1. PICK p \in UsedRegisters \X Targets : request = Request("JMF", p)
    BY <1>1, <1>9
  <2>2. p[1] \in UsedRegisters /\ p[2] \in Targets /\ p = <<p[1], p[2]>>
    BY PairParts
  <2>3. QED
    BY <1>2, <2>1, <2>2
<1>10. CASE request \in Calls(AllBinaryOps, UsedRegisters \X UsedRegisters \X UsedRegisters)
  <2>1. PICK opcode \in AllBinaryOps, p \in UsedRegisters \X UsedRegisters \X UsedRegisters :
          request = Request(opcode, p)
    BY <1>1, <1>10
  <2>2. PICK x \in Registers, y \in Registers, z \in Registers : p = <<x, y, z>>
    BY <1>2
  <2>3. QED
    BY <2>1, <2>2
<1>11. QED
  BY <1>3, <1>4, <1>5, <1>6, <1>7, <1>8, <1>9, <1>10 DEF Requests

LEMMA RequestsFaithful == \A request \in Requests : Faithful(request)
<1> SUFFICES ASSUME NEW request \in Requests PROVE Faithful(request)
  OBVIOUS
<1>1. CASE \E opcode \in AllBinaryOps, x, y, z \in Registers : request = Request(opcode, <<x, y, z>>)
  <2>1. PICK opcode \in AllBinaryOps, x \in Registers, y \in Registers, z \in Registers :
          request = Request(opcode, <<x, y, z>>)
    BY <1>1
  <2>2. QED
    BY <2>1, ArrivesTernary, MeansTernary, EditableForms DEF Faithful
<1>2. CASE \E opcode \in {"COP", "NOT", "LOADR", "STORER"}, x, y \in Registers : request = Request(opcode, <<x, y>>)
  <2>1. PICK opcode \in {"COP", "NOT", "LOADR", "STORER"}, x \in Registers, y \in Registers :
          request = Request(opcode, <<x, y>>)
    BY <1>2
  <2>2. QED
    BY <2>1, ArrivesRegisters, MeansRegisters, EditableForms DEF Faithful
<1>3. CASE \E opcode \in {"AFC", "LOAD"}, x \in Registers, v \in Int : request = Request(opcode, <<x, v>>)
  <2>1. PICK opcode \in {"AFC", "LOAD"}, x \in Registers, v \in Int : request = Request(opcode, <<x, v>>)
    BY <1>3
  <2>2. QED
    BY <2>1, ArrivesNumberSecond, MeansNumberSecond, EditableForms DEF Faithful
<1>4. CASE \E v \in Int, x \in Registers : request = Request("STORE", <<v, x>>)
  BY <1>4, ArrivesStore, MeansStore, EditableForms DEF Faithful
<1>5. CASE \E x \in Registers, v \in Nat : request = Request("JMF", <<x, v>>)
  <2>1. PICK x \in Registers, v \in Nat : request = Request("JMF", <<x, v>>)
    BY <1>5
  <2>2. v \in Int
    OBVIOUS
  <2>3. QED
    BY <2>1, <2>2, ArrivesConditional, MeansConditional, EditableForms DEF Faithful
<1>6. CASE \E v \in Nat : request = Request("JMP", <<v>>)
  <2>1. PICK v \in Nat : request = Request("JMP", <<v>>)
    BY <1>6
  <2>2. v \in Int
    OBVIOUS
  <2>3. QED
    BY <2>1, <2>2, ArrivesJump, MeansJump, EditableForms DEF Faithful
<1>7. CASE \E opcode \in {"JMPR", "PRI"}, x \in Registers : request = Request(opcode, <<x>>)
  BY <1>7, ArrivesRegister, MeansRegister, EditableForms DEF Faithful
<1>8. CASE request = Request("NOP", <<0>>)
  BY <1>8, ArrivesNop, MeansNop, EditableForms DEF Faithful
<1>9. QED
  BY <1>1, <1>2, <1>3, <1>4, <1>5, <1>6, <1>7, <1>8, RequestCases

-----------------------------------------------------------------------------
(* One instruction of a page *)

LEMMA SetRegisterTyped ==
    ASSUME NEW cpu, Typed(cpu), NEW reg \in Registers, NEW value \in Int
    PROVE  Typed(SetRegister(cpu, reg, value))
<1>1. Byte(value) \in Word
  BY ByteIsWord
<1>2. [cpu.r EXCEPT ![reg] = Byte(value)] \in [Registers -> Word]
  BY <1>1 DEF Typed
<1>3. SetRegister(cpu, reg, value) = [cpu EXCEPT !.r = [cpu.r EXCEPT ![reg] = Byte(value)]]
  BY DEF SetRegister
<1>4. QED
  BY <1>2, <1>3 DEF Typed, Fields

LEMMA SetCellTyped ==
    ASSUME NEW cpu, Typed(cpu), NEW address \in Word, NEW value \in Word
    PROVE  Typed(SetCell(cpu, address, value))
<1>1. [cpu.m EXCEPT ![address] = value] \in [Word -> Word]
  BY DEF Typed
<1>2. SetCell(cpu, address, value) = [cpu EXCEPT !.m = [cpu.m EXCEPT ![address] = value]]
  BY DEF SetCell
<1>3. QED
  BY <1>1, <1>2 DEF Typed, Fields

LEMMA PriTyped ==
    ASSUME NEW cpu, Typed(cpu), NEW reg
    PROVE  Typed(Pri(cpu, reg))
<1> DEFINE shown == Append(cpu.output, cpu.r[reg])
<1>1. Pri(cpu, reg) = [cpu EXCEPT !.output = shown]
  BY DEF Pri
<1> HIDE DEF shown
<1>2. QED
  BY <1>1 DEF Typed, Fields

LEMMA TypedParts ==
    ASSUME NEW cpu, Typed(cpu)
    PROVE  /\ \A reg \in Registers : cpu.r[reg] \in Word /\ cpu.r[reg] \in Int
           /\ \A a \in Word : cpu.m[a] \in Word /\ cpu.m[a] \in Int
<1>1. Word \subseteq Int
  BY ByteIsWord
<1>2. QED
  BY <1>1 DEF Typed

LEMMA AskedTyped ==
    ASSUME NEW request \in Requests, NEW cpu, Typed(cpu)
    PROVE  Typed(Asked(cpu, request))
<1>1. CASE \E opcode \in AllBinaryOps, x, y, z \in Registers : request = Request(opcode, <<x, y, z>>)
  <2>1. PICK opcode \in AllBinaryOps, x \in Registers, y \in Registers, z \in Registers :
          request = Request(opcode, <<x, y, z>>)
    BY <1>1
  <2>2. Asked(cpu, request) = SetRegister(cpu, x, Alu(opcode, cpu.r[y], cpu.r[z]))
    BY <2>1 DEF Asked, Request, Ternary, AllBinaryOps
  <2>3. Alu(opcode, cpu.r[y], cpu.r[z]) \in Int
    BY TypedParts, AluIsInteger
  <2>4. QED
    BY <2>2, <2>3, SetRegisterTyped
<1>2. CASE \E opcode \in {"COP", "NOT", "LOADR", "STORER"}, x, y \in Registers : request = Request(opcode, <<x, y>>)
  <2>1. PICK opcode \in {"COP", "NOT", "LOADR", "STORER"}, x \in Registers, y \in Registers :
          request = Request(opcode, <<x, y>>)
    BY <1>2
  <2>2. CASE opcode = "COP"
    BY <2>1, <2>2, AskedForms, TypedParts, SetRegisterTyped DEF Cop
  <2>3. CASE opcode = "NOT"
    <3>1. Truth(cpu.r[y] = 0) \in Int
      BY DEF Truth
    <3>2. QED
      BY <2>1, <2>3, <3>1, AskedForms, SetRegisterTyped DEF Not
  <2>4. CASE opcode = "LOADR"
    <3>1. cpu.m[cpu.r[y]] \in Int
      BY TypedParts
    <3>2. Asked(cpu, request) = SetRegister(cpu, x, cpu.m[cpu.r[y]])
      BY <2>1, <2>4, AskedForms DEF LoadR
    <3>3. QED
      BY <3>1, <3>2, SetRegisterTyped
  <2>5. CASE opcode = "STORER"
    <3>1. cpu.r[x] \in Word /\ cpu.r[y] \in Word
      BY TypedParts
    <3>2. Asked(cpu, request) = SetCell(cpu, cpu.r[x], cpu.r[y])
      BY <2>1, <2>5, AskedForms DEF StoreR
    <3>3. QED
      BY <3>1, <3>2, SetCellTyped
  <2>6. QED
    BY <2>2, <2>3, <2>4, <2>5
<1>3. CASE \E opcode \in {"AFC", "LOAD"}, x \in Registers, v \in Int : request = Request(opcode, <<x, v>>)
  <2>1. PICK opcode \in {"AFC", "LOAD"}, x \in Registers, v \in Int : request = Request(opcode, <<x, v>>)
    BY <1>3
  <2>2. cpu.m[Byte(v)] \in Int
    BY ByteIsWord, TypedParts
  <2>3. QED
    BY <2>1, <2>2, AskedForms, SetRegisterTyped
<1>4. CASE \E v \in Int, x \in Registers : request = Request("STORE", <<v, x>>)
  <2>1. PICK v \in Int, x \in Registers : request = Request("STORE", <<v, x>>)
    BY <1>4
  <2>2. Byte(v) \in Word /\ cpu.r[x] \in Word
    BY ByteIsWord, TypedParts
  <2>3. Asked(cpu, request) = SetCell(cpu, Byte(v), cpu.r[x])
    BY <2>1, AskedForms
  <2>4. QED
    BY <2>2, <2>3, SetCellTyped
<1>5. CASE \E x \in Registers, v \in Nat : request = Request("JMF", <<x, v>>)
  BY <1>5, AskedForms
<1>6. CASE \E v \in Nat : request = Request("JMP", <<v>>)
  BY <1>6, AskedForms
<1>7. CASE \E opcode \in {"JMPR", "PRI"}, x \in Registers : request = Request(opcode, <<x>>)
  BY <1>7, AskedForms, PriTyped
<1>8. CASE request = Request("NOP", <<0>>)
  BY <1>8, AskedForms
<1>9. QED
  BY <1>1, <1>2, <1>3, <1>4, <1>5, <1>6, <1>7, <1>8, RequestCases

(* The two images of a request do the same, and what was asked if it fits.  *)
LEMMA InstructionsAgree ==
    ASSUME NEW request \in Requests, NEW cpu, Typed(cpu)
    PROVE  LET line == InstructionWrite(Constructed(request))
               parsed == ParseLine(line)
               decoded == DecodeBytes(BinaryBytes(Constructed(request)))
           IN  /\ Readable(line) /\ Editable(decoded)
               /\ Execute(cpu, decoded) = Execute(cpu, parsed)
               /\ Typed(Execute(cpu, parsed))
               /\ FitsIn(request) => Execute(cpu, parsed) = Perform(cpu, request)
<1> DEFINE line == InstructionWrite(Constructed(request))
           parsed == ParseLine(line)
           decoded == DecodeBytes(BinaryBytes(Constructed(request)))
<1>1. Readable(line) /\ Means(request, parsed, decoded) /\ Editable(decoded)
  BY RequestsFaithful DEF Faithful, Arrival
<1> HIDE DEF line, parsed, decoded
<1>2. /\ Effect(cpu, parsed) = Asked(cpu, request)
      /\ Effect(cpu, decoded) = Asked(cpu, request)
      /\ NextPc(cpu, parsed) = NextPc(cpu, decoded)
      /\ NextPc(cpu, parsed) \in Nat
      /\ FitsIn(request) => NextPc(cpu, parsed) = AskedPc(cpu, request)
  BY <1>1 DEF Means
<1>3. Execute(cpu, decoded) = Execute(cpu, parsed)
  BY <1>2, Zenon DEF Execute
<1>4. FitsIn(request) => Execute(cpu, parsed) = Perform(cpu, request)
  BY <1>2, Zenon DEF Execute, Perform
<1>5. Typed(Execute(cpu, parsed))
  <2> DEFINE asked == Asked(cpu, request)
             count == asked.cycles + 1
             next == NextPc(cpu, parsed)
  <2>1. Typed(asked) /\ next \in Nat
    BY <1>2, AskedTyped
  <2>2. Execute(cpu, parsed) = [asked EXCEPT !.pc = next, !.cycles = count]
    BY <1>2, Zenon DEF Execute
  <2> HIDE DEF asked, count, next
  <2>3. QED
    BY <2>1, <2>2 DEF Typed, Fields
<1>6. QED
  BY <1>1, <1>3, <1>4, <1>5 DEF line, parsed, decoded

-----------------------------------------------------------------------------
(* Whole programs *)

Line(request) == InstructionWrite(Constructed(request))
Record(request) == BinaryBytes(Constructed(request))

LEMMA Programs ==
    ASSUME requests \in Seq(Requests)
    PROVE  /\ Written = [k \in 1..Len(requests) |-> Line(requests[k])]
           /\ Bytes = [k \in 1..Len(requests) |-> Record(requests[k])]
           /\ ParseAssembly(Written) = [k \in 1..Len(requests) |-> ParseLine(Line(requests[k]))]
           /\ DecodeBinary(Bytes) = [k \in 1..Len(requests) |-> DecodeBytes(Record(requests[k]))]
<1>1. DOMAIN requests = 1..Len(requests)
  OBVIOUS
<1>2. Written = [k \in 1..Len(requests) |-> Line(requests[k])]
  BY <1>1 DEF Written, Each, Line
<1>3. Bytes = [k \in 1..Len(requests) |-> Record(requests[k])]
  BY <1>1 DEF Bytes, Each, Record
<1>4. ParseAssembly(Written) = [k \in 1..Len(requests) |-> ParseLine(Line(requests[k]))]
  BY <1>2 DEF ParseAssembly, Each
<1>5. DecodeBinary(Bytes) = [k \in 1..Len(requests) |-> DecodeBytes(Record(requests[k]))]
  BY <1>3 DEF DecodeBinary, Each
<1>6. QED
  BY <1>2, <1>3, <1>4, <1>5

LEMMA HaltedTyped ==
    ASSUME NEW cpu, Typed(cpu), NEW value
    PROVE  Typed([cpu EXCEPT !.halted = value])
BY DEF Typed, Fields

LEMMA StepsAgree ==
    ASSUME requests \in Seq(Requests), NEW cpu, Typed(cpu)
    PROVE  /\ Step(cpu, DecodeBinary(Bytes)) = Step(cpu, ParseAssembly(Written))
           /\ Typed(Step(cpu, ParseAssembly(Written)))
           /\ Fits => Step(cpu, ParseAssembly(Written)) = Carry(cpu)
<1> DEFINE parsed == ParseAssembly(Written)
           decoded == DecodeBinary(Bytes)
<1>1. Len(parsed) = Len(requests) /\ Len(decoded) = Len(requests) /\ Len(requests) \in Nat
  BY Programs
<1>2. CASE cpu.halted \/ cpu.pc >= Len(requests)
  <2>1. /\ Step(cpu, parsed) = [cpu EXCEPT !.halted = TRUE]
        /\ Step(cpu, decoded) = [cpu EXCEPT !.halted = TRUE]
        /\ Carry(cpu) = [cpu EXCEPT !.halted = TRUE]
    BY <1>1, <1>2, Zenon DEF Step, Carry
  <2>2. Typed([cpu EXCEPT !.halted = TRUE])
    BY HaltedTyped
  <2>3. QED
    BY <2>1, <2>2, Zenon
<1>3. CASE ~(cpu.halted \/ cpu.pc >= Len(requests))
  <2> DEFINE k == cpu.pc + 1
             request == requests[k]
             after == Execute(cpu, parsed[k])
             over == after.pc >= Len(requests)
  <2>1. k \in 1..Len(requests)
    BY <1>1, <1>3 DEF Typed
  <2>2. request \in Requests
    BY <2>1
  <2>3. parsed[k] = ParseLine(Line(request)) /\ decoded[k] = DecodeBytes(Record(request))
    BY <2>1, Programs
  <2>4. /\ Execute(cpu, decoded[k]) = after
        /\ Typed(after)
        /\ FitsIn(request) => after = Perform(cpu, request)
    BY <2>2, <2>3, InstructionsAgree DEF Line, Record
  <2>5. Fits => FitsIn(request)
    BY <2>1 DEF Fits, FitsIn
  <2>6. /\ Step(cpu, parsed) = [after EXCEPT !.halted = over]
        /\ Step(cpu, decoded) = [after EXCEPT !.halted = over]
    BY <1>1, <1>3, <2>4, Zenon DEF Step
  <2>7. Fits => Carry(cpu) = [after EXCEPT !.halted = over]
    BY <1>3, <2>4, <2>5, Zenon DEF Carry
  <2>8. Typed([after EXCEPT !.halted = over])
    <3> HIDE DEF after, over
    <3>1. QED
      BY <2>4, HaltedTyped
  <2>9. QED
    BY <2>6, <2>7, <2>8, Zenon
<1>4. QED
  BY <1>2, <1>3

-----------------------------------------------------------------------------
(* The inductive invariant *)

FilesWritten ==
    /\ requests \in Seq(Requests)
    /\ phase \in {"emitting", "running"}
    /\ phase = "emitting" => /\ text = <<>> /\ binary = <<>>
                             /\ intended = Zeroed /\ textCpu = Zeroed
    /\ phase = "running" => text = Written /\ binary = Bytes

Together ==
    /\ Typed(textCpu)
    /\ binaryCpu = textCpu
    /\ Fits => textCpu = intended

Inv == FilesWritten /\ Together

LEMMA ZeroedTyped == Typed(Zeroed)
<1>1. 0 \in Word
  BY ByteIsWord
<1>2. QED
  BY <1>1 DEF Zeroed, Typed, Fields

LEMMA SameRequests ==
    ASSUME requests' = requests
    PROVE  Written' = Written /\ Bytes' = Bytes /\ Fits' = Fits
<1>1. Written' = Written
  BY DEF Written, Each
<1>2. Bytes' = Bytes
  BY DEF Bytes, Each
<1>3. Fits' = Fits
  BY DEF Fits
<1>4. QED
  BY <1>1, <1>2, <1>3

LEMMA InvHolds == Spec => []Inv
<1>1. Init => Inv
  <2>1. Init => requests \in Seq(Requests)
    BY DEF Init
  <2>2. QED
    BY <2>1, ZeroedTyped, Zenon DEF Init, Inv, FilesWritten, Together
<1>2. Inv /\ [Next]_vars => Inv'
  <2> SUFFICES ASSUME Inv, [Next]_vars PROVE Inv'
    OBVIOUS
  <2> USE DEF Inv
  <2>1. CASE Emit
    <3>1. PICK request \in Requests : requests' = Append(requests, request)
      BY <2>1 DEF Emit
    <3>2. requests' \in Seq(Requests)
      BY <3>1 DEF FilesWritten
    <3>3. FilesWritten'
      BY <2>1, <3>2 DEF Emit, FilesWritten
    <3>4. Together'
      BY <2>1 DEF Emit, FilesWritten, Together
    <3>5. QED
      BY <3>3, <3>4
  <2>2. CASE Write
    <3>1. Written' = Written /\ Bytes' = Bytes /\ Fits' = Fits
      BY <2>2, SameRequests DEF Write
    <3>2. FilesWritten'
      BY <2>2, <3>1 DEF Write, FilesWritten
    <3>3. Together'
      BY <2>2, <3>1 DEF Write, Together
    <3>4. QED
      BY <3>2, <3>3
  <2>3. CASE StepBoth
    <3>1. /\ phase = "running" /\ text = Written /\ binary = Bytes
          /\ requests \in Seq(Requests)
      BY <2>3 DEF StepBoth, Running, FilesWritten
    <3>2. Written' = Written /\ Bytes' = Bytes /\ Fits' = Fits
      BY <2>3, SameRequests DEF StepBoth
    <3>3. FilesWritten'
      BY <2>3, <3>1, <3>2 DEF StepBoth, FilesWritten
    <3>4. /\ intended' = Carry(intended)
          /\ textCpu' = Step(textCpu, ParseAssembly(Written))
          /\ binaryCpu' = Step(textCpu, DecodeBinary(Bytes))
      BY <2>3, <3>1 DEF StepBoth, Together
    <3>5. Together'
      BY <3>1, <3>2, <3>4, StepsAgree DEF Together
    <3>6. QED
      BY <3>3, <3>5
  <2>4. CASE UNCHANGED vars
    <3>1. Written' = Written /\ Bytes' = Bytes /\ Fits' = Fits
      BY <2>4, SameRequests DEF vars
    <3>2. QED
      BY <2>4, <3>1 DEF vars, FilesWritten, Together
  <2>5. QED
    BY <2>1, <2>2, <2>3, <2>4 DEF Next, Finished
<1>3. QED
  BY <1>1, <1>2, PTL DEF Spec

-----------------------------------------------------------------------------
(* The text and the binary file of any program are the same program to the  *)
(* page: every line is accepted and the machines never differ.              *)
THEOREM FilesAgree == Spec => []SameExecution
<1>1. Inv => SameExecution
  <2> SUFFICES ASSUME Inv PROVE SameExecution
    OBVIOUS
  <2>1. \A k \in DOMAIN text : Readable(text[k])
    <3>1. CASE phase = "emitting"
      <4>1. text = <<>>
        BY <3>1 DEF Inv, FilesWritten
      <4>2. QED
        BY <4>1
    <3>2. CASE phase = "running"
      <4>1. text = [k \in 1..Len(requests) |-> Line(requests[k])] /\ requests \in Seq(Requests)
        BY <3>2, Programs DEF Inv, FilesWritten
      <4>2. \A request \in Requests : Readable(Line(request))
        BY RequestsFaithful DEF Faithful, Arrival, Line
      <4>3. QED
        BY <4>1, <4>2
    <3>3. QED
      BY <3>1, <3>2 DEF Inv, FilesWritten
  <2>2. QED
    BY <2>1 DEF Inv, Together, SameExecution
<1>2. QED
  BY <1>1, InvHolds, PTL

(* A program whose jump targets fit a byte is executed as the code          *)
(* generator meant it.                                                      *)
THEOREM ProgramsAreExecuted == Spec => []ExecutesAsAsked
<1>1. Inv => ExecutesAsAsked
  BY DEF Inv, Together, ExecutesAsAsked
<1>2. QED
  BY <1>1, InvHolds, PTL

(* The text the editor shows for a loaded binary loads as that binary.      *)
THEOREM EditorShowsTheProgram == Spec => []EditorKeepsBinary
<1>1. Inv => EditorKeepsBinary
  <2> SUFFICES ASSUME Inv PROVE EditorKeepsBinary
    OBVIOUS
  <2> DEFINE program == DecodeBinary(binary)
  <2>1. \A k \in DOMAIN program : Editable(program[k])
    <3>1. CASE phase = "emitting"
      <4>1. program = [k \in DOMAIN <<>> |-> DecodeBytes(<<>>[k])]
        BY <3>1 DEF Inv, FilesWritten, DecodeBinary, Each
      <4>2. QED
        BY <4>1
    <3>2. CASE phase = "running"
      <4>1. program = [k \in 1..Len(requests) |-> DecodeBytes(Record(requests[k]))]
        BY <3>2, Programs DEF Inv, FilesWritten
      <4>2. requests \in Seq(Requests)
        BY DEF Inv, FilesWritten
      <4>3. \A request \in Requests : Editable(DecodeBytes(Record(request)))
        BY RequestsFaithful DEF Faithful, Arrival, Record
      <4>4. QED
        BY <4>1, <4>2, <4>3
    <3>3. QED
      BY <3>1, <3>2 DEF Inv, FilesWritten
  <2>2. program = [k \in DOMAIN program |-> program[k]]
    BY DEF DecodeBinary, Each
  <2> HIDE DEF program
  <2> DEFINE editor == Each(FormatInstruction, program)
  <2>3. editor = [k \in DOMAIN program |-> FormatInstruction(program[k])]
    BY DEF Each
  <2>4. \A k \in DOMAIN editor : Readable(editor[k])
    BY <2>1, <2>3 DEF Editable
  <2>5. ParseAssembly(editor) = program
    <3>1. ParseAssembly(editor) = [k \in DOMAIN editor |-> ParseLine(editor[k])]
      BY DEF ParseAssembly, Each
    <3>2. QED
      BY <2>1, <2>2, <2>3, <3>1 DEF Editable
  <2>6. QED
    BY <2>4, <2>5 DEF EditorKeepsBinary, program, editor
<1>2. QED
  BY <1>1, InvHolds, PTL
===============================================================================
