---------------------------- MODULE MachineProofs ----------------------------
(***************************************************************************)
(* What the instructions and the descriptor operations may change, for     *)
(* every number of registers and every word size: the facts the proofs     *)
(* about the code generator rest on.                                       *)
(***************************************************************************)
EXTENDS Machine, TLAPS

-----------------------------------------------------------------------------
(* The register file and the machine *)

(* The special registers of registers.h are registers, none of them general. *)
LEMMA RegisterNumbers ==
    /\ General \subseteq Registers
    /\ {REG_RETURN, REG_TMP, REG_SP, REG_FP, REG_RA} \subseteq Registers \ General
    /\ REG_NO_MEMORY \notin Nat
BY LastGeneralAssumption, SMT
   DEF General, Registers, REG_RETURN, REG_TMP, REG_SP, REG_FP, REG_RA, REG_FIRST_GENERAL,
       REG_LAST_GENERAL, REG_NO_MEMORY

(* byte() of app.js always gives a word, and leaves words alone.            *)
LEMMA ByteIsWord ==
    /\ \A value \in Int : Byte(value) \in Word
    /\ \A value \in Word : Byte(value) = value
    /\ Word \subseteq Nat /\ 0 \in Word
BY WordSizeAssumption, LastGeneralAssumption, SMT DEF Byte, Word

(* Each binary opcode of step() computes an integer from two words.         *)
LEMMA AluIsInteger ==
    ASSUME NEW op \in AllBinaryOps, NEW a \in Word, NEW b \in Word
    PROVE  Alu(op, a, b) \in Int
<1>1. a \in Int /\ b \in Int
  BY ByteIsWord
<1>2. a * b \in Int
  BY <1>1, SMT
<1>3. b # 0 => a \div b \in Int
  BY <1>1, ByteIsWord, SMT
<1>4. CASE op \in {"ADD", "SUB", "MUL", "DIV"}
  BY <1>1, <1>2, <1>3, <1>4, SMT DEF Alu
<1>5. CASE op \in {"LT", "GT", "LEQ", "GEQ", "EQ", "NEQ", "AND", "OR"}
  BY <1>1, <1>5, SMT DEF Alu, Truth
<1>6. QED
  BY <1>4, <1>5 DEF AllBinaryOps

(* Writing a register changes no other register and no memory.              *)
LEMMA SetRegisterType ==
    ASSUME NEW machine \in MachineStates, NEW reg \in Registers, NEW value \in Int
    PROVE  /\ SetRegister(machine, reg, value) \in MachineStates
           /\ SetRegister(machine, reg, value).m = machine.m
           /\ SetRegister(machine, reg, value).r[reg] = Byte(value)
           /\ \A other \in Registers \ {reg} :
                  SetRegister(machine, reg, value).r[other] = machine.r[other]
BY ByteIsWord DEF SetRegister, MachineStates

(* Writing a cell changes no register and no other cell.                    *)
LEMMA SetCellType ==
    ASSUME NEW machine \in MachineStates, NEW address \in Word, NEW value \in Word
    PROVE  /\ SetCell(machine, address, value) \in MachineStates
           /\ SetCell(machine, address, value).r = machine.r
           /\ SetCell(machine, address, value).m = [machine.m EXCEPT ![address] = value]
BY DEF SetCell, MachineStates

LEMMA MachineParts ==
    ASSUME NEW machine \in MachineStates
    PROVE  /\ \A reg \in Registers : machine.r[reg] \in Word /\ machine.r[reg] \in Int
           /\ \A a \in Word : machine.m[a] \in Word /\ machine.m[a] \in Int
<1>1. machine.r \in [Registers -> Word] /\ machine.m \in [Word -> Word]
  BY DEF MachineStates
<1>2. \A value \in Word : value \in Int
  BY ByteIsWord
<1>3. QED
  BY <1>1, <1>2

(* The instructions, one by one: what each may change.                      *)
LEMMA InstructionTypes ==
    ASSUME NEW machine \in MachineStates, NEW reg \in Registers
    PROVE  /\ \A value \in Int : /\ Afc(machine, reg, value) \in MachineStates
                                /\ Load(machine, reg, value) \in MachineStates
                                /\ Store(machine, value, reg) \in MachineStates
           /\ \A from \in Registers : /\ Cop(machine, reg, from) \in MachineStates
                                     /\ Not(machine, reg, from) \in MachineStates
                                     /\ LoadR(machine, reg, from) \in MachineStates
                                     /\ StoreR(machine, reg, from) \in MachineStates
           /\ \A op \in AllBinaryOps, a, b \in Registers :
                  Ternary(machine, op, reg, a, b) \in MachineStates
<1>1. ASSUME NEW value \in Int
      PROVE  /\ Afc(machine, reg, value) \in MachineStates
             /\ Load(machine, reg, value) \in MachineStates
             /\ Store(machine, value, reg) \in MachineStates
  <2>1. Byte(value) \in Word /\ machine.m[Byte(value)] \in Int /\ machine.r[reg] \in Word
    BY MachineParts, ByteIsWord
  <2>2. QED
    BY <2>1, SetRegisterType, SetCellType DEF Afc, Load, Store
<1>2. ASSUME NEW from \in Registers
      PROVE  /\ Cop(machine, reg, from) \in MachineStates
             /\ Not(machine, reg, from) \in MachineStates
             /\ LoadR(machine, reg, from) \in MachineStates
             /\ StoreR(machine, reg, from) \in MachineStates
  <2>1. /\ machine.r[from] \in Word /\ machine.r[from] \in Int
        /\ machine.r[reg] \in Word
        /\ machine.m[machine.r[from]] \in Int
    BY MachineParts, ByteIsWord
  <2>2. Truth(machine.r[from] = 0) \in Int
    BY SMT DEF Truth
  <2>3. QED
    BY <2>1, <2>2, SetRegisterType, SetCellType DEF Cop, Not, LoadR, StoreR
<1>3. ASSUME NEW op \in AllBinaryOps, NEW a \in Registers, NEW b \in Registers
      PROVE  Ternary(machine, op, reg, a, b) \in MachineStates
  BY MachineParts, AluIsInteger, SetRegisterType DEF Ternary
<1>4. QED
  BY <1>1, <1>2, <1>3

(* The fixed sequences: local addresses, pushes, prefix and suffix.         *)
LEMMA SequenceTypes ==
    ASSUME NEW machine \in MachineStates
    PROVE  /\ \A offset \in Int : ComputeLocalAddress(machine, offset) \in MachineStates
           /\ StackPush(machine) \in MachineStates
           /\ StackPop(machine) \in MachineStates
           /\ FunctionPrefix(machine) \in MachineStates
           /\ FunctionSuffix(machine) \in MachineStates
<1>1. {REG_TMP, REG_SP, REG_FP, REG_RA} \subseteq Registers /\ 1 \in Int
  BY RegisterNumbers
<1>2. {"ADD", "SUB"} \subseteq AllBinaryOps
  BY DEF AllBinaryOps
<1>3. \A m \in MachineStates : StackPush(m) \in MachineStates /\ StackPop(m) \in MachineStates
  BY <1>1, <1>2, InstructionTypes DEF StackPush, StackPop
<1>4. \A offset \in Int : ComputeLocalAddress(machine, offset) \in MachineStates
  BY <1>1, <1>2, InstructionTypes DEF ComputeLocalAddress
<1>5. FunctionPrefix(machine) \in MachineStates
  BY <1>1, <1>3, InstructionTypes DEF FunctionPrefix
<1>6. FunctionSuffix(machine) \in MachineStates
  BY <1>1, <1>3, InstructionTypes DEF FunctionSuffix
<1>7. QED
  BY <1>3, <1>4, <1>5, <1>6

-----------------------------------------------------------------------------
(* Wrapping arithmetic *)

LEMMA DivisionWithRemainder ==
    ASSUME NEW w \in Nat \ {0}, NEW a \in Int
    PROVE  a % w \in 0..(w - 1) /\ a \div w \in Int /\ a = w * (a \div w) + (a % w)
OBVIOUS

LEMMA SmallMultiple ==
    ASSUME NEW w \in Nat \ {0}, NEW k \in Int, w * k < w, -w < w * k
    PROVE  k = 0
<1>1. k >= 1 => w * k >= w
  OBVIOUS
<1>2. k <= -1 => w * k <= -w
  OBVIOUS
<1>3. QED
  BY <1>1, <1>2

LEMMA RemainderIsUnique ==
    ASSUME NEW w \in Nat \ {0}, NEW q \in Int, NEW p \in Int,
           NEW x \in 0..(w - 1), NEW y \in 0..(w - 1), w * p + x = w * q + y
    PROVE  x = y
<1>1. w * (p - q) = y - x
  OBVIOUS
<1>2. p - q = 0
  BY <1>1, SmallMultiple
<1>3. w * (p - q) = 0
  BY <1>2
<1>4. QED
  BY <1>1, <1>3

(* A sum may be truncated to a word at every step or once at the end.       *)
LEMMA ByteOfSum ==
    ASSUME NEW a \in Int, NEW b \in Int
    PROVE  Byte(Byte(a) + b) = Byte(a + b)
<1> DEFINE w == WordSize
           c == (a % w) + b
<1> SUFFICES c % w = (a + b) % w
  BY DEF Byte
<1>0. w \in Nat \ {0}
  BY WordSizeAssumption, LastGeneralAssumption
<1> HIDE DEF w
<1>1. a % w \in Int /\ c \in Int /\ a + b \in Int
  BY <1>0, DivisionWithRemainder
<1>2. c % w \in 0..(w - 1) /\ (a + b) % w \in 0..(w - 1)
  BY <1>0, <1>1, DivisionWithRemainder
<1>3. c = w * (c \div w) + (c % w) /\ c \div w \in Int
  BY <1>0, <1>1, DivisionWithRemainder
<1>4. a + b = w * ((a + b) \div w) + ((a + b) % w) /\ ((a + b) \div w) \in Int
  BY <1>0, <1>1, DivisionWithRemainder
<1>5. a + b = w * (a \div w) + c /\ a \div w \in Int
  BY <1>0, DivisionWithRemainder
<1> HIDE DEF c
<1>6. w * (a \div w) + w * (c \div w) = w * ((a \div w) + (c \div w))
  BY <1>0, <1>3, <1>5
<1>7. w * ((a \div w) + (c \div w)) + (c % w) = w * ((a + b) \div w) + ((a + b) % w)
  BY <1>0, <1>1, <1>2, <1>3, <1>4, <1>5, <1>6
<1>8. (a \div w) + (c \div w) \in Int
  BY <1>3, <1>5
<1>9. QED
  BY <1>0, <1>2, <1>4, <1>7, <1>8, RemainderIsUnique

-----------------------------------------------------------------------------
(* What the sequences do to sp, fp and the general registers *)

(* An instruction writes one register and leaves memory alone.              *)
LEMMA RegisterInstructions ==
    ASSUME NEW machine \in MachineStates, NEW reg \in Registers, NEW from \in Registers,
           NEW value \in Int, NEW after,
           \/ after = Afc(machine, reg, value)
           \/ after = Cop(machine, reg, from)
           \/ after = Not(machine, reg, from)
           \/ after = Load(machine, reg, value)
           \/ after = LoadR(machine, reg, from)
           \/ \E op \in AllBinaryOps, a, b \in Registers : after = Ternary(machine, op, reg, a, b)
    PROVE  /\ after \in MachineStates
           /\ after.m = machine.m
           /\ \A other \in Registers \ {reg} : after.r[other] = machine.r[other]
<1>1. \A v \in Int : /\ SetRegister(machine, reg, v) \in MachineStates
                     /\ SetRegister(machine, reg, v).m = machine.m
                     /\ \A other \in Registers \ {reg} :
                            SetRegister(machine, reg, v).r[other] = machine.r[other]
  BY SetRegisterType
<1>2. /\ machine.r[from] \in Word /\ machine.r[from] \in Int
      /\ machine.m[Byte(value)] \in Int
      /\ machine.m[machine.r[from]] \in Int
  BY MachineParts, ByteIsWord
<1>3. CASE after = Afc(machine, reg, value)
  BY <1>1, <1>3 DEF Afc
<1>4. CASE after = Cop(machine, reg, from)
  BY <1>1, <1>2, <1>4 DEF Cop
<1>5. CASE after = Not(machine, reg, from)
  <2>1. Truth(machine.r[from] = 0) \in Int
    BY SMT DEF Truth
  <2>2. QED
    BY <1>1, <1>5, <2>1 DEF Not
<1>6. CASE after = Load(machine, reg, value)
  BY <1>1, <1>2, <1>6 DEF Load
<1>7. CASE after = LoadR(machine, reg, from)
  BY <1>1, <1>2, <1>7 DEF LoadR
<1>8. CASE \E op \in AllBinaryOps, a, b \in Registers : after = Ternary(machine, op, reg, a, b)
  <2>1. PICK op \in AllBinaryOps, a \in Registers, b \in Registers :
            after = Ternary(machine, op, reg, a, b)
    BY <1>8
  <2>2. Alu(op, machine.r[a], machine.r[b]) \in Int
    BY MachineParts, AluIsInteger
  <2>3. QED
    BY <1>1, <2>1, <2>2 DEF Ternary
<1>9. QED
  BY <1>3, <1>4, <1>5, <1>6, <1>7, <1>8

(* A push moves sp one cell down; besides tmp nothing else changes.         *)
LEMMA StackPushEffect ==
    ASSUME NEW machine \in MachineStates
    PROVE  /\ StackPush(machine) \in MachineStates
           /\ StackPush(machine).m = machine.m
           /\ StackPush(machine).r[REG_SP] = Byte(machine.r[REG_SP] - 1)
           /\ \A other \in Registers \ {REG_SP, REG_TMP} :
                  StackPush(machine).r[other] = machine.r[other]
<1> DEFINE one == Afc(machine, REG_TMP, 1)
<1>1. {REG_TMP, REG_SP} \subseteq Registers /\ REG_TMP # REG_SP
  BY RegisterNumbers, LastGeneralAssumption DEF REG_TMP, REG_SP
<1>2. /\ one \in MachineStates /\ one.m = machine.m
      /\ \A other \in Registers \ {REG_TMP} : one.r[other] = machine.r[other]
      /\ one.r[REG_TMP] = 1
  <2>1. Byte(1) = 1
    BY WordSizeAssumption, LastGeneralAssumption, ByteIsWord DEF Word
  <2>2. QED
    BY <1>1, <2>1, SetRegisterType DEF Afc
<1>3. one.r[REG_SP] \in Int /\ Alu("SUB", one.r[REG_SP], one.r[REG_TMP]) = machine.r[REG_SP] - 1
  BY <1>1, <1>2, MachineParts DEF Alu
<1>4. StackPush(machine) = SetRegister(one, REG_SP, machine.r[REG_SP] - 1)
  <2>1. StackPush(machine) = Ternary(one, "SUB", REG_SP, REG_SP, REG_TMP)
    BY DEF StackPush
  <2> HIDE DEF one
  <2>2. QED
    BY <1>3, <2>1 DEF Ternary
<1>5. machine.r[REG_SP] - 1 \in Int
  BY <1>1, MachineParts
<1> HIDE DEF one
<1>6. /\ StackPush(machine) \in MachineStates
      /\ StackPush(machine).m = one.m
      /\ StackPush(machine).r[REG_SP] = Byte(machine.r[REG_SP] - 1)
      /\ \A other \in Registers \ {REG_SP} : StackPush(machine).r[other] = one.r[other]
  <2> DEFINE lower == machine.r[REG_SP] - 1
        after == SetRegister(one, REG_SP, lower)
  <2>1. lower \in Int /\ StackPush(machine) = after /\ REG_SP \in Registers
    BY <1>1, <1>4, <1>5
  <2>2. \A v \in Int : /\ SetRegister(one, REG_SP, v) \in MachineStates
                       /\ SetRegister(one, REG_SP, v).m = one.m
                       /\ SetRegister(one, REG_SP, v).r[REG_SP] = Byte(v)
                       /\ \A other \in Registers \ {REG_SP} :
                              SetRegister(one, REG_SP, v).r[other] = one.r[other]
    BY <1>2, <2>1, SetRegisterType
  <2>3. QED
    BY <2>1, <2>2, Zenon
<1>7. QED
  BY <1>2, <1>6

(* The address of a local goes to tmp and nowhere else.                     *)
LEMMA ComputeLocalAddressEffect ==
    ASSUME NEW machine \in MachineStates, NEW offset \in Int
    PROVE  /\ ComputeLocalAddress(machine, offset) \in MachineStates
           /\ ComputeLocalAddress(machine, offset).m = machine.m
           /\ \A other \in Registers \ {REG_TMP} :
                  ComputeLocalAddress(machine, offset).r[other] = machine.r[other]
<1> DEFINE loaded == Afc(machine, REG_TMP, offset)
<1>1. {REG_TMP, REG_FP} \subseteq Registers /\ "SUB" \in AllBinaryOps
  BY RegisterNumbers DEF AllBinaryOps
<1>2. /\ loaded \in MachineStates /\ loaded.m = machine.m
      /\ \A other \in Registers \ {REG_TMP} : loaded.r[other] = machine.r[other]
  BY <1>1, RegisterInstructions
<1>3. ComputeLocalAddress(machine, offset) = Ternary(loaded, "SUB", REG_TMP, REG_FP, REG_TMP)
  BY DEF ComputeLocalAddress
<1> HIDE DEF loaded
<1>4. QED
  BY <1>1, <1>2, <1>3, RegisterInstructions
==============================================================================
