---------------------------- MODULE FramesProofs -----------------------------
(***************************************************************************)
(* The memory of a running program is what its source says it is: the      *)
(* stack machine of Frames implements the activations of the abstract      *)
(* specification, for every number of registers, every word size, every    *)
(* program and any depth of calls.                                         *)
(*                                                                         *)
(* What the emitted loops do is settled first, each by a lemma about its   *)
(* turns; then the four sequences of a call and a return as a whole        *)
(* (CallEffect, ReturnEffect).                                             *)
(*                                                                         *)
(* The invariant is FramesInv.  TypeOK and StackBelowLocals do not keep    *)
(* themselves: a return loads sp, fp and the registers from cells, so one  *)
(* has to know that those cells still hold what the call put there.  Hence *)
(* Stacked: there are frame pointers F, from the top of memory down, each  *)
(* at a distance that the locals, registers and arguments of its caller    *)
(* fill exactly, and the cell over each holds the next one's.  No store to *)
(* a local, of whatever activation, reaches those cells (LocalsLie,        *)
(* SavedLie, StoreSeen).                                                   *)
(*                                                                         *)
(* Frames sees each activation through the saved fps; ViewFound shows that *)
(* this mapping finds F, and each action is then a step of Activations.    *)
(***************************************************************************)
EXTENDS Frames, MachineProofs, FiniteSetTheorems, WellFoundedInduction

-----------------------------------------------------------------------------
(* Loops *)

(* What holds of 0 and passes from one number to the next holds up to n.    *)
LEMMA FromZero ==
    ASSUME NEW n \in Nat, NEW S, 0 \in S, \A k \in 1..n : k - 1 \in S => k \in S
    PROVE  0..n \subseteq S
<1> DEFINE T == (0..n) \ S
<1>1. SUFFICES ASSUME T # {} PROVE FALSE
  OBVIOUS
<1>2. T \subseteq Nat
  OBVIOUS
<1>3. PICK x \in T : \A y \in T : ~(<<y, x>> \in OpToRel(<, Nat))
  BY <1>1, <1>2, NatLessThanWellFounded, WFMin
<1>4. \A y \in T : ~(y < x)
  BY <1>2, <1>3 DEF OpToRel
<1>5. x \in 1..n
  OBVIOUS
<1>6. x - 1 \in 0..n /\ x - 1 < x
  BY <1>5
<1>7. x - 1 \in S
  BY <1>4, <1>6
<1>8. QED
  BY <1>5, <1>7

(* A run of n turns from a, each given as a function.                       *)
TurnsOf(after, turn, n, a, S) ==
    /\ after \in [0..n -> S]
    /\ after[0] = a
    /\ \A i \in 1..n : after[i] = turn[i][after[i - 1]]

(* A loop whose turns map a set into itself runs through that set: there is *)
(* a function of the turns' results that starts at a and takes each turn    *)
(* once.                                                                    *)
LEMMA TurnsRun ==
    ASSUME NEW S, NEW n \in Nat, NEW a \in S, NEW turn \in [1..n -> [S -> S]]
    PROVE  \E after : TurnsOf(after, turn, n, a, S)
<1> DEFINE T == {k \in 0..n : \E after \in [0..k -> S] :
                     after[0] = a /\ \A i \in 1..k : after[i] = turn[i][after[i - 1]]}
<1>1. 0 \in T
  <2> DEFINE alone == [k \in 0..0 |-> a]
  <2>1. alone \in [0..0 -> S] /\ alone[0] = a /\ (\A i \in 1..0 : FALSE) /\ 0 \in 0..n
    OBVIOUS
  <2> HIDE DEF alone
  <2>2. QED
    BY <2>1
<1>2. ASSUME NEW k \in 1..n, k - 1 \in T PROVE k \in T
  <2>1. PICK after \in [0..(k - 1) -> S] :
            after[0] = a /\ \A i \in 1..(k - 1) : after[i] = turn[i][after[i - 1]]
    BY <1>2
  <2> DEFINE longer == [i \in 0..k |-> IF i = k THEN turn[k][after[k - 1]] ELSE after[i]]
  <2>2. k - 1 \in 0..(k - 1) /\ k \in 1..n /\ k \in Nat
    OBVIOUS
  <2>3. turn[k][after[k - 1]] \in S
    BY <2>2
  <2>4. \A i \in 0..k : i # k => i \in 0..(k - 1)
    BY <2>2
  <2>5. longer \in [0..k -> S]
    BY <2>3, <2>4
  <2>6. longer[0] = a
    BY <2>1, <2>2
  <2>7. ASSUME NEW i \in 1..k PROVE longer[i] = turn[i][longer[i - 1]]
    <3>1. longer[i - 1] = after[i - 1]
      BY <2>2
    <3>2. CASE i = k
      BY <3>1, <3>2
    <3>3. CASE i # k
      <4>1. i \in 1..(k - 1)
        BY <3>3
      <4>2. QED
        BY <2>1, <3>1, <3>3, <4>1
    <3>4. QED
      BY <3>2, <3>3
  <2> HIDE DEF longer
  <2>8. k \in 0..n
    OBVIOUS
  <2>9. QED
    BY <2>5, <2>6, <2>7, <2>8
<1>3. n \in T
  <2> HIDE DEF T
  <2>1. 0..n \subseteq T
    BY <1>1, <1>2, FromZero
  <2>2. QED
    BY <2>1
<1>4. QED
  BY <1>3 DEF TurnsOf

(* A run of turns: the machine before the first and behind each.            *)
IsRun(after, n, machine) == after \in [0..n -> MachineStates] /\ after[0] = machine

(* The registers a call saves are register numbers up to the last general   *)
(* one, which the scan of code_function_call reaches.                       *)
LEMMA KeptNumbers ==
    /\ REG_LAST_GENERAL \in Nat
    /\ \A kept \in SUBSET General : \A reg \in kept : reg \in General /\ reg \in Registers
BY LastGeneralAssumption, RegisterNumbers DEF REG_LAST_GENERAL

(* Pushing a register leaves a machine of words.                            *)
LEMMA PushType ==
    ASSUME NEW m \in MachineStates, NEW reg \in Registers
    PROVE  Push(m, reg) \in MachineStates
<1>1. StoreR(m, REG_SP, reg) \in MachineStates
  BY RegisterNumbers, InstructionTypes
<1>2. QED
  BY <1>1, SequenceTypes DEF Push

(* Loading a saved register back leaves a machine of words.                 *)
LEMMA RestoreType ==
    ASSUME NEW m \in MachineStates, NEW reg \in Registers
    PROVE  Restore(m, reg) \in MachineStates
<1>1. StackPop(m) \in MachineStates
  BY SequenceTypes
<1>2. QED
  BY <1>1, RegisterNumbers, InstructionTypes DEF Restore

(* Copying a parameter leaves a machine of words, whatever its offset.      *)
LEMMA CopyType ==
    ASSUME NEW m \in MachineStates, NEW n \in Int, NEW i \in Int
    PROVE  CopyParameter(m, n, i) \in MachineStates
<1> DEFINE offset == Afc(m, REG_TMP, n - i + 2)
           at == Ternary(offset, "ADD", REG_TMP, REG_FP, REG_TMP)
           loaded == LoadR(at, REG_FIRST_GENERAL, REG_TMP)
           local == ComputeLocalAddress(loaded, i)
           stored == StoreR(local, REG_TMP, REG_FIRST_GENERAL)
<1>1. {REG_TMP, REG_FP, REG_FIRST_GENERAL} \subseteq Registers /\ "ADD" \in AllBinaryOps
  BY RegisterNumbers, LastGeneralAssumption DEF AllBinaryOps, General, REG_FIRST_GENERAL, REG_LAST_GENERAL
<1>2. CopyParameter(m, n, i) = StackPush(stored)
  BY DEF CopyParameter
<1>3. offset \in MachineStates
  BY <1>1, InstructionTypes
<1> HIDE DEF offset
<1>4. at \in MachineStates
  BY <1>1, <1>3, InstructionTypes
<1> HIDE DEF at
<1>5. loaded \in MachineStates
  BY <1>1, <1>4, InstructionTypes
<1> HIDE DEF loaded
<1>6. local \in MachineStates
  BY <1>5, SequenceTypes
<1> HIDE DEF local
<1>7. stored \in MachineStates
  BY <1>1, <1>6, InstructionTypes
<1> HIDE DEF stored
<1>8. QED
  BY <1>2, <1>7, SequenceTypes

(* A run whose turns keep machines machines is one of machines.             *)
LEMMA RunIsTyped ==
    ASSUME NEW n \in Nat, NEW m \in MachineStates, NEW after,
           after = [i \in 0..n |-> after[i]], after[0] = m,
           \A i \in 1..n : after[i - 1] \in MachineStates => after[i] \in MachineStates
    PROVE  IsRun(after, n, m)
<1> DEFINE T == {i \in 0..n : after[i] \in MachineStates}
<1>1. 0 \in T /\ \A k \in 1..n : k - 1 \in T => k \in T
  OBVIOUS
<1>2. 0..n \subseteq T
  <2> HIDE DEF T
  <2>1. QED
    BY <1>1, FromZero
<1>3. QED
  BY <1>2 DEF IsRun

(* The loops of the generator's code: end_block and the calls' pops, the    *)
(* arguments, the saved registers, the parameters.                          *)
LEMMA PopsRun ==
    ASSUME NEW m \in MachineStates, NEW n \in Nat
    PROVE  \E after : /\ IsRun(after, n, m)
                      /\ \A i \in 1..n : after[i] = StackPop(after[i - 1])
                      /\ Pops(m, n) = after[n]
<1> DEFINE turn == [i \in 1..n |-> [x \in MachineStates |-> StackPop(x)]]
           Runs(f) == f = [i \in 0..n |-> IF i = 0 THEN m ELSE StackPop(f[i - 1])]
           after == CHOOSE f : Runs(f)
<1>1. ASSUME NEW i \in 1..n, NEW x \in MachineStates
      PROVE  (StackPop(x)) \in MachineStates
  BY SequenceTypes
<1>2. n \in Nat /\ turn \in [1..n -> [MachineStates -> MachineStates]]
  <2>1. n \in Nat
    OBVIOUS
  <2>2. QED
    BY <1>1, <2>1
<1>3. PICK f : TurnsOf(f, turn, n, m, MachineStates)
  <2> HIDE DEF turn
  <2>1. QED
    BY <1>2, TurnsRun
<1>4. ASSUME NEW i \in 1..n
      PROVE  f[i] = StackPop(f[i - 1])
  <2>1. f[i - 1] \in MachineStates
    BY <1>2, <1>3 DEF TurnsOf
  <2>2. f[i] = turn[i][f[i - 1]]
    BY <1>3 DEF TurnsOf
  <2>3. QED
    BY <2>1, <2>2
<1>5. Runs(f)
  BY <1>3, <1>4 DEF TurnsOf
<1>6. Runs(after)
  BY <1>5
<1>7. Pops(m, n) = after[n]
  BY DEF Pops, Loop
<1> HIDE DEF after
<1>8. after[0] = m /\ \A i \in 1..n : after[i] = StackPop(after[i - 1])
  BY <1>2, <1>6
<1>9. after = [i \in 0..n |-> after[i]]
  BY <1>6
<1>10. IsRun(after, n, m)
  <2>1. ASSUME NEW i \in 1..n, after[i - 1] \in MachineStates
        PROVE  after[i] \in MachineStates
    BY <1>1, <1>8, <2>1
  <2>2. QED
    BY <1>2, <1>8, <1>9, <2>1, RunIsTyped
<1>11. QED
  BY <1>7, <1>8, <1>10

(* Pushing the arguments is a run of one push for each of them.             *)
LEMMA PushAllRun ==
    ASSUME NEW m \in MachineStates, NEW regs \in Seq(Registers)
    PROVE  \E after : /\ IsRun(after, Len(regs), m)
                      /\ \A i \in 1..Len(regs) : after[i] = Push(after[i - 1], regs[i])
                      /\ PushAll(m, regs) = after[Len(regs)]
<1> DEFINE turn == [i \in 1..Len(regs) |-> [x \in MachineStates |-> Push(x, regs[i])]]
           Runs(f) == f = [i \in 0..Len(regs) |-> IF i = 0 THEN m ELSE Push(f[i - 1], regs[i])]
           after == CHOOSE f : Runs(f)
<1>1. ASSUME NEW i \in 1..Len(regs), NEW x \in MachineStates
      PROVE  (Push(x, regs[i])) \in MachineStates
  BY PushType
<1>2. Len(regs) \in Nat /\ turn \in [1..Len(regs) -> [MachineStates -> MachineStates]]
  <2>1. Len(regs) \in Nat
    OBVIOUS
  <2>2. QED
    BY <1>1, <2>1
<1>3. PICK f : TurnsOf(f, turn, Len(regs), m, MachineStates)
  <2> HIDE DEF turn
  <2>1. QED
    BY <1>2, TurnsRun
<1>4. ASSUME NEW i \in 1..Len(regs)
      PROVE  f[i] = Push(f[i - 1], regs[i])
  <2>1. f[i - 1] \in MachineStates
    BY <1>2, <1>3 DEF TurnsOf
  <2>2. f[i] = turn[i][f[i - 1]]
    BY <1>3 DEF TurnsOf
  <2>3. QED
    BY <2>1, <2>2
<1>5. Runs(f)
  BY <1>3, <1>4 DEF TurnsOf
<1>6. Runs(after)
  BY <1>5
<1>7. PushAll(m, regs) = after[Len(regs)]
  BY DEF PushAll, Loop
<1> HIDE DEF after
<1>8. after[0] = m /\ \A i \in 1..Len(regs) : after[i] = Push(after[i - 1], regs[i])
  BY <1>2, <1>6
<1>9. after = [i \in 0..Len(regs) |-> after[i]]
  BY <1>6
<1>10. IsRun(after, Len(regs), m)
  <2>1. ASSUME NEW i \in 1..Len(regs), after[i - 1] \in MachineStates
        PROVE  after[i] \in MachineStates
    BY <1>1, <1>8, <2>1
  <2>2. QED
    BY <1>2, <1>8, <1>9, <2>1, RunIsTyped
<1>11. QED
  BY <1>7, <1>8, <1>10

(* One turn of the scan that saves the registers, and of that that restores *)
(* them.                                                                    *)
SaveTurn(m, i, kept) == IF i \in kept THEN Push(m, i) ELSE m
RestoreTurn(m, i, kept) ==
    LET reg == REG_LAST_GENERAL + 1 - i IN IF reg \in kept THEN Restore(m, reg) ELSE m

(* Saving the registers is a run of the scan over the general ones.         *)
LEMMA SaveRun ==
    ASSUME NEW m \in MachineStates, NEW kept \in SUBSET General
    PROVE  \E after : /\ IsRun(after, REG_LAST_GENERAL, m)
                      /\ \A i \in 1..REG_LAST_GENERAL : after[i] = SaveTurn(after[i - 1], i, kept)
                      /\ SaveRegisters(m, kept) = after[REG_LAST_GENERAL]
<1> DEFINE turn == [i \in 1..REG_LAST_GENERAL |-> [x \in MachineStates |-> SaveTurn(x, i, kept)]]
           Runs(f) == f = [i \in 0..REG_LAST_GENERAL |-> IF i = 0 THEN m ELSE SaveTurn(f[i - 1], i, kept)]
           after == CHOOSE f : Runs(f)
<1>1. ASSUME NEW i \in 1..REG_LAST_GENERAL, NEW x \in MachineStates
      PROVE  SaveTurn(x, i, kept) \in MachineStates
  BY PushType, KeptNumbers DEF SaveTurn
<1>2. REG_LAST_GENERAL \in Nat /\ turn \in [1..REG_LAST_GENERAL -> [MachineStates -> MachineStates]]
  <2>1. REG_LAST_GENERAL \in Nat
    BY KeptNumbers
  <2>2. QED
    BY <1>1, <2>1
<1>3. PICK f : TurnsOf(f, turn, REG_LAST_GENERAL, m, MachineStates)
  <2> HIDE DEF turn
  <2>1. QED
    BY <1>2, TurnsRun
<1>4. ASSUME NEW i \in 1..REG_LAST_GENERAL
      PROVE  f[i] = SaveTurn(f[i - 1], i, kept)
  <2>1. f[i - 1] \in MachineStates
    BY <1>2, <1>3 DEF TurnsOf
  <2>2. f[i] = turn[i][f[i - 1]]
    BY <1>3 DEF TurnsOf
  <2>3. QED
    BY <2>1, <2>2
<1>5. Runs(f)
  BY <1>3, <1>4 DEF TurnsOf
<1>6. Runs(after)
  BY <1>5
<1>7. SaveRegisters(m, kept) = after[REG_LAST_GENERAL]
  BY DEF SaveRegisters, Loop, SaveTurn
<1> HIDE DEF after
<1>8. after[0] = m /\ \A i \in 1..REG_LAST_GENERAL : after[i] = SaveTurn(after[i - 1], i, kept)
  BY <1>2, <1>6
<1>9. after = [i \in 0..REG_LAST_GENERAL |-> after[i]]
  BY <1>6
<1>10. IsRun(after, REG_LAST_GENERAL, m)
  <2>1. ASSUME NEW i \in 1..REG_LAST_GENERAL, after[i - 1] \in MachineStates
        PROVE  after[i] \in MachineStates
    BY <1>1, <1>8, <2>1
  <2>2. QED
    BY <1>2, <1>8, <1>9, <2>1, RunIsTyped
<1>11. QED
  BY <1>7, <1>8, <1>10

(* Making the parameters local is a run of one copy for each of them.       *)
LEMMA ParametersRun ==
    ASSUME NEW m \in MachineStates, NEW n \in Nat
    PROVE  \E after : /\ IsRun(after, n, m)
                      /\ \A i \in 1..n : after[i] = CopyParameter(after[i - 1], n, i - 1)
                      /\ ParameterLocals(m, n) = after[n]
<1> DEFINE turn == [i \in 1..n |-> [x \in MachineStates |-> CopyParameter(x, n, i - 1)]]
           Runs(f) == f = [i \in 0..n |-> IF i = 0 THEN m ELSE CopyParameter(f[i - 1], n, i - 1)]
           after == CHOOSE f : Runs(f)
<1>1. ASSUME NEW i \in 1..n, NEW x \in MachineStates
      PROVE  (CopyParameter(x, n, i - 1)) \in MachineStates
  BY CopyType
<1>2. n \in Nat /\ turn \in [1..n -> [MachineStates -> MachineStates]]
  <2>1. n \in Nat
    OBVIOUS
  <2>2. QED
    BY <1>1, <2>1
<1>3. PICK f : TurnsOf(f, turn, n, m, MachineStates)
  <2> HIDE DEF turn
  <2>1. QED
    BY <1>2, TurnsRun
<1>4. ASSUME NEW i \in 1..n
      PROVE  f[i] = CopyParameter(f[i - 1], n, i - 1)
  <2>1. f[i - 1] \in MachineStates
    BY <1>2, <1>3 DEF TurnsOf
  <2>2. f[i] = turn[i][f[i - 1]]
    BY <1>3 DEF TurnsOf
  <2>3. QED
    BY <2>1, <2>2
<1>5. Runs(f)
  BY <1>3, <1>4 DEF TurnsOf
<1>6. Runs(after)
  BY <1>5
<1>7. ParameterLocals(m, n) = after[n]
  BY DEF ParameterLocals, Loop
<1> HIDE DEF after
<1>8. after[0] = m /\ \A i \in 1..n : after[i] = CopyParameter(after[i - 1], n, i - 1)
  BY <1>2, <1>6
<1>9. after = [i \in 0..n |-> after[i]]
  BY <1>6
<1>10. IsRun(after, n, m)
  <2>1. ASSUME NEW i \in 1..n, after[i - 1] \in MachineStates
        PROVE  after[i] \in MachineStates
    BY <1>1, <1>8, <2>1
  <2>2. QED
    BY <1>2, <1>8, <1>9, <2>1, RunIsTyped
<1>11. QED
  BY <1>7, <1>8, <1>10

(* Restoring the registers is a run of the scan from the last one down.     *)
LEMMA RestoreRun ==
    ASSUME NEW m \in MachineStates, NEW kept \in SUBSET General
    PROVE  \E after : /\ IsRun(after, REG_LAST_GENERAL, m)
                      /\ \A i \in 1..REG_LAST_GENERAL : after[i] = RestoreTurn(after[i - 1], i, kept)
                      /\ RestoreRegisters(m, kept) = after[REG_LAST_GENERAL]
<1> DEFINE turn == [i \in 1..REG_LAST_GENERAL |-> [x \in MachineStates |-> RestoreTurn(x, i, kept)]]
           Runs(f) == f = [i \in 0..REG_LAST_GENERAL |-> IF i = 0 THEN m ELSE RestoreTurn(f[i - 1], i, kept)]
           after == CHOOSE f : Runs(f)
<1>1. ASSUME NEW i \in 1..REG_LAST_GENERAL, NEW x \in MachineStates
      PROVE  RestoreTurn(x, i, kept) \in MachineStates
  BY RestoreType, KeptNumbers DEF RestoreTurn
<1>2. REG_LAST_GENERAL \in Nat /\ turn \in [1..REG_LAST_GENERAL -> [MachineStates -> MachineStates]]
  <2>1. REG_LAST_GENERAL \in Nat
    BY KeptNumbers
  <2>2. QED
    BY <1>1, <2>1
<1>3. PICK f : TurnsOf(f, turn, REG_LAST_GENERAL, m, MachineStates)
  <2> HIDE DEF turn
  <2>1. QED
    BY <1>2, TurnsRun
<1>4. ASSUME NEW i \in 1..REG_LAST_GENERAL
      PROVE  f[i] = RestoreTurn(f[i - 1], i, kept)
  <2>1. f[i - 1] \in MachineStates
    BY <1>2, <1>3 DEF TurnsOf
  <2>2. f[i] = turn[i][f[i - 1]]
    BY <1>3 DEF TurnsOf
  <2>3. QED
    BY <2>1, <2>2
<1>5. Runs(f)
  BY <1>3, <1>4 DEF TurnsOf
<1>6. Runs(after)
  BY <1>5
<1>7. RestoreRegisters(m, kept) = after[REG_LAST_GENERAL]
  BY DEF RestoreRegisters, Loop, RestoreTurn
<1> HIDE DEF after
<1>8. after[0] = m /\ \A i \in 1..REG_LAST_GENERAL : after[i] = RestoreTurn(after[i - 1], i, kept)
  BY <1>2, <1>6
<1>9. after = [i \in 0..REG_LAST_GENERAL |-> after[i]]
  BY <1>6
<1>10. IsRun(after, REG_LAST_GENERAL, m)
  <2>1. ASSUME NEW i \in 1..REG_LAST_GENERAL, after[i - 1] \in MachineStates
        PROVE  after[i] \in MachineStates
    BY <1>1, <1>8, <2>1
  <2>2. QED
    BY <1>2, <1>8, <1>9, <2>1, RunIsTyped
<1>11. QED
  BY <1>7, <1>8, <1>10
-----------------------------------------------------------------------------
(* What the instructions do while the stack stays inside the memory *)

Reserved == {REG_RETURN, REG_TMP, REG_SP, REG_FP, REG_RA}

(* The special registers are distinct, and none is a general one.           *)
LEMMA RegistersApart ==
    /\ Reserved \subseteq Registers /\ General \subseteq Registers
    /\ REG_FIRST_GENERAL \in General
    /\ \A reg \in General : reg \notin Reserved
    /\ REG_SP # REG_TMP /\ REG_SP # REG_FP /\ REG_SP # REG_RA /\ REG_SP # REG_RETURN
    /\ REG_FP # REG_TMP /\ REG_FP # REG_RA /\ REG_FP # REG_RETURN
    /\ REG_TMP # REG_RA /\ REG_TMP # REG_RETURN /\ REG_RA # REG_RETURN
BY LastGeneralAssumption, SMT
   DEF Reserved, General, Registers, REG_RETURN, REG_TMP, REG_SP, REG_FP, REG_RA,
       REG_FIRST_GENERAL, REG_LAST_GENERAL

(* A word is a number below the word size, and byte() leaves it alone.      *)
LEMMA Words ==
    /\ \A a : a \in Word <=> a \in Int /\ 0 <= a /\ a < WordSize
    /\ \A a \in Word : Byte(a) = a
    /\ 1 \in Word /\ WordSize \in Nat
BY ByteIsWord, WordSizeAssumption, LastGeneralAssumption DEF Word

(* No register but these changed.                                           *)
OnlyIn(regs, before, after) ==
    \A other \in Registers \ regs : after.r[other] = before.r[other]

(* An instruction gave one register a word and changed nothing else.        *)
Wrote(reg, value, before, after) ==
    /\ after \in MachineStates /\ after.m = before.m
    /\ after.r[reg] = value
    /\ OnlyIn({reg}, before, after)

(* What each instruction that writes a register writes: a constant, a copy, *)
(* a loaded cell, a sum that fits, a difference that is not negative.       *)
LEMMA RegisterWritten ==
    ASSUME NEW m \in MachineStates, NEW reg \in Registers
    PROVE  /\ \A value \in Word : Wrote(reg, value, m, Afc(m, reg, value))
           /\ \A from \in Registers : Wrote(reg, m.r[from], m, Cop(m, reg, from))
           /\ \A at \in Registers : Wrote(reg, m.m[m.r[at]], m, LoadR(m, reg, at))
           /\ \A a, b \in Registers :
                  /\ m.r[a] + m.r[b] < WordSize =>
                         Wrote(reg, m.r[a] + m.r[b], m, Ternary(m, "ADD", reg, a, b))
                  /\ m.r[b] <= m.r[a] =>
                         Wrote(reg, m.r[a] - m.r[b], m, Ternary(m, "SUB", reg, a, b))
<1>1. ASSUME NEW value \in Word
      PROVE  Wrote(reg, value, m, SetRegister(m, reg, value))
  <2>1. value \in Int /\ Byte(value) = value
    BY Words
  <2>2. QED
    BY <2>1, SetRegisterType DEF Wrote, OnlyIn
<1>2. \A from \in Registers : m.r[from] \in Word /\ m.m[m.r[from]] \in Word
  BY MachineParts
<1>3. ASSUME NEW a \in Registers, NEW b \in Registers
      PROVE  /\ Alu("ADD", m.r[a], m.r[b]) = m.r[a] + m.r[b]
             /\ Alu("SUB", m.r[a], m.r[b]) = m.r[a] - m.r[b]
  BY DEF Alu
<1>4. ASSUME NEW a \in Registers, NEW b \in Registers
      PROVE  /\ m.r[a] + m.r[b] < WordSize => m.r[a] + m.r[b] \in Word
             /\ m.r[b] <= m.r[a] => m.r[a] - m.r[b] \in Word
  <2>1. m.r[a] \in Word /\ m.r[b] \in Word
    BY <1>2
  <2>2. QED
    BY <2>1, Words
<1>5. \A value \in Word : Wrote(reg, value, m, Afc(m, reg, value))
  BY <1>1 DEF Afc
<1>6. \A from \in Registers : Wrote(reg, m.r[from], m, Cop(m, reg, from))
  BY <1>1, <1>2 DEF Cop
<1>7. \A at \in Registers : Wrote(reg, m.m[m.r[at]], m, LoadR(m, reg, at))
  BY <1>1, <1>2 DEF LoadR
<1>8. ASSUME NEW a \in Registers, NEW b \in Registers
      PROVE  /\ m.r[a] + m.r[b] < WordSize =>
                    Wrote(reg, m.r[a] + m.r[b], m, Ternary(m, "ADD", reg, a, b))
             /\ m.r[b] <= m.r[a] =>
                    Wrote(reg, m.r[a] - m.r[b], m, Ternary(m, "SUB", reg, a, b))
  BY <1>1, <1>3, <1>4 DEF Ternary
<1>9. QED
  BY <1>5, <1>6, <1>7, <1>8

(* With a cell left below, a stack push takes sp one down: it changes sp    *)
(* and tmp and no cell.                                                     *)
LEMMA StackPushMoves ==
    ASSUME NEW m \in MachineStates, m.r[REG_SP] >= 1
    PROVE  /\ StackPush(m) \in MachineStates /\ StackPush(m).m = m.m
           /\ StackPush(m).r[REG_SP] = m.r[REG_SP] - 1
           /\ OnlyIn({REG_SP, REG_TMP}, m, StackPush(m))
<1> DEFINE one == Afc(m, REG_TMP, 1)
<1>1. REG_TMP \in Registers /\ REG_SP \in Registers /\ REG_SP # REG_TMP
  BY RegistersApart DEF Reserved
<1>2. Wrote(REG_TMP, 1, m, one)
  BY <1>1, RegisterWritten, Words
<1>3. StackPush(m) = Ternary(one, "SUB", REG_SP, REG_SP, REG_TMP)
  BY DEF StackPush
<1> HIDE DEF one
<1>4. one.r[REG_SP] = m.r[REG_SP] /\ one.r[REG_TMP] = 1 /\ one \in MachineStates
  BY <1>1, <1>2 DEF Wrote, OnlyIn
<1>5. Wrote(REG_SP, m.r[REG_SP] - 1, one, StackPush(m))
  <2>1. one.r[REG_TMP] <= one.r[REG_SP]
    BY <1>4
  <2>2. QED
    BY <1>1, <1>3, <1>4, <2>1, RegisterWritten
<1>6. QED
  BY <1>1, <1>2, <1>5 DEF Wrote, OnlyIn

(* With a cell left above, a stack pop takes sp one up: it changes sp and   *)
(* tmp and no cell.                                                         *)
LEMMA StackPopMoves ==
    ASSUME NEW m \in MachineStates, m.r[REG_SP] + 1 < WordSize
    PROVE  /\ StackPop(m) \in MachineStates /\ StackPop(m).m = m.m
           /\ StackPop(m).r[REG_SP] = m.r[REG_SP] + 1
           /\ OnlyIn({REG_SP, REG_TMP}, m, StackPop(m))
<1> DEFINE one == Afc(m, REG_TMP, 1)
<1>1. REG_TMP \in Registers /\ REG_SP \in Registers /\ REG_SP # REG_TMP
  BY RegistersApart DEF Reserved
<1>2. Wrote(REG_TMP, 1, m, one)
  BY <1>1, RegisterWritten, Words
<1>3. StackPop(m) = Ternary(one, "ADD", REG_SP, REG_SP, REG_TMP)
  BY DEF StackPop
<1> HIDE DEF one
<1>4. one.r[REG_SP] = m.r[REG_SP] /\ one.r[REG_TMP] = 1 /\ one \in MachineStates
  BY <1>1, <1>2 DEF Wrote, OnlyIn
<1>5. Wrote(REG_SP, m.r[REG_SP] + 1, one, StackPop(m))
  <2>1. one.r[REG_SP] + one.r[REG_TMP] < WordSize
    BY <1>4
  <2>2. QED
    BY <1>1, <1>3, <1>4, <2>1, RegisterWritten
<1>6. QED
  BY <1>1, <1>2, <1>5 DEF Wrote, OnlyIn

(* A register pushed is found in the cell sp pointed to.                    *)
LEMMA PushEffect ==
    ASSUME NEW m \in MachineStates, NEW reg \in Registers, m.r[REG_SP] >= 1
    PROVE  /\ Push(m, reg) \in MachineStates
           /\ Push(m, reg).m = [m.m EXCEPT ![m.r[REG_SP]] = m.r[reg]]
           /\ Push(m, reg).r[REG_SP] = m.r[REG_SP] - 1
           /\ OnlyIn({REG_SP, REG_TMP}, m, Push(m, reg))
<1> DEFINE stored == StoreR(m, REG_SP, reg)
<1>1. REG_SP \in Registers /\ m.r[REG_SP] \in Word /\ m.r[reg] \in Word
  BY RegistersApart, MachineParts DEF Reserved
<1>2. /\ stored \in MachineStates /\ stored.r = m.r
      /\ stored.m = [m.m EXCEPT ![m.r[REG_SP]] = m.r[reg]]
  BY <1>1, SetCellType DEF StoreR
<1>3. Push(m, reg) = StackPush(stored)
  BY DEF Push
<1> HIDE DEF stored
<1>4. QED
  BY <1>2, <1>3, StackPushMoves DEF OnlyIn

(* A saved register is loaded from the cell above sp.                       *)
LEMMA RestoreEffect ==
    ASSUME NEW m \in MachineStates, NEW reg \in General, m.r[REG_SP] + 1 < WordSize
    PROVE  /\ Restore(m, reg) \in MachineStates /\ Restore(m, reg).m = m.m
           /\ Restore(m, reg).r[REG_SP] = m.r[REG_SP] + 1
           /\ Restore(m, reg).r[reg] = m.m[m.r[REG_SP] + 1]
           /\ OnlyIn({REG_SP, REG_TMP, reg}, m, Restore(m, reg))
<1> DEFINE popped == StackPop(m)
<1>1. reg \in Registers /\ REG_SP \in Registers /\ REG_SP # reg
  BY RegistersApart DEF Reserved
<1>2. /\ popped \in MachineStates /\ popped.m = m.m
      /\ popped.r[REG_SP] = m.r[REG_SP] + 1
      /\ OnlyIn({REG_SP, REG_TMP}, m, popped)
  BY StackPopMoves
<1>3. Restore(m, reg) = LoadR(popped, reg, REG_SP)
  BY DEF Restore
<1> HIDE DEF popped
<1>4. Wrote(reg, popped.m[popped.r[REG_SP]], popped, Restore(m, reg))
  BY <1>1, <1>2, <1>3, RegisterWritten
<1>5. QED
  BY <1>1, <1>2, <1>4 DEF Wrote, OnlyIn

(* The address of a local, fp less its offset, goes to tmp.                 *)
LEMMA LocalAddress ==
    ASSUME NEW m \in MachineStates, NEW i \in Nat, i <= m.r[REG_FP]
    PROVE  Wrote(REG_TMP, m.r[REG_FP] - i, m, ComputeLocalAddress(m, i))
<1> DEFINE loaded == Afc(m, REG_TMP, i)
<1>1. REG_TMP \in Registers /\ REG_FP \in Registers /\ REG_FP # REG_TMP
  BY RegistersApart DEF Reserved
<1>2. i \in Word
  <2>1. m.r[REG_FP] \in Word
    BY <1>1, MachineParts
  <2>2. QED
    BY <2>1, Words
<1>3. Wrote(REG_TMP, i, m, loaded)
  BY <1>1, <1>2, RegisterWritten
<1>4. ComputeLocalAddress(m, i) = Ternary(loaded, "SUB", REG_TMP, REG_FP, REG_TMP)
  BY DEF ComputeLocalAddress
<1> HIDE DEF loaded
<1>5. loaded.r[REG_FP] = m.r[REG_FP] /\ loaded.r[REG_TMP] = i /\ loaded \in MachineStates
  BY <1>1, <1>3 DEF Wrote, OnlyIn
<1>6. Wrote(REG_TMP, m.r[REG_FP] - i, loaded, ComputeLocalAddress(m, i))
  BY <1>1, <1>4, <1>5, RegisterWritten
<1>7. QED
  BY <1>1, <1>3, <1>6 DEF Wrote, OnlyIn
-----------------------------------------------------------------------------
(* What the emitted sequences do *)

(* n pops move sp up n cells.                                               *)
LEMMA PopsEffect ==
    ASSUME NEW m \in MachineStates, NEW n \in Nat, m.r[REG_SP] + n < WordSize
    PROVE  /\ Pops(m, n) \in MachineStates /\ Pops(m, n).m = m.m
           /\ Pops(m, n).r[REG_SP] = m.r[REG_SP] + n
           /\ OnlyIn({REG_SP, REG_TMP}, m, Pops(m, n))
<1>1. PICK after : /\ IsRun(after, n, m)
                   /\ \A i \in 1..n : after[i] = StackPop(after[i - 1])
                   /\ Pops(m, n) = after[n]
  BY PopsRun
<1>0. m.r[REG_SP] \in Int
  BY RegistersApart, MachineParts DEF Reserved
<1> DEFINE Good(i) == /\ after[i].m = m.m
                      /\ after[i].r[REG_SP] = m.r[REG_SP] + i
                      /\ OnlyIn({REG_SP, REG_TMP}, m, after[i])
           T == {i \in 0..n : Good(i)}
<1>2. 0 \in T
  BY <1>0, <1>1 DEF IsRun, OnlyIn
<1>3. ASSUME NEW k \in 1..n, k - 1 \in T PROVE k \in T
  <2>1. Good(k - 1) /\ after[k - 1] \in MachineStates /\ k \in 0..n /\ k \in Int
    BY <1>1, <1>3 DEF IsRun
  <2>2. after[k - 1].r[REG_SP] + 1 < WordSize
    BY <1>0, <2>1, Words
  <2>3. after[k] = StackPop(after[k - 1])
    BY <1>1
  <2>4. /\ after[k].m = after[k - 1].m
        /\ after[k].r[REG_SP] = after[k - 1].r[REG_SP] + 1
        /\ OnlyIn({REG_SP, REG_TMP}, after[k - 1], after[k])
    BY <2>1, <2>2, <2>3, StackPopMoves
  <2>5. after[k].r[REG_SP] = m.r[REG_SP] + k
    BY <1>0, <2>1, <2>4
  <2>6. OnlyIn({REG_SP, REG_TMP}, m, after[k])
    BY <2>1, <2>4 DEF OnlyIn
  <2>7. QED
    BY <2>1, <2>4, <2>5, <2>6
<1>4. n \in T
  <2> HIDE DEF T
  <2>1. 0..n \subseteq T
    BY <1>2, <1>3, FromZero
  <2>2. QED
    BY <2>1
<1>5. QED
  BY <1>1, <1>4 DEF IsRun

(* The prefix saves ra and fp in the two cells below the arguments and sets *)
(* fp below them.                                                           *)
LEMMA PrefixEffect ==
    ASSUME NEW m \in MachineStates, m.r[REG_SP] >= 2
    PROVE  LET sp == m.r[REG_SP]
               entered == FunctionPrefix(m)
           IN  /\ entered \in MachineStates
               /\ entered.m = [m.m EXCEPT ![sp] = m.r[REG_RA], ![sp - 1] = m.r[REG_FP]]
               /\ entered.r[REG_SP] = sp - 2 /\ entered.r[REG_FP] = sp - 2
               /\ OnlyIn({REG_SP, REG_TMP, REG_FP}, m, entered)
<1> DEFINE sp == m.r[REG_SP]
           raSaved == Push(m, REG_RA)
           fpSaved == Push(raSaved, REG_FP)
<1>1. {REG_RA, REG_FP, REG_SP, REG_TMP} \subseteq Registers /\ sp \in Int
  BY RegistersApart, MachineParts DEF Reserved
<1>2. FunctionPrefix(m) = Cop(fpSaved, REG_FP, REG_SP)
  BY DEF FunctionPrefix, Push
<1>3. /\ raSaved \in MachineStates /\ raSaved.m = [m.m EXCEPT ![sp] = m.r[REG_RA]]
      /\ raSaved.r[REG_SP] = sp - 1 /\ OnlyIn({REG_SP, REG_TMP}, m, raSaved)
  <2>1. m.r[REG_SP] >= 1 /\ REG_RA \in Registers
    BY <1>1
  <2>2. QED
    BY <2>1, PushEffect
<1> HIDE DEF raSaved
<1>4. raSaved.r[REG_FP] = m.r[REG_FP] /\ raSaved.r[REG_SP] >= 1
  BY <1>1, <1>3, RegistersApart DEF OnlyIn
<1>5. /\ fpSaved \in MachineStates
      /\ fpSaved.m = [raSaved.m EXCEPT ![sp - 1] = m.r[REG_FP]]
      /\ fpSaved.r[REG_SP] = sp - 1 - 1 /\ OnlyIn({REG_SP, REG_TMP}, raSaved, fpSaved)
  <2>1. /\ fpSaved \in MachineStates
        /\ fpSaved.m = [raSaved.m EXCEPT ![raSaved.r[REG_SP]] = raSaved.r[REG_FP]]
        /\ fpSaved.r[REG_SP] = raSaved.r[REG_SP] - 1
        /\ OnlyIn({REG_SP, REG_TMP}, raSaved, fpSaved)
    BY <1>1, <1>3, <1>4, PushEffect
  <2>2. QED
    BY <1>3, <1>4, <2>1
<1> HIDE DEF fpSaved
<1>6. Wrote(REG_FP, fpSaved.r[REG_SP], fpSaved, FunctionPrefix(m))
  BY <1>1, <1>2, <1>5, RegisterWritten
<1>7. FunctionPrefix(m).r[REG_SP] = sp - 2 /\ FunctionPrefix(m).r[REG_FP] = sp - 2
  <2>1. fpSaved.r[REG_SP] = sp - 2
    BY <1>1, <1>5
  <2>2. QED
    BY <1>1, <1>6, <2>1, RegistersApart DEF Wrote, OnlyIn
<1>8. OnlyIn({REG_SP, REG_TMP, REG_FP}, m, FunctionPrefix(m))
  BY <1>3, <1>5, <1>6 DEF Wrote, OnlyIn
<1>9. FunctionPrefix(m).m = [m.m EXCEPT ![sp] = m.r[REG_RA], ![sp - 1] = m.r[REG_FP]]
  BY <1>3, <1>5, <1>6 DEF Wrote
<1>10. FunctionPrefix(m) \in MachineStates
  BY <1>6 DEF Wrote
<1>11. QED
  BY <1>7, <1>8, <1>9, <1>10

(* The suffix finds both again, from fp.                                    *)
LEMMA SuffixEffect ==
    ASSUME NEW m \in MachineStates, m.r[REG_FP] + 2 < WordSize
    PROVE  LET fp == m.r[REG_FP]
               gone == FunctionSuffix(m)
           IN  /\ gone \in MachineStates /\ gone.m = m.m
               /\ gone.r[REG_SP] = fp + 2
               /\ gone.r[REG_FP] = m.m[fp + 1] /\ gone.r[REG_RA] = m.m[fp + 2]
               /\ OnlyIn({REG_SP, REG_TMP, REG_FP, REG_RA}, m, gone)
<1> DEFINE fp == m.r[REG_FP]
           based == Cop(m, REG_SP, REG_FP)
           popped == StackPop(based)
           fpLoaded == LoadR(popped, REG_FP, REG_SP)
           restored == StackPop(fpLoaded)
<1>1. {REG_RA, REG_FP, REG_SP, REG_TMP} \subseteq Registers /\ fp \in Int
  BY RegistersApart, MachineParts DEF Reserved
<1>2. FunctionSuffix(m) = LoadR(restored, REG_RA, REG_SP)
  BY DEF FunctionSuffix
<1>3. Wrote(REG_SP, fp, m, based)
  BY <1>1, RegisterWritten
<1> HIDE DEF based
<1>4. based.r[REG_SP] + 1 < WordSize /\ based \in MachineStates
  BY <1>1, <1>3, Words DEF Wrote
<1>5. /\ popped \in MachineStates /\ popped.m = m.m
      /\ popped.r[REG_SP] = fp + 1 /\ OnlyIn({REG_SP, REG_TMP}, based, popped)
  BY <1>3, <1>4, StackPopMoves DEF Wrote
<1> HIDE DEF popped
<1>6. Wrote(REG_FP, m.m[fp + 1], popped, fpLoaded)
  BY <1>1, <1>5, RegisterWritten
<1> HIDE DEF fpLoaded
<1>7. fpLoaded \in MachineStates /\ fpLoaded.m = m.m /\ fpLoaded.r[REG_SP] = fp + 1
  BY <1>1, <1>5, <1>6, RegistersApart DEF Wrote, OnlyIn
<1>8. fpLoaded.r[REG_SP] + 1 < WordSize
  BY <1>1, <1>7, Words
<1>9. /\ restored \in MachineStates /\ restored.m = m.m
      /\ restored.r[REG_SP] = fp + 1 + 1 /\ OnlyIn({REG_SP, REG_TMP}, fpLoaded, restored)
  BY <1>7, <1>8, StackPopMoves
<1> HIDE DEF restored
<1>10. Wrote(REG_RA, m.m[fp + 2], restored, FunctionSuffix(m))
  <2>1. restored.r[REG_SP] = fp + 2
    BY <1>1, <1>9
  <2>2. QED
    BY <1>1, <1>2, <1>9, <2>1, RegisterWritten
<1>11. FunctionSuffix(m).r[REG_SP] = fp + 2
  BY <1>1, <1>9, <1>10, RegistersApart DEF Wrote, OnlyIn
<1>12. FunctionSuffix(m).r[REG_FP] = m.m[fp + 1]
  <2>1. fpLoaded.r[REG_FP] = m.m[fp + 1]
    BY <1>6 DEF Wrote
  <2>2. restored.r[REG_FP] = fpLoaded.r[REG_FP]
    BY <1>1, <1>9, RegistersApart DEF OnlyIn
  <2>3. FunctionSuffix(m).r[REG_FP] = restored.r[REG_FP]
    BY <1>1, <1>10, RegistersApart DEF Wrote, OnlyIn
  <2>4. QED
    BY <2>1, <2>2, <2>3
<1>13. OnlyIn({REG_SP, REG_TMP, REG_FP, REG_RA}, m, FunctionSuffix(m))
  BY <1>3, <1>5, <1>6, <1>9, <1>10 DEF Wrote, OnlyIn
<1>14. QED
  BY <1>9, <1>10, <1>11, <1>12, <1>13 DEF Wrote
(* Arguments are pushed in order, the first one highest.                    *)
LEMMA PushAllEffect ==
    ASSUME NEW m \in MachineStates, NEW regs \in Seq(General), Len(regs) <= m.r[REG_SP]
    PROVE  LET sp == m.r[REG_SP]
               pushed == PushAll(m, regs)
           IN  /\ pushed \in MachineStates
               /\ pushed.r[REG_SP] = sp - Len(regs)
               /\ OnlyIn({REG_SP, REG_TMP}, m, pushed)
               /\ \A j \in 1..Len(regs) : pushed.m[sp - (j - 1)] = m.r[regs[j]]
               /\ \A a \in Word : a > sp => pushed.m[a] = m.m[a]
<1> DEFINE sp == m.r[REG_SP]
           n == Len(regs)
<1>0. n \in Nat /\ regs \in Seq(Registers) /\ \A j \in 1..n : regs[j] \in General
  BY RegistersApart
<1>1. PICK after : /\ IsRun(after, n, m)
                   /\ \A i \in 1..n : after[i] = Push(after[i - 1], regs[i])
                   /\ PushAll(m, regs) = after[n]
  BY <1>0, PushAllRun
<1>2. sp \in Word /\ sp \in Int /\ n <= sp
  BY RegistersApart, MachineParts DEF Reserved
<1> DEFINE Good(i) == /\ after[i].r[REG_SP] = sp - i
                      /\ OnlyIn({REG_SP, REG_TMP}, m, after[i])
                      /\ \A j \in 1..i : after[i].m[sp - (j - 1)] = m.r[regs[j]]
                      /\ \A a \in Word : a > sp => after[i].m[a] = m.m[a]
           T == {i \in 0..n : Good(i)}
<1> HIDE DEF n, sp
<1>3. 0 \in T
  <2>1. after[0] = m /\ m.r[REG_SP] = sp - 0
    BY <1>1, <1>2 DEF IsRun, sp
  <2>2. QED
    BY <1>0, <2>1 DEF OnlyIn
<1>4. ASSUME NEW k \in 1..n, k - 1 \in T PROVE k \in T
  <2>1. /\ Good(k - 1) /\ after[k - 1] \in MachineStates
        /\ k \in 0..n /\ k \in Int
    BY <1>0, <1>1, <1>4 DEF IsRun
  <2> DEFINE before == after[k - 1]
             cell == sp - (k - 1)
  <2>2. before \in MachineStates /\ before.r[REG_SP] = cell /\ cell >= 1 /\ cell \in Word
    <3>1. before \in MachineStates /\ before.r[REG_SP] = cell
      BY <2>1
    <3>2. k \in Int /\ 1 <= k /\ k <= n /\ n \in Int
      BY <1>0
    <3>3. cell >= 1 /\ cell <= sp /\ cell \in Int
      BY <1>2, <3>2
    <3>4. cell \in Word
      <4> HIDE DEF cell
      <4>1. QED
        BY <1>2, <3>3, Words
    <3>5. QED
      BY <3>1, <3>3, <3>4
  <2>3. /\ after[k].m = [before.m EXCEPT ![cell] = before.r[regs[k]]]
        /\ after[k].r[REG_SP] = cell - 1
        /\ OnlyIn({REG_SP, REG_TMP}, before, after[k])
    <3>1. after[k] = Push(before, regs[k]) /\ regs[k] \in Registers
      BY <1>0, <1>1, RegistersApart
    <3> HIDE DEF before, cell
    <3>2. /\ Push(before, regs[k]).m = [before.m EXCEPT ![before.r[REG_SP]] = before.r[regs[k]]]
          /\ Push(before, regs[k]).r[REG_SP] = before.r[REG_SP] - 1
          /\ OnlyIn({REG_SP, REG_TMP}, before, Push(before, regs[k]))
      BY <2>2, <3>1, PushEffect
    <3>3. QED
      BY <2>2, <3>1, <3>2
  <2>4. before.r[regs[k]] = m.r[regs[k]]
    BY <1>0, <2>1, RegistersApart DEF OnlyIn, Reserved
  <2>5. before.m \in [Word -> Word]
    BY <2>1 DEF MachineStates
  <2>6. OnlyIn({REG_SP, REG_TMP}, m, after[k])
    BY <2>1, <2>3 DEF OnlyIn
  <2>7. after[k].r[REG_SP] = sp - k
    BY <1>2, <2>1, <2>3
  <2>8. ASSUME NEW j \in 1..k PROVE after[k].m[sp - (j - 1)] = m.r[regs[j]]
    <3>1. sp - (j - 1) \in Word
      BY <1>0, <1>2, Words
    <3>2. CASE j = k
      BY <2>2, <2>3, <2>4, <2>5, <3>2
    <3>3. CASE j # k
      <4>1. j \in 1..(k - 1) /\ sp - (j - 1) # cell
        BY <1>2, <2>1, <3>3
      <4>2. before.m[sp - (j - 1)] = m.r[regs[j]]
        BY <2>1, <4>1
      <4>3. QED
        BY <2>3, <2>5, <3>1, <4>1, <4>2
    <3>4. QED
      BY <3>2, <3>3
  <2>9. ASSUME NEW a \in Word, a > sp PROVE after[k].m[a] = m.m[a]
    <3>1. a # cell /\ before.m[a] = m.m[a]
      BY <1>2, <2>1, <2>9, Words
    <3>2. QED
      BY <2>3, <2>5, <3>1
  <2>10. QED
    BY <2>1, <2>6, <2>7, <2>8, <2>9
<1>5. Good(n)
  <2>1. n \in T
    <3> HIDE DEF T
    <3>1. n \in Nat
      BY <1>0
    <3>2. 0..n \subseteq T
      BY <1>3, <1>4, <3>1, FromZero
    <3>3. QED
      BY <3>1, <3>2
  <2>2. QED
    BY <2>1
<1>6. PushAll(m, regs) = after[n] /\ after[n] \in MachineStates
  BY <1>0, <1>1 DEF IsRun
<1>7. QED
  BY <1>5, <1>6 DEF sp, n
(* copied has parameter i of n in its local's cell, taken from the          *)
(* argument's, and sp one lower.                                            *)
Copied(m, n, i, copied) ==
    /\ copied \in MachineStates
    /\ copied.m = [m.m EXCEPT ![m.r[REG_FP] - i] = m.m[m.r[REG_FP] + (n - i + 2)]]
    /\ copied.r[REG_SP] = m.r[REG_SP] - 1
    /\ OnlyIn({REG_SP, REG_TMP, REG_FIRST_GENERAL}, m, copied)

(* One parameter goes from the argument's cell to its local's.              *)
LEMMA CopyParameterEffect ==
    ASSUME NEW m \in MachineStates, NEW n \in Nat, NEW i \in 0..(n - 1),
           n <= m.r[REG_FP], m.r[REG_FP] + n + 2 < WordSize, m.r[REG_SP] >= 1
    PROVE  Copied(m, n, i, CopyParameter(m, n, i))
<1> DEFINE fp == m.r[REG_FP]
           sp == m.r[REG_SP]
           reg == REG_FIRST_GENERAL
           offset == Afc(m, REG_TMP, n - i + 2)
           at == Ternary(offset, "ADD", REG_TMP, REG_FP, REG_TMP)
           loaded == LoadR(at, reg, REG_TMP)
           local == ComputeLocalAddress(loaded, i)
           stored == StoreR(local, REG_TMP, reg)
           value == m.m[fp + (n - i + 2)]
<1>1. /\ {REG_FP, REG_SP, REG_TMP, reg} \subseteq Registers
      /\ REG_TMP # REG_FP /\ REG_TMP # REG_SP /\ REG_TMP # reg
      /\ reg # REG_FP /\ reg # REG_SP /\ REG_SP # REG_FP
  BY RegistersApart DEF Reserved
<1>2. fp \in Word /\ fp \in Int /\ sp \in Word /\ sp \in Int
  BY <1>1, MachineParts
<1>3. CopyParameter(m, n, i) = StackPush(stored)
  BY DEF CopyParameter
<1> HIDE DEF fp, sp, reg
<1>0. i \in Int /\ 0 <= i /\ i < n /\ i \in Nat /\ n <= fp /\ fp + n + 2 < WordSize /\ WordSize \in Int
  BY Words DEF fp
<1>4. n - i + 2 \in Word /\ fp + (n - i + 2) \in Word /\ fp - i \in Word /\ i <= fp
  BY <1>0, <1>2, Words
<1>5. Wrote(REG_TMP, n - i + 2, m, offset)
  BY <1>1, <1>4, RegisterWritten
<1> HIDE DEF offset
<1>6. Wrote(REG_TMP, fp + (n - i + 2), offset, at)
  <2>1. offset \in MachineStates /\ offset.r[REG_FP] = fp /\ offset.r[REG_TMP] = n - i + 2
    BY <1>1, <1>5 DEF Wrote, OnlyIn, fp
  <2>2. offset.r[REG_FP] + offset.r[REG_TMP] < WordSize
    BY <1>4, <2>1, Words
  <2>3. QED
    BY <1>1, <2>1, <2>2, RegisterWritten
<1> HIDE DEF at
<1>7. Wrote(reg, value, at, loaded)
  <2>1. at \in MachineStates /\ at.r[REG_TMP] = fp + (n - i + 2) /\ at.m = m.m
    BY <1>5, <1>6 DEF Wrote
  <2>2. QED
    BY <1>1, <2>1, RegisterWritten
<1> HIDE DEF loaded
<1>8. Wrote(REG_TMP, fp - i, loaded, local)
  <2>1. loaded \in MachineStates
    BY <1>7 DEF Wrote
  <2>2. loaded.r[REG_FP] = fp
    BY <1>1, <1>5, <1>6, <1>7 DEF Wrote, OnlyIn, fp
  <2>3. QED
    BY <1>0, <1>4, <2>1, <2>2, LocalAddress
<1> HIDE DEF local
<1>9. /\ local \in MachineStates /\ local.m = m.m /\ local.r[REG_TMP] = fp - i
      /\ local.r[reg] = value /\ local.r[REG_SP] = sp
      /\ OnlyIn({REG_TMP, reg}, m, local)
  <2>1. local \in MachineStates /\ local.m = m.m /\ local.r[REG_TMP] = fp - i
    BY <1>5, <1>6, <1>7, <1>8 DEF Wrote
  <2>2. local.r[reg] = value
    BY <1>1, <1>7, <1>8 DEF Wrote, OnlyIn
  <2>3. OnlyIn({REG_TMP, reg}, m, local)
    BY <1>5, <1>6, <1>7, <1>8 DEF Wrote, OnlyIn
  <2>4. local.r[REG_SP] = sp
    BY <1>1, <2>3 DEF OnlyIn, sp
  <2>5. QED
    BY <2>1, <2>2, <2>3, <2>4
<1> HIDE DEF value
<1>10. /\ stored \in MachineStates /\ stored.r = local.r
       /\ stored.m = [m.m EXCEPT ![fp - i] = value]
  <2>1. value \in Word
    BY <1>1, <1>9, MachineParts
  <2>2. QED
    BY <1>4, <1>9, <2>1, SetCellType DEF StoreR
<1> HIDE DEF stored
<1>11. /\ StackPush(stored) \in MachineStates /\ StackPush(stored).m = stored.m
       /\ StackPush(stored).r[REG_SP] = sp - 1
       /\ OnlyIn({REG_SP, REG_TMP}, stored, StackPush(stored))
  <2>1. stored.r[REG_SP] = sp /\ stored.r[REG_SP] >= 1
    BY <1>9, <1>10 DEF sp
  <2>2. QED
    BY <1>10, <2>1, StackPushMoves
<1>12. OnlyIn({REG_SP, REG_TMP, reg}, m, StackPush(stored))
  BY <1>9, <1>10, <1>11 DEF OnlyIn
<1>13. QED
  BY <1>3, <1>10, <1>11, <1>12 DEF Copied, fp, sp, reg, value

(* The parameters become the first locals, in order; the arguments and all  *)
(* that lies above fp stays.                                                *)
LEMMA ParameterLocalsEffect ==
    ASSUME NEW m \in MachineStates, NEW n \in Nat, m.r[REG_SP] = m.r[REG_FP],
           n <= m.r[REG_FP], m.r[REG_FP] + n + 2 < WordSize
    PROVE  LET fp == m.r[REG_FP]
               copied == ParameterLocals(m, n)
           IN  /\ copied \in MachineStates
               /\ copied.r[REG_SP] = fp - n
               /\ OnlyIn({REG_SP, REG_TMP, REG_FIRST_GENERAL}, m, copied)
               /\ \A j \in 1..n : copied.m[fp - (j - 1)] = m.m[fp + (n - (j - 1) + 2)]
               /\ \A a \in Word : a > fp => copied.m[a] = m.m[a]
<1> DEFINE fp == m.r[REG_FP]
<1>1. PICK after : /\ IsRun(after, n, m)
                   /\ \A i \in 1..n : after[i] = CopyParameter(after[i - 1], n, i - 1)
                   /\ ParameterLocals(m, n) = after[n]
  BY ParametersRun
<1>2. fp \in Word /\ fp \in Int /\ n <= fp /\ fp + n + 2 < WordSize /\ WordSize \in Int
  BY RegistersApart, MachineParts, Words DEF Reserved
<1>3. REG_FP # REG_SP /\ REG_FP # REG_TMP /\ REG_FP # REG_FIRST_GENERAL /\ REG_FP \in Registers
  BY RegistersApart DEF Reserved
<1> DEFINE Good(i) == /\ after[i].r[REG_SP] = fp - i
                      /\ OnlyIn({REG_SP, REG_TMP, REG_FIRST_GENERAL}, m, after[i])
                      /\ \A j \in 1..i : after[i].m[fp - (j - 1)] = m.m[fp + (n - (j - 1) + 2)]
                      /\ \A a \in Word : a > fp => after[i].m[a] = m.m[a]
           T == {i \in 0..n : Good(i)}
<1> HIDE DEF fp
<1>4. 0 \in T
  <2>1. after[0] = m /\ m.r[REG_SP] = fp - 0
    BY <1>1, <1>2 DEF IsRun, fp
  <2>2. QED
    BY <2>1 DEF OnlyIn
<1>5. ASSUME NEW k \in 1..n, k - 1 \in T PROVE k \in T
  <2>1. /\ Good(k - 1) /\ after[k - 1] \in MachineStates
        /\ k \in 0..n /\ k \in Int /\ 1 <= k /\ k <= n
    BY <1>1, <1>5 DEF IsRun
  <2> DEFINE before == after[k - 1]
             from == fp + (n - (k - 1) + 2)
             to == fp - (k - 1)
  <2>2. before \in MachineStates /\ before.r[REG_FP] = fp /\ before.r[REG_SP] = fp - (k - 1)
    BY <1>3, <2>1 DEF OnlyIn, fp
  <2>3. from \in Word /\ from > fp /\ to \in Word /\ to <= fp
    BY <1>2, <2>1, Words
  <2>4. /\ after[k].m = [before.m EXCEPT ![to] = before.m[from]]
        /\ after[k].r[REG_SP] = fp - (k - 1) - 1
        /\ OnlyIn({REG_SP, REG_TMP, REG_FIRST_GENERAL}, before, after[k])
    <3>1. after[k] = CopyParameter(before, n, k - 1)
      BY <1>1
    <3> DEFINE i == k - 1
    <3>2. i \in 0..(n - 1) /\ before.r[REG_SP] >= 1
      BY <1>2, <2>1, <2>2
    <3>3. n <= before.r[REG_FP] /\ before.r[REG_FP] + n + 2 < WordSize
      BY <1>2, <2>2
    <3> HIDE DEF before, i
    <3>4. Copied(before, n, i, CopyParameter(before, n, i))
      BY <2>2, <3>2, <3>3, CopyParameterEffect
    <3>5. QED
      BY <2>2, <3>1, <3>4 DEF Copied, i
  <2>5. before.m \in [Word -> Word] /\ before.m[from] = m.m[from]
    BY <2>1, <2>3 DEF MachineStates
  <2>6. OnlyIn({REG_SP, REG_TMP, REG_FIRST_GENERAL}, m, after[k])
    BY <2>1, <2>4 DEF OnlyIn
  <2>7. after[k].r[REG_SP] = fp - k
    BY <1>2, <2>1, <2>4
  <2>8. ASSUME NEW j \in 1..k
        PROVE  after[k].m[fp - (j - 1)] = m.m[fp + (n - (j - 1) + 2)]
    <3>1. fp - (j - 1) \in Word
      BY <1>2, <2>1, Words
    <3>2. CASE j = k
      BY <2>3, <2>4, <2>5, <3>2
    <3>3. CASE j # k
      <4>1. j \in 1..(k - 1) /\ fp - (j - 1) # to
        BY <1>2, <2>1, <3>3
      <4>2. before.m[fp - (j - 1)] = m.m[fp + (n - (j - 1) + 2)]
        BY <2>1, <4>1
      <4>3. QED
        BY <2>4, <2>5, <3>1, <4>1, <4>2
    <3>4. QED
      BY <3>2, <3>3
  <2>9. ASSUME NEW a \in Word, a > fp PROVE after[k].m[a] = m.m[a]
    <3>1. a # to /\ before.m[a] = m.m[a]
      <4>1. a \in Int /\ to \in Int
        BY <2>3, Words
      <4>2. QED
        BY <1>2, <2>1, <2>3, <2>9, <4>1
    <3>2. QED
      BY <2>4, <2>5, <3>1
  <2>10. QED
    BY <2>1, <2>6, <2>7, <2>8, <2>9
<1>6. n \in T
  <2> HIDE DEF T
  <2>1. 0..n \subseteq T
    BY <1>4, <1>5, FromZero
  <2>2. QED
    BY <2>1
<1>7. ParameterLocals(m, n) = after[n] /\ after[n] \in MachineStates /\ Good(n)
  BY <1>1, <1>6 DEF IsRun
<1>8. QED
  BY <1>7 DEF fp
-----------------------------------------------------------------------------
(* The saved registers: where each one goes *)

(* The general registers, and with them the saved ones, can be counted.     *)
LEMMA GeneralIsFinite ==
    /\ IsFiniteSet(General)
    /\ \A kept \in SUBSET General : IsFiniteSet(kept) /\ Cardinality(kept) \in Nat
<1>1. IsFiniteSet(General)
  <2>1. 1 \in Int /\ LastGeneral \in Int
    BY LastGeneralAssumption
  <2>2. QED
    BY <2>1, FS_Interval DEF General, REG_FIRST_GENERAL, REG_LAST_GENERAL
<1>2. QED
  BY <1>1, FS_Subset, FS_CardinalityType

(* The number of registers saved before one grows by one with each saved    *)
(* register of the scan, from none to all of them.                          *)
LEMMA SavedBeforeCounts ==
    ASSUME NEW kept \in SUBSET General
    PROVE  /\ \A i \in 0..REG_LAST_GENERAL : SavedBefore(i + 1, kept) \in Nat
           /\ SavedBefore(1, kept) = 0
           /\ SavedBefore(REG_LAST_GENERAL + 1, kept) = Cardinality(kept)
           /\ \A reg \in General :
                  SavedBefore(reg + 1, kept) =
                      IF reg \in kept THEN SavedBefore(reg, kept) + 1 ELSE SavedBefore(reg, kept)
<1> DEFINE Below(reg) == {other \in kept : other < reg}
<1>0. \A x \in kept : x \in Int /\ 1 <= x /\ x <= REG_LAST_GENERAL /\ x < REG_LAST_GENERAL + 1
  <2>1. \A x \in General : x \in Int /\ 1 <= x /\ x <= REG_LAST_GENERAL /\ x < REG_LAST_GENERAL + 1
    BY LastGeneralAssumption DEF General, REG_FIRST_GENERAL, REG_LAST_GENERAL
  <2>2. QED
    BY <2>1
<1>1. \A reg : Below(reg) \in SUBSET General
  OBVIOUS
<1>2. \A reg : IsFiniteSet(Below(reg)) /\ Cardinality(Below(reg)) \in Nat
  BY <1>1, GeneralIsFinite
<1>3. Below(1) = {}
  BY <1>0
<1>4. Below(REG_LAST_GENERAL + 1) = kept
  BY <1>0
<1>5. ASSUME NEW reg \in General, reg \in kept
      PROVE  Cardinality(Below(reg + 1)) = Cardinality(Below(reg)) + 1
  <2>1. Below(reg + 1) = Below(reg) \cup {reg} /\ reg \notin Below(reg)
    BY <1>0, <1>5
  <2> HIDE DEF Below
  <2>2. QED
    BY <1>2, <2>1, FS_AddElement
<1>6. ASSUME NEW reg \in General, reg \notin kept
      PROVE  Below(reg + 1) = Below(reg)
  <2>1. reg \in Int
    BY DEF General
  <2>2. \A x \in kept : x < reg + 1 <=> x < reg
    BY <1>0, <1>6, <2>1
  <2>3. QED
    BY <2>2
<1>7. \A reg : SavedBefore(reg, kept) = Cardinality(Below(reg))
  BY DEF SavedBefore
<1> HIDE DEF Below
<1>8. QED
  BY <1>2, <1>3, <1>4, <1>5, <1>6, <1>7, FS_EmptySet

(* Two saved registers have two places, below the number of them all.       *)
LEMMA SavedBeforeOrder ==
    ASSUME NEW kept \in SUBSET General, NEW reg \in kept
    PROVE  /\ SavedBefore(reg, kept) \in Nat
           /\ SavedBefore(reg, kept) < Cardinality(kept)
           /\ \A upper \in General \cup {REG_LAST_GENERAL + 1} :
                  reg < upper => SavedBefore(reg, kept) < SavedBefore(upper, kept)
<1> DEFINE Below(r) == {other \in kept : other < r}
<1>0. \A x \in kept : x \in Int /\ 1 <= x /\ x <= REG_LAST_GENERAL /\ x < REG_LAST_GENERAL + 1
  <2>1. \A x \in General : x \in Int /\ 1 <= x /\ x <= REG_LAST_GENERAL /\ x < REG_LAST_GENERAL + 1
    BY LastGeneralAssumption DEF General, REG_FIRST_GENERAL, REG_LAST_GENERAL
  <2>2. QED
    BY <2>1
<1>1. \A r : Below(r) \in SUBSET General
  OBVIOUS
<1>2. \A r : IsFiniteSet(Below(r)) /\ Cardinality(Below(r)) \in Nat
  BY <1>1, GeneralIsFinite
<1>3. ASSUME NEW upper \in General \cup {REG_LAST_GENERAL + 1}, reg < upper
      PROVE  Cardinality(Below(reg)) < Cardinality(Below(upper))
  <2>1. Below(reg) \cup {reg} \subseteq Below(upper) /\ reg \notin Below(reg)
    <3>1. upper \in Int /\ reg \in Int
      BY <1>0, LastGeneralAssumption DEF General, REG_LAST_GENERAL
    <3>2. \A x \in kept : x < reg => x < upper
      BY <1>0, <1>3, <3>1
    <3>3. reg \in Below(upper) /\ reg \notin Below(reg)
      BY <1>3, <3>1
    <3>4. QED
      BY <3>2, <3>3
  <2> HIDE DEF Below
  <2>2. /\ Cardinality(Below(reg) \cup {reg}) = Cardinality(Below(reg)) + 1
        /\ IsFiniteSet(Below(reg) \cup {reg})
    BY <1>2, <2>1, FS_AddElement
  <2>3. Cardinality(Below(reg) \cup {reg}) <= Cardinality(Below(upper))
    BY <1>2, <2>1, FS_Subset
  <2>4. QED
    BY <1>2, <2>2, <2>3
<1>4. reg \in General /\ reg < REG_LAST_GENERAL + 1
  BY LastGeneralAssumption DEF General, REG_LAST_GENERAL
<1>5. Below(REG_LAST_GENERAL + 1) = kept
  BY <1>0
<1>6. \A r : SavedBefore(r, kept) = Cardinality(Below(r))
  BY DEF SavedBefore
<1> HIDE DEF Below
<1>7. QED
  BY <1>2, <1>3, <1>4, <1>5, <1>6
(* Each saved register lies below those with a lower number.                *)
LEMMA SaveRegistersEffect ==
    ASSUME NEW m \in MachineStates, NEW kept \in SUBSET General,
           Cardinality(kept) <= m.r[REG_SP]
    PROVE  LET sp == m.r[REG_SP]
               saved == SaveRegisters(m, kept)
           IN  /\ saved \in MachineStates
               /\ saved.r[REG_SP] = sp - Cardinality(kept)
               /\ OnlyIn({REG_SP, REG_TMP}, m, saved)
               /\ \A reg \in kept : saved.m[sp - SavedBefore(reg, kept)] = m.r[reg]
               /\ \A a \in Word : a > sp => saved.m[a] = m.m[a]
<1> DEFINE sp == m.r[REG_SP]
           n == REG_LAST_GENERAL
           place(reg) == sp - SavedBefore(reg, kept)
<1>1. PICK after : /\ IsRun(after, n, m)
                   /\ \A i \in 1..n : after[i] = IF i \in kept THEN Push(after[i - 1], i)
                                                               ELSE after[i - 1]
                   /\ SaveRegisters(m, kept) = after[n]
  BY SaveRun DEF SaveTurn
<1>2. sp \in Word /\ sp \in Int /\ Cardinality(kept) <= sp
  BY RegistersApart, MachineParts DEF Reserved
<1>3. n \in Nat /\ \A i : i \in 1..n <=> i \in General
  BY LastGeneralAssumption DEF REG_LAST_GENERAL, General, REG_FIRST_GENERAL
<1>4. Cardinality(kept) \in Nat
  BY GeneralIsFinite
<1>5. \A reg \in kept : /\ place(reg) \in Word /\ place(reg) \in Int /\ place(reg) >= 1
                        /\ place(reg) <= sp /\ reg \in General
  <2>1. \A reg \in kept : /\ SavedBefore(reg, kept) \in Nat
                          /\ SavedBefore(reg, kept) < Cardinality(kept) /\ reg \in General
    BY SavedBeforeOrder
  <2>2. QED
    BY <1>2, <1>4, <2>1, Words
<1>6. \A reg \in kept, upper \in kept : reg < upper => place(upper) < place(reg)
  <2>1. ASSUME NEW reg \in kept, NEW upper \in kept, reg < upper
        PROVE  place(upper) < place(reg)
    <3>1. /\ SavedBefore(reg, kept) \in Int /\ SavedBefore(upper, kept) \in Int
          /\ SavedBefore(reg, kept) < SavedBefore(upper, kept)
      BY <2>1, SavedBeforeOrder
    <3>2. QED
      BY <1>2, <3>1
  <2>2. QED
    BY <2>1
<1> DEFINE Good(i) == /\ after[i].r[REG_SP] = place(i + 1)
                      /\ OnlyIn({REG_SP, REG_TMP}, m, after[i])
                      /\ \A reg \in kept : reg <= i => after[i].m[place(reg)] = m.r[reg]
                      /\ \A a \in Word : a > sp => after[i].m[a] = m.m[a]
           T == {i \in 0..n : Good(i)}
<1>7. place(1) = sp /\ place(n + 1) = sp - Cardinality(kept)
  BY <1>2, SavedBeforeCounts
<1>8. \A i \in General : place(i + 1) = IF i \in kept THEN place(i) - 1 ELSE place(i)
  <2>1. ASSUME NEW i \in General
        PROVE  place(i + 1) = IF i \in kept THEN place(i) - 1 ELSE place(i)
    <3>1. /\ i \in kept => SavedBefore(i, kept) \in Int
          /\ SavedBefore(i + 1, kept) = IF i \in kept THEN SavedBefore(i, kept) + 1
                                                     ELSE SavedBefore(i, kept)
      BY SavedBeforeCounts, SavedBeforeOrder
    <3>2. QED
      BY <1>2, <3>1
  <2>2. QED
    BY <2>1
<1> HIDE DEF n, sp, place
<1>9. 0 \in T
  <2>1. after[0] = m /\ m.r[REG_SP] = place(0 + 1)
    BY <1>1, <1>7 DEF IsRun, sp
  <2>2. \A reg \in kept : ~(reg <= 0)
    BY <1>3, <1>5
  <2>3. QED
    BY <1>3, <2>1, <2>2 DEF OnlyIn
<1>10. ASSUME NEW k \in 1..n, k - 1 \in T PROVE k \in T
  <2>1. /\ Good(k - 1) /\ after[k - 1] \in MachineStates
        /\ k \in 0..n /\ k \in Int /\ k \in General /\ k - 1 + 1 = k
    BY <1>1, <1>3, <1>10 DEF IsRun
  <2> DEFINE before == after[k - 1]
  <2>2. /\ before \in MachineStates /\ before.r[REG_SP] = place(k)
        /\ OnlyIn({REG_SP, REG_TMP}, m, before)
        /\ \A reg \in kept : reg <= k - 1 => before.m[place(reg)] = m.r[reg]
        /\ \A a \in Word : a > sp => before.m[a] = m.m[a]
    BY <2>1
  <2>3. after[k] = IF k \in kept THEN Push(before, k) ELSE before
    BY <1>1
  <2> HIDE DEF before
  <2>4. CASE k \notin kept
    <3>1. after[k] = before /\ place(k + 1) = place(k)
      BY <1>8, <2>1, <2>3, <2>4
    <3>2. \A reg \in kept : reg <= k => reg <= k - 1
      BY <1>3, <1>5, <2>1, <2>4
    <3>3. Good(k)
      BY <2>2, <3>1, <3>2
    <3>4. QED
      BY <2>1, <3>3
  <2>5. CASE k \in kept
    <3>1. /\ after[k].m = [before.m EXCEPT ![place(k)] = before.r[k]]
          /\ after[k].r[REG_SP] = place(k) - 1
          /\ OnlyIn({REG_SP, REG_TMP}, before, after[k])
      <4>1. before.r[REG_SP] >= 1 /\ k \in Registers
        BY <1>5, <2>1, <2>2, <2>5, RegistersApart
      <4>2. /\ Push(before, k).m = [before.m EXCEPT ![before.r[REG_SP]] = before.r[k]]
            /\ Push(before, k).r[REG_SP] = before.r[REG_SP] - 1
            /\ OnlyIn({REG_SP, REG_TMP}, before, Push(before, k))
        BY <2>2, <4>1, PushEffect
      <4>3. QED
        BY <2>2, <2>3, <2>5, <4>2
    <3>2. before.r[k] = m.r[k]
      BY <2>1, <2>2, RegistersApart DEF OnlyIn, Reserved
    <3>3. before.m \in [Word -> Word]
      BY <2>2 DEF MachineStates
    <3>4. ASSUME NEW reg \in kept, reg <= k PROVE after[k].m[place(reg)] = m.r[reg]
      <4>1. CASE reg = k
        BY <1>5, <3>1, <3>2, <3>3, <4>1
      <4>2. CASE reg # k
        <5>1. reg \in Int /\ reg <= k - 1 /\ reg < k
          BY <1>3, <1>5, <2>1, <3>4, <4>2
        <5>2. place(reg) # place(k) /\ place(reg) \in Word
          BY <1>5, <1>6, <2>5, <5>1
        <5>3. QED
          BY <2>2, <3>1, <3>3, <5>1, <5>2
      <4>3. QED
        BY <4>1, <4>2
    <3>5. ASSUME NEW a \in Word, a > sp PROVE after[k].m[a] = m.m[a]
      <4>1. a # place(k)
        BY <1>2, <1>5, <2>5, <3>5, Words
      <4>2. QED
        BY <2>2, <3>1, <3>3, <3>5, <4>1
    <3>6. OnlyIn({REG_SP, REG_TMP}, m, after[k]) /\ after[k].r[REG_SP] = place(k + 1)
      BY <1>8, <2>1, <2>2, <2>5, <3>1 DEF OnlyIn
    <3>7. QED
      BY <2>1, <3>4, <3>5, <3>6
  <2>6. QED
    BY <2>4, <2>5
<1>11. n \in T
  <2> HIDE DEF T
  <2>1. 0..n \subseteq T /\ n \in 0..n
    BY <1>3, <1>9, <1>10, FromZero
  <2>2. QED
    BY <2>1
<1>12. SaveRegisters(m, kept) = after[n] /\ after[n] \in MachineStates /\ Good(n)
  BY <1>1, <1>3, <1>11 DEF IsRun
<1>13. \A reg \in kept : reg <= n
  BY <1>3, <1>5
<1>14. QED
  BY <1>7, <1>12, <1>13 DEF sp, place
(* The pops in reverse order load each register from where it was saved.    *)
LEMMA RestoreRegistersEffect ==
    ASSUME NEW m \in MachineStates, NEW kept \in SUBSET General,
           m.r[REG_SP] + Cardinality(kept) < WordSize
    PROVE  LET sp == m.r[REG_SP] + Cardinality(kept)
               restored == RestoreRegisters(m, kept)
           IN  /\ restored \in MachineStates /\ restored.m = m.m
               /\ restored.r[REG_SP] = sp
               /\ OnlyIn({REG_SP, REG_TMP} \cup kept, m, restored)
               /\ \A reg \in kept : restored.r[reg] = m.m[sp - SavedBefore(reg, kept)]
<1> DEFINE sp == m.r[REG_SP] + Cardinality(kept)
           n == REG_LAST_GENERAL
           place(reg) == sp - SavedBefore(reg, kept)
           turn(i) == n + 1 - i
<1>1. PICK after : /\ IsRun(after, n, m)
                   /\ \A i \in 1..n : after[i] = LET reg == REG_LAST_GENERAL + 1 - i
                                                 IN  IF reg \in kept THEN Restore(after[i - 1], reg)
                                                                     ELSE after[i - 1]
                   /\ RestoreRegisters(m, kept) = after[n]
  BY RestoreRun DEF RestoreTurn
<1>2. sp \in Word /\ sp \in Int
  <2>1. m.r[REG_SP] \in Word /\ Cardinality(kept) \in Nat
    BY GeneralIsFinite, RegistersApart, MachineParts DEF Reserved
  <2>2. QED
    BY <2>1, Words
<1>3. n \in Nat /\ \A i \in 1..n : turn(i) \in General /\ turn(i - 1) = turn(i) + 1
  BY LastGeneralAssumption DEF REG_LAST_GENERAL, General, REG_FIRST_GENERAL
<1>4. Cardinality(kept) \in Nat
  BY GeneralIsFinite
<1>5. \A reg \in kept : /\ place(reg) \in Word /\ place(reg) \in Int /\ place(reg) <= sp
                        /\ reg \in General /\ reg \in Int /\ reg \in Registers
  <2>1. \A reg \in kept : /\ SavedBefore(reg, kept) \in Nat
                          /\ SavedBefore(reg, kept) < Cardinality(kept) /\ reg \in General
    BY SavedBeforeOrder
  <2>2. \A reg \in General : reg \in Int /\ reg \in Registers
    BY RegistersApart DEF General
  <2>3. m.r[REG_SP] \in Nat
    BY RegistersApart, MachineParts, Words DEF Reserved
  <2>4. QED
    BY <1>2, <1>4, <2>1, <2>2, <2>3, Words
<1> DEFINE Good(i) == /\ after[i].m = m.m
                      /\ after[i].r[REG_SP] = place(turn(i))
                      /\ OnlyIn({REG_SP, REG_TMP} \cup kept, m, after[i])
                      /\ \A reg \in kept : reg >= turn(i) => after[i].r[reg] = m.m[place(reg)]
           T == {i \in 0..n : Good(i)}
<1>6. place(turn(0)) = m.r[REG_SP] /\ place(turn(n)) = sp
  <2>1. turn(0) = REG_LAST_GENERAL + 1 /\ turn(n) = 1
    BY <1>3
  <2>2. m.r[REG_SP] \in Int
    BY RegistersApart, MachineParts DEF Reserved
  <2>3. SavedBefore(1, kept) = 0 /\ SavedBefore(REG_LAST_GENERAL + 1, kept) = Cardinality(kept)
    BY SavedBeforeCounts
  <2> HIDE DEF turn
  <2>4. QED
    BY <1>2, <1>4, <2>1, <2>2, <2>3
<1>7. \A reg \in General : place(reg + 1) = IF reg \in kept THEN place(reg) - 1 ELSE place(reg)
  <2>1. ASSUME NEW i \in General
        PROVE  place(i + 1) = IF i \in kept THEN place(i) - 1 ELSE place(i)
    <3>1. /\ i \in kept => SavedBefore(i, kept) \in Int
          /\ SavedBefore(i + 1, kept) = IF i \in kept THEN SavedBefore(i, kept) + 1
                                                     ELSE SavedBefore(i, kept)
      BY SavedBeforeCounts, SavedBeforeOrder
    <3>2. QED
      BY <1>2, <3>1
  <2>2. QED
    BY <2>1
<1>8. \A reg \in kept : reg < turn(0) /\ reg >= turn(n)
  BY <1>5, LastGeneralAssumption DEF General, REG_FIRST_GENERAL, REG_LAST_GENERAL
<1>9. \A i \in 1..n : after[i] = IF turn(i) \in kept THEN Restore(after[i - 1], turn(i))
                                                     ELSE after[i - 1]
  BY <1>1
<1>10. \A i \in 0..n : turn(i) \in Int
  BY <1>3
<1> HIDE DEF n, sp, place, turn
<1>11. 0 \in T
  <2>1. after[0] = m
    BY <1>1 DEF IsRun
  <2>2. \A reg \in kept : ~(reg >= turn(0))
    BY <1>3, <1>5, <1>8, <1>10
  <2>3. QED
    BY <1>3, <1>6, <2>1, <2>2 DEF OnlyIn
<1>12. ASSUME NEW k \in 1..n, k - 1 \in T PROVE k \in T
  <2> DEFINE before == after[k - 1]
             reg == turn(k)
  <2>1. /\ before \in MachineStates /\ before.m = m.m
        /\ before.r[REG_SP] = place(turn(k - 1))
        /\ OnlyIn({REG_SP, REG_TMP} \cup kept, m, before)
        /\ \A other \in kept : other >= turn(k - 1) => before.r[other] = m.m[place(other)]
    BY <1>1, <1>3, <1>12 DEF IsRun
  <2>2. /\ k \in 0..n /\ reg \in General /\ turn(k - 1) = reg + 1 /\ reg \in Int
        /\ after[k] = IF reg \in kept THEN Restore(before, reg) ELSE before
    BY <1>3, <1>9, <1>10
  <2> HIDE DEF before, reg
  <2>3. CASE reg \notin kept
    <3>1. after[k] = before /\ place(reg + 1) = place(reg)
      BY <1>7, <2>2, <2>3
    <3>2. \A other \in kept : other >= reg => other >= turn(k - 1)
      BY <1>5, <2>2, <2>3
    <3>3. Good(k)
      BY <2>1, <2>2, <3>1, <3>2 DEF reg
    <3>4. QED
      BY <2>2, <3>3
  <2>4. CASE reg \in kept
    <3>1. before.r[REG_SP] + 1 = place(reg) /\ place(reg) < WordSize
      BY <1>5, <1>7, <2>1, <2>2, <2>4, Words
    <3>2. /\ after[k].m = m.m /\ after[k].r[REG_SP] = place(reg)
          /\ after[k].r[reg] = m.m[place(reg)]
          /\ OnlyIn({REG_SP, REG_TMP, reg}, before, after[k])
      <4>1. LET loaded == Restore(before, reg)
            IN  /\ loaded.m = before.m
                /\ loaded.r[REG_SP] = before.r[REG_SP] + 1
                /\ loaded.r[reg] = before.m[before.r[REG_SP] + 1]
                /\ OnlyIn({REG_SP, REG_TMP, reg}, before, loaded)
        BY <2>1, <2>2, <3>1, RestoreEffect
      <4>2. QED
        BY <2>1, <2>2, <2>4, <3>1, <4>1
    <3>3. ASSUME NEW other \in kept, other >= turn(k) PROVE after[k].r[other] = m.m[place(other)]
      <4>1. CASE other = reg
        BY <3>2, <4>1
      <4>2. CASE other # reg
        <5>1. other >= turn(k - 1)
          BY <1>5, <2>2, <3>3, <4>2 DEF reg
        <5>2. after[k].r[other] = before.r[other]
          BY <1>5, <3>2, <4>2, RegistersApart DEF OnlyIn, Reserved
        <5>3. QED
          BY <2>1, <5>1, <5>2
      <4>3. QED
        BY <4>1, <4>2
    <3>4. OnlyIn({REG_SP, REG_TMP} \cup kept, m, after[k])
      BY <2>1, <2>4, <3>2 DEF OnlyIn
    <3>5. Good(k)
      BY <3>2, <3>3, <3>4 DEF reg
    <3>6. QED
      BY <2>2, <3>5
  <2>5. QED
    BY <2>3, <2>4
<1>13. n \in T
  <2> HIDE DEF T
  <2>1. 0..n \subseteq T /\ n \in 0..n
    BY <1>3, <1>11, <1>12, FromZero
  <2>2. QED
    BY <2>1
<1>14. RestoreRegisters(m, kept) = after[n] /\ after[n] \in MachineStates /\ Good(n)
  BY <1>1, <1>3, <1>13 DEF IsRun
<1>15. QED
  BY <1>6, <1>8, <1>14 DEF sp, place
-----------------------------------------------------------------------------
(* A call and a return as a whole *)

(* The machine at the body of the callee.                                   *)
Entered(m, kept, arguments, return_address) ==
    ParameterLocals(
        FunctionPrefix(Afc(PushAll(SaveRegisters(m, kept), arguments), REG_RA, return_address)),
        Len(arguments))

(* From sp downwards: saved registers, arguments, ra, fp, and the arguments *)
(* again as the first locals.                                               *)
LEMMA CallEffect ==
    ASSUME NEW m \in MachineStates, NEW kept \in SUBSET General,
           NEW arguments \in Seq(General), NEW return_address \in Word,
           m.r[REG_SP] >= Cardinality(kept) + 2 * Len(arguments) + 2
    PROVE  LET sp == m.r[REG_SP]
               n == Len(arguments)
               fp == sp - Cardinality(kept) - n - 2
               entered == Entered(m, kept, arguments, return_address)
           IN  /\ entered \in MachineStates
               /\ entered.r[REG_FP] = fp /\ entered.r[REG_SP] = fp - n
               /\ entered.m[fp + 1] = m.r[REG_FP] /\ entered.m[fp + 2] = return_address
               /\ \A reg \in kept : entered.m[sp - SavedBefore(reg, kept)] = m.r[reg]
               /\ \A j \in 1..n : entered.m[fp - (j - 1)] = m.r[arguments[j]]
               /\ \A a \in Word : a > sp => entered.m[a] = m.m[a]
<1> DEFINE sp == m.r[REG_SP]
           n == Len(arguments)
           k == Cardinality(kept)
           fp == sp - k - n - 2
           saved == SaveRegisters(m, kept)
           pushed == PushAll(saved, arguments)
           linked == Afc(pushed, REG_RA, return_address)
           prefixed == FunctionPrefix(linked)
           entered == ParameterLocals(prefixed, n)
<1>1. /\ sp \in Word /\ sp \in Int /\ 0 <= sp /\ sp < WordSize /\ WordSize \in Int
      /\ n \in Nat /\ k \in Nat /\ sp >= k + 2 * n + 2
  BY RegistersApart, MachineParts, Words, GeneralIsFinite DEF Reserved
<1>2. /\ saved \in MachineStates /\ saved.r[REG_SP] = sp - k
      /\ OnlyIn({REG_SP, REG_TMP}, m, saved)
      /\ \A reg \in kept : saved.m[sp - SavedBefore(reg, kept)] = m.r[reg]
      /\ \A a \in Word : a > sp => saved.m[a] = m.m[a]
  <2>1. k <= sp
    BY <1>1
  <2>2. QED
    BY <2>1, SaveRegistersEffect
<1>3. Entered(m, kept, arguments, return_address) = entered
  BY DEF Entered
<1> HIDE DEF sp, k, saved
<1>4. /\ pushed \in MachineStates /\ pushed.r[REG_SP] = sp - k - n
      /\ OnlyIn({REG_SP, REG_TMP}, saved, pushed)
      /\ \A j \in 1..n : pushed.m[sp - k - (j - 1)] = saved.r[arguments[j]]
      /\ \A a \in Word : a > sp - k => pushed.m[a] = saved.m[a]
  <2>1. n <= saved.r[REG_SP]
    BY <1>1, <1>2
  <2>2. /\ pushed \in MachineStates /\ pushed.r[REG_SP] = saved.r[REG_SP] - n
        /\ OnlyIn({REG_SP, REG_TMP}, saved, pushed)
        /\ \A j \in 1..n : pushed.m[saved.r[REG_SP] - (j - 1)] = saved.r[arguments[j]]
        /\ \A a \in Word : a > saved.r[REG_SP] => pushed.m[a] = saved.m[a]
    BY <1>2, <2>1, PushAllEffect
  <2>3. QED
    BY <1>2, <2>2
<1> HIDE DEF n, pushed
<1>5. \A j \in 1..n : arguments[j] \in General
  BY DEF n
<1>6. \A j \in 1..n : pushed.m[sp - k - (j - 1)] = m.r[arguments[j]]
  BY <1>2, <1>4, <1>5, RegistersApart DEF OnlyIn, Reserved
<1>7. Wrote(REG_RA, return_address, pushed, linked)
  BY <1>4, RegistersApart, RegisterWritten DEF Reserved
<1> HIDE DEF linked
<1>8. /\ linked \in MachineStates /\ linked.m = pushed.m
      /\ linked.r[REG_SP] = sp - k - n /\ linked.r[REG_RA] = return_address
      /\ linked.r[REG_FP] = m.r[REG_FP]
  BY <1>2, <1>4, <1>7, RegistersApart DEF Wrote, OnlyIn, Reserved
<1>9. /\ prefixed \in MachineStates
      /\ prefixed.m = [linked.m EXCEPT ![sp - k - n] = return_address, ![sp - k - n - 1] = m.r[REG_FP]]
      /\ prefixed.r[REG_SP] = fp /\ prefixed.r[REG_FP] = fp
  <2>1. linked.r[REG_SP] >= 2
    BY <1>1, <1>8
  <2>2. /\ prefixed \in MachineStates
        /\ prefixed.m = [linked.m EXCEPT ![linked.r[REG_SP]] = linked.r[REG_RA],
                                         ![linked.r[REG_SP] - 1] = linked.r[REG_FP]]
        /\ prefixed.r[REG_SP] = linked.r[REG_SP] - 2
        /\ prefixed.r[REG_FP] = linked.r[REG_SP] - 2
    BY <1>8, <2>1, PrefixEffect
  <2>3. QED
    BY <1>8, <2>2
<1> HIDE DEF prefixed
<1>10. /\ fp \in Int /\ fp >= n /\ fp + n + 2 = sp - k /\ fp + n + 2 < WordSize
       /\ fp + 1 = sp - k - n - 1 /\ fp + 2 = sp - k - n
  BY <1>1
<1> HIDE DEF fp
<1>11. linked.m \in [Word -> Word] /\ fp + 1 \in Word /\ fp + 2 \in Word
  <2>1. linked.m \in [Word -> Word]
    BY <1>8 DEF MachineStates
  <2>2. fp + 1 \in Word /\ fp + 2 \in Word
    <3>1. 0 <= fp + 1 /\ fp + 1 < WordSize /\ fp + 1 \in Int
      BY <1>1, <1>10
    <3>2. 0 <= fp + 2 /\ fp + 2 < WordSize /\ fp + 2 \in Int
      BY <1>1, <1>10
    <3>3. QED
      BY <3>1, <3>2, Words
  <2>3. QED
    BY <2>1, <2>2
<1>12. prefixed.m[fp + 1] = m.r[REG_FP] /\ prefixed.m[fp + 2] = return_address
  BY <1>9, <1>10, <1>11
<1>13. \A a \in Word : a > fp + 2 => prefixed.m[a] = pushed.m[a]
  <2>1. ASSUME NEW a \in Word, a > fp + 2 PROVE a # fp + 1 /\ a # fp + 2
    BY <1>10, <2>1, Words
  <2>2. QED
    BY <1>8, <1>9, <1>10, <1>11, <2>1
<1>14. /\ entered \in MachineStates
       /\ entered.r[REG_SP] = fp - n
       /\ OnlyIn({REG_SP, REG_TMP, REG_FIRST_GENERAL}, prefixed, entered)
       /\ \A j \in 1..n : entered.m[fp - (j - 1)] = prefixed.m[fp + (n - (j - 1) + 2)]
       /\ \A a \in Word : a > fp => entered.m[a] = prefixed.m[a]
  <2>1. /\ prefixed.r[REG_SP] = prefixed.r[REG_FP] /\ n <= prefixed.r[REG_FP]
        /\ prefixed.r[REG_FP] + n + 2 < WordSize
    BY <1>9, <1>10
  <2>2. /\ entered \in MachineStates
        /\ entered.r[REG_SP] = prefixed.r[REG_FP] - n
        /\ OnlyIn({REG_SP, REG_TMP, REG_FIRST_GENERAL}, prefixed, entered)
        /\ \A j \in 1..n : entered.m[prefixed.r[REG_FP] - (j - 1)] =
                               prefixed.m[prefixed.r[REG_FP] + (n - (j - 1) + 2)]
        /\ \A a \in Word : a > prefixed.r[REG_FP] => entered.m[a] = prefixed.m[a]
    BY <1>1, <1>9, <2>1, ParameterLocalsEffect
  <2>3. QED
    BY <1>9, <2>2
<1> HIDE DEF entered
<1>15. entered.r[REG_FP] = fp
  BY <1>9, <1>14, RegistersApart DEF OnlyIn, Reserved
<1>16. entered.m[fp + 1] = m.r[REG_FP] /\ entered.m[fp + 2] = return_address
  BY <1>10, <1>11, <1>12, <1>14
<1>17. \A a \in Word : a > fp + 2 => entered.m[a] = pushed.m[a]
  <2>1. ASSUME NEW a \in Word, a > fp + 2 PROVE a > fp
    BY <1>10, <2>1, Words
  <2>2. QED
    BY <1>13, <1>14, <2>1
<1>18. ASSUME NEW reg \in kept
       PROVE  entered.m[sp - SavedBefore(reg, kept)] = m.r[reg]
  <2>1. SavedBefore(reg, kept) \in Nat /\ SavedBefore(reg, kept) < k
    BY SavedBeforeOrder DEF k
  <2> DEFINE a == sp - SavedBefore(reg, kept)
  <2>2. a \in Word /\ a > sp - k /\ a > fp + 2
    BY <1>1, <1>10, <2>1, Words
  <2>3. saved.m[a] = m.r[reg]
    BY <1>2
  <2> HIDE DEF a
  <2>4. entered.m[a] = m.r[reg]
    BY <1>4, <1>17, <2>2, <2>3
  <2>5. QED
    BY <2>4 DEF a
<1>19. ASSUME NEW j \in 1..n PROVE entered.m[fp - (j - 1)] = m.r[arguments[j]]
  <2> DEFINE a == fp + (n - (j - 1) + 2)
  <2>1. a = sp - k - (j - 1) /\ a \in Word /\ a > fp + 2
    BY <1>1, <1>10, Words
  <2>2. entered.m[fp - (j - 1)] = prefixed.m[a]
    BY <1>14
  <2> HIDE DEF a
  <2>3. prefixed.m[a] = m.r[arguments[j]]
    BY <1>6, <1>13, <2>1
  <2>4. QED
    BY <2>2, <2>3
<1>20. ASSUME NEW a \in Word, a > sp PROVE entered.m[a] = m.m[a]
  <2>1. a > sp - k /\ a > fp + 2
    BY <1>1, <1>10, <1>20, Words
  <2>2. QED
    BY <1>2, <1>4, <1>17, <1>20, <2>1
<1>21. QED
  BY <1>3, <1>14, <1>15, <1>16, <1>18, <1>19, <1>20 DEF sp, fp, n, k

(* What comes back: sp and fp of the caller, its registers and the result.  *)
LEMMA ReturnEffect ==
    ASSUME NEW m \in MachineStates, NEW caller, caller.argument_count \in Nat,
           Range(caller.operands) \in SUBSET General,
           NEW reg \in General, reg \notin Range(caller.operands),
           m.r[REG_FP] + 2 + caller.argument_count + Cardinality(Range(caller.operands)) < WordSize
    PROVE  LET fp == m.r[REG_FP]
               kept == Range(caller.operands)
               sp == fp + 2 + caller.argument_count + Cardinality(kept)
               gone == FunctionSuffix(m)
               back == AfterCall(gone, caller, reg)
           IN  /\ back \in MachineStates /\ back.m = m.m
               /\ back.r[REG_FP] = m.m[fp + 1] /\ gone.r[REG_RA] = m.m[fp + 2]
               /\ back.r[REG_SP] = sp
               /\ back.r[reg] = m.r[REG_RETURN]
               /\ \A other \in kept : back.r[other] = m.m[sp - SavedBefore(other, kept)]
<1> DEFINE fp == m.r[REG_FP]
           n == caller.argument_count
           kept == Range(caller.operands)
           k == Cardinality(kept)
           sp == fp + 2 + n + k
           gone == FunctionSuffix(m)
           popped == Pops(gone, n)
           restored == RestoreRegisters(popped, kept)
           back == AfterCall(gone, caller, reg)
<1>1. back = Cop(restored, reg, REG_RETURN)
  BY DEF AfterCall
<1>2. /\ fp \in Int /\ 0 <= fp /\ n \in Nat /\ k \in Nat /\ sp < WordSize /\ WordSize \in Int
      /\ kept \in SUBSET General
  BY RegistersApart, MachineParts, Words, GeneralIsFinite DEF Reserved
<1>3. /\ gone \in MachineStates /\ gone.m = m.m
      /\ gone.r[REG_SP] = fp + 2 /\ gone.r[REG_FP] = m.m[fp + 1] /\ gone.r[REG_RA] = m.m[fp + 2]
      /\ OnlyIn({REG_SP, REG_TMP, REG_FP, REG_RA}, m, gone)
  <2>1. fp + 2 < WordSize
    BY <1>2
  <2>2. QED
    BY <2>1, SuffixEffect
<1> HIDE DEF fp, n, kept, k, gone, back
<1>4. /\ popped \in MachineStates /\ popped.m = m.m /\ popped.r[REG_SP] = fp + 2 + n
      /\ OnlyIn({REG_SP, REG_TMP}, gone, popped)
  <2>1. gone.r[REG_SP] + n < WordSize
    BY <1>2, <1>3
  <2>2. /\ Pops(gone, n) \in MachineStates /\ Pops(gone, n).m = gone.m
        /\ Pops(gone, n).r[REG_SP] = gone.r[REG_SP] + n
        /\ OnlyIn({REG_SP, REG_TMP}, gone, Pops(gone, n))
    BY <1>2, <1>3, <2>1, PopsEffect
  <2>3. QED
    BY <1>3, <2>2
<1> HIDE DEF popped
<1>5. /\ restored \in MachineStates /\ restored.m = m.m /\ restored.r[REG_SP] = sp
      /\ OnlyIn({REG_SP, REG_TMP} \cup kept, popped, restored)
      /\ \A other \in kept : restored.r[other] = m.m[sp - SavedBefore(other, kept)]
  <2>1. popped.r[REG_SP] + Cardinality(kept) < WordSize
    BY <1>2, <1>4 DEF k
  <2>2. LET top == popped.r[REG_SP] + Cardinality(kept)
        IN  /\ restored \in MachineStates /\ restored.m = popped.m /\ restored.r[REG_SP] = top
            /\ OnlyIn({REG_SP, REG_TMP} \cup kept, popped, restored)
            /\ \A other \in kept : restored.r[other] = popped.m[top - SavedBefore(other, kept)]
    BY <1>2, <1>4, <2>1, RestoreRegistersEffect
  <2>3. QED
    BY <1>4, <2>2 DEF k
<1> HIDE DEF restored
<1>6. Wrote(reg, restored.r[REG_RETURN], restored, back)
  BY <1>1, <1>5, RegistersApart, RegisterWritten DEF Reserved
<1>7. /\ \A other \in kept : other \in General /\ other # reg
      /\ reg \notin kept
      /\ \A other \in General : other \in Registers /\ other \notin Reserved
  BY <1>2, RegistersApart DEF kept
<1>8. restored.r[REG_RETURN] = m.r[REG_RETURN] /\ restored.r[REG_FP] = m.m[fp + 1]
  <2>1. /\ REG_RETURN \in Registers \ ({REG_SP, REG_TMP, REG_FP, REG_RA} \cup kept)
        /\ REG_FP \in Registers \ ({REG_SP, REG_TMP} \cup kept)
    BY <1>7, RegistersApart DEF Reserved
  <2>2. QED
    BY <1>3, <1>4, <1>5, <2>1 DEF OnlyIn
<1>9. back.r[REG_FP] = m.m[fp + 1] /\ back.r[REG_SP] = sp
  BY <1>5, <1>6, <1>7, <1>8, RegistersApart DEF Wrote, OnlyIn, Reserved
<1>10. \A other \in kept : back.r[other] = m.m[sp - SavedBefore(other, kept)]
  BY <1>5, <1>6, <1>7 DEF Wrote, OnlyIn
<1>11. back \in MachineStates /\ back.m = m.m /\ back.r[reg] = m.r[REG_RETURN]
  BY <1>5, <1>6, <1>8 DEF Wrote
<1>12. QED
  BY <1>3, <1>9, <1>10, <1>11 DEF fp, n, kept, k, gone, back
-----------------------------------------------------------------------------
(* The frames in memory *)

Callers ==
    [next_local_offset : Nat, bases : Seq(Nat), operands : Seq(General), argument_count : Nat]

SizeOf(caller) ==
    caller.next_local_offset + Len(caller.operands) + caller.argument_count + 2

(* F holds the frame pointers of a machine that runs above these callers    *)
(* with n locals of its own.                                                *)
Stacked(m, below, n, F) ==
    /\ F \in [1..(Len(below) + 1) -> Word]
    /\ F[1] = WordSize - 1
    /\ F[Len(below) + 1] = m.r[REG_FP]
    /\ \A k \in 1..Len(below) : F[k + 1] = F[k] - SizeOf(below[k])
    /\ \A k \in 1..Len(below) : F[k] = m.m[F[k + 1] + 1]
    /\ m.r[REG_SP] = m.r[REG_FP] - n /\ StackLimit <= m.r[REG_SP]

(* The frame pointers f follow the saved fps of this memory.                *)
Linked(memory, depth, f) == \A k \in 1..(depth - 1) : f[k] = memory[Byte(f[k + 1] + 1)]

(* The chain FramePointer finds, from the innermost frame up, is the only   *)
(* one.                                                                     *)
LEMMA ChainIsUnique ==
    ASSUME NEW depth \in Nat \ {0}, NEW memory,
           NEW f, f = [k \in 1..depth |-> f[k]], Linked(memory, depth, f),
           NEW F, F = [k \in 1..depth |-> F[k]], Linked(memory, depth, F),
           f[depth] = F[depth]
    PROVE  f = F
<1> DEFINE T == {i \in 0..(depth - 1) : f[depth - i] = F[depth - i]}
<1>3. 0 \in T
  OBVIOUS
<1>4. ASSUME NEW i \in 1..(depth - 1), i - 1 \in T PROVE i \in T
  <2> DEFINE k == depth - i
  <2>1. k \in 1..(depth - 1) /\ k \in 1..depth /\ k # depth /\ depth - (i - 1) = k + 1
    OBVIOUS
  <2>2. f[k + 1] = F[k + 1]
    BY <1>4, <2>1
  <2>3. f[k] = memory[Byte(f[k + 1] + 1)]
    BY <2>1 DEF Linked
  <2>4. F[k] = memory[Byte(F[k + 1] + 1)]
    BY <2>1 DEF Linked
  <2>5. QED
    BY <2>2, <2>3, <2>4
<1>5. 0..(depth - 1) \subseteq T
  <2> HIDE DEF T
  <2>1. depth - 1 \in Nat
    OBVIOUS
  <2>2. QED
    BY <1>3, <1>4, <2>1, FromZero
<1>6. ASSUME NEW k \in 1..depth PROVE f[k] = F[k]
  <2>1. depth - k \in T /\ depth - (depth - k) = k
    <3>1. depth - k \in 0..(depth - 1) /\ depth - (depth - k) = k
      OBVIOUS
    <3> HIDE DEF T
    <3>2. QED
      BY <1>5, <3>1
  <2>2. QED
    BY <2>1
<1>7. QED
  BY <1>6

(* Where everything a caller left in memory lies.                           *)
LEMMA FrameCells ==
    ASSUME NEW m \in MachineStates, NEW below \in Seq(Callers), NEW n \in Nat, NEW F,
           Stacked(m, below, n, F)
    PROVE  /\ \A k \in 1..(Len(below) + 1) : F[k] \in Int /\ F[k] \in Word
           /\ \A k \in 1..Len(below) :
                  /\ below[k] \in Callers /\ SizeOf(below[k]) \in Nat
                  /\ Len(below[k].operands) \in Nat
                  /\ F[k + 1] + 2 <= F[k] - below[k].next_local_offset
                                      - Len(below[k].operands)
                  /\ F[k + 1] + 1 \in Word /\ F[k + 1] + 2 \in Word
           /\ \A j, k \in 1..(Len(below) + 1) : j <= k => F[k] <= F[j]
           /\ m.r[REG_SP] \in Word /\ m.r[REG_SP] \in Int /\ m.r[REG_SP] = F[Len(below) + 1] - n
<1> DEFINE D == Len(below) + 1
<1>1. /\ D \in Nat /\ D >= 1 /\ D - 1 = Len(below)
      /\ \A k \in 1..(D - 1) : k \in 1..D /\ k + 1 \in 1..D
  OBVIOUS
<1>2. \A k \in 1..D : F[k] \in Int /\ F[k] \in Word
  BY Words DEF Stacked
<1>3. ASSUME NEW k \in 1..(D - 1)
      PROVE  /\ below[k] \in Callers /\ SizeOf(below[k]) \in Nat
             /\ Len(below[k].operands) \in Nat
             /\ F[k + 1] + 2 <= F[k] - below[k].next_local_offset - Len(below[k].operands)
             /\ F[k + 1] <= F[k]
             /\ F[k + 1] + 1 \in Word /\ F[k + 1] + 2 \in Word
  <2>1. below[k] \in Callers
    OBVIOUS
  <2>2. /\ below[k].next_local_offset \in Nat /\ below[k].argument_count \in Nat
        /\ Len(below[k].operands) \in Nat
    <3>1. /\ below[k].next_local_offset \in Nat /\ below[k].argument_count \in Nat
          /\ below[k].operands \in Seq(General)
      BY <2>1 DEF Callers
    <3>2. QED
      BY <3>1
  <2>3. F[k + 1] = F[k] - SizeOf(below[k])
    BY <1>1 DEF Stacked
  <2>4. F[k] \in Int /\ F[k + 1] \in Int /\ 0 <= F[k + 1] /\ F[k] < WordSize /\ WordSize \in Int
    BY <1>1, <1>2, Words
  <2>5. /\ F[k + 1] + 2 <= F[k] - below[k].next_local_offset - Len(below[k].operands)
        /\ F[k + 1] + 2 <= F[k] /\ SizeOf(below[k]) \in Nat
    <3>1. SizeOf(below[k]) = below[k].next_local_offset + Len(below[k].operands)
                                + below[k].argument_count + 2
      BY DEF SizeOf
    <3> DEFINE locals == below[k].next_local_offset
               held == Len(below[k].operands)
               arguments == below[k].argument_count
               size == SizeOf(below[k])
    <3>2. size = locals + held + arguments + 2 /\ F[k + 1] = F[k] - size
      BY <2>3, <3>1
    <3>3. locals \in Nat /\ held \in Nat /\ arguments \in Nat
      BY <2>2
    <3> DEFINE here == F[k]
               lower == F[k + 1]
    <3>4. size = locals + held + arguments + 2 /\ lower = here - size /\ here \in Int
      BY <2>4, <3>2
    <3> HIDE DEF locals, held, arguments, size, here, lower
    <3>5. size \in Nat /\ lower + 2 <= here - locals - held /\ lower + 2 <= here
      BY <3>3, <3>4
    <3>6. QED
      BY <3>5 DEF locals, held, size, here, lower
  <2>6. F[k + 1] + 1 \in Word /\ F[k + 1] + 2 \in Word
    <3> DEFINE here == F[k]
               lower == F[k + 1]
    <3>1. /\ here \in Int /\ lower \in Int /\ 0 <= lower /\ here < WordSize /\ WordSize \in Int
          /\ lower + 2 <= here
      BY <2>4, <2>5
    <3> HIDE DEF here, lower
    <3>2. /\ lower + 1 \in Int /\ 0 <= lower + 1 /\ lower + 1 < WordSize
          /\ lower + 2 \in Int /\ 0 <= lower + 2 /\ lower + 2 < WordSize
      BY <3>1
    <3>3. lower + 1 \in Word /\ lower + 2 \in Word
      BY <3>2, Words
    <3>4. QED
      BY <3>3 DEF lower
  <2>7. QED
    BY <2>1, <2>2, <2>4, <2>5, <2>6
<1>4. ASSUME NEW j \in 1..D, NEW k \in 1..D, j <= k PROVE F[k] <= F[j]
  <2> DEFINE T == {i \in 0..(D - j) : F[j + i] <= F[j]}
  <2>1. 0 \in T
    BY <1>1, <1>2
  <2>2. ASSUME NEW i \in 1..(D - j), i - 1 \in T PROVE i \in T
    <3>1. j + (i - 1) \in 1..(D - 1) /\ j + (i - 1) + 1 = j + i /\ j + i \in 1..D
      BY <1>1
    <3>2. F[j + i] <= F[j + (i - 1)]
      BY <1>3, <3>1
    <3>3. F[j + (i - 1)] <= F[j]
      BY <2>2
    <3>4. F[j + i] \in Int /\ F[j + (i - 1)] \in Int /\ F[j] \in Int
      BY <1>1, <1>2, <3>1
    <3>5. QED
      BY <3>2, <3>3, <3>4
  <2>3. 0..(D - j) \subseteq T
    <3> HIDE DEF T
    <3>1. D - j \in Nat
      BY <1>1
    <3>2. QED
      BY <2>1, <2>2, <3>1, FromZero
  <2>4. k - j \in T /\ j + (k - j) = k
    <3>1. k - j \in 0..(D - j) /\ j + (k - j) = k
      BY <1>1, <1>4
    <3> HIDE DEF T
    <3>2. QED
      BY <2>3, <3>1
  <2>5. QED
    BY <2>4
<1>5. m.r[REG_SP] \in Word /\ m.r[REG_SP] \in Int
  BY RegistersApart, MachineParts DEF Reserved
<1>6. m.r[REG_SP] = F[D] - n
  BY DEF Stacked
<1>7. QED
  BY <1>1, <1>2, <1>3, <1>4, <1>5, <1>6
-----------------------------------------------------------------------------
(* What the abstract specification sees of a memory *)

LocalsOf(memory, fp, n) ==
    [i \in 1..n |-> [cell |-> fp - (i - 1), value |-> memory[fp - (i - 1)]]]

PlaceOf(reg, fp, caller) ==
    fp - caller.next_local_offset - SavedBefore(reg, Range(caller.operands))

HeldOf(memory, fp, caller) ==
    [i \in DOMAIN caller.operands |-> memory[PlaceOf(caller.operands[i], fp, caller)]]

SuspendedOf(memory, F, below) ==
    [k \in 1..Len(below) |->
        [locals |-> LocalsOf(memory, F[k], below[k].next_local_offset),
         held |-> HeldOf(memory, F[k], below[k]),
         return_address |-> memory[F[k + 1] + 2]]]

CountOf(below, n, k) == IF k = Len(below) + 1 THEN n ELSE below[k].next_local_offset

(* Distinct registers are as many as the values they hold.                  *)
LEMMA HeldCount ==
    ASSUME NEW list \in Seq(General), IsInjective(list)
    PROVE  /\ Range(list) \in SUBSET General
           /\ Cardinality(Range(list)) = Len(list)
<1>1. /\ list \in [1..Len(list) -> Range(list)] /\ Range(list) \in SUBSET General
      /\ Len(list) \in Nat
  BY DEF Range
<1>2. list \in Bijection(1..Len(list), Range(list))
  BY <1>1 DEF Bijection, Injection, Surjection, Range, IsInjective
<1>3. ExistsBijection(1..Len(list), Range(list))
  BY <1>2 DEF ExistsBijection
<1>4. IsFiniteSet(1..Len(list)) /\ Cardinality(1..Len(list)) = Len(list)
  <2>1. 1 \in Int /\ Len(list) \in Int
    BY <1>1
  <2>2. /\ IsFiniteSet(1..Len(list))
        /\ Cardinality(1..Len(list)) = IF 1 > Len(list) THEN 0 ELSE Len(list) - 1 + 1
    BY <2>1, FS_Interval
  <2>3. QED
    BY <1>1, <2>2
<1>5. QED
  BY <1>1, <1>3, <1>4, FS_Bijection

(* A live local lies in its own frame, a saved register of a caller below   *)
(* the caller's locals and above ra and fp of the frame below.              *)
LEMMA LocalsLie ==
    ASSUME NEW m \in MachineStates, NEW below \in Seq(Callers), NEW n \in Nat, NEW F,
           Stacked(m, below, n, F),
           NEW k \in 1..(Len(below) + 1), NEW i \in 0..(CountOf(below, n, k) - 1)
    PROVE  /\ F[k] - i \in Word /\ F[k] - i \in Int
           /\ F[k] - i > m.r[REG_SP] /\ F[k] - i <= F[k] /\ F[k] - i > F[k] - CountOf(below, n, k)
           /\ k \in 1..Len(below) => F[k] - i > F[k + 1] + 2
<1> DEFINE count == CountOf(below, n, k)
           D == Len(below) + 1
           sp == m.r[REG_SP]
<1>1. F[k] \in Int /\ 0 <= F[k] /\ F[k] < WordSize /\ WordSize \in Int
  BY FrameCells, Words
<1>2. sp \in Int /\ 0 <= sp /\ sp = F[D] - n
  BY FrameCells, Words
<1>3. CASE k = D
  <2>1. count = n /\ ~(k \in 1..Len(below))
    BY <1>3 DEF CountOf
  <2> HIDE DEF count, D, sp
  <2>2. i \in Int /\ 0 <= i /\ i < n
    BY <2>1 DEF count
  <2>3. F[k] - i \in Int /\ 0 <= F[k] - i /\ F[k] - i < WordSize /\ F[k] - i > sp
        /\ F[k] - i <= F[k] /\ F[k] - i > F[k] - count
    BY <1>1, <1>2, <1>3, <2>1, <2>2
  <2>4. QED
    BY <2>1, <2>3, Words DEF count, sp
<1>4. CASE k # D
  <2>1. k \in 1..Len(below) /\ count = below[k].next_local_offset
    BY <1>4 DEF CountOf
  <2>2. k + 1 \in 1..D /\ D \in 1..D /\ k + 1 <= D
    BY <2>1
  <2>3. /\ F[k + 1] + 2 <= F[k] - count - Len(below[k].operands)
        /\ Len(below[k].operands) \in Nat /\ F[k + 1] \in Int /\ F[D] <= F[k + 1] /\ F[D] \in Int
    BY <2>1, <2>2, FrameCells
  <2>4. count \in Nat
    <3>1. below[k] \in Callers
      BY <2>1
    <3>2. QED
      BY <2>1, <3>1 DEF Callers
  <2>5. i \in Int /\ 0 <= i /\ i < count
    BY <2>4
  <2> DEFINE here == F[k]
             lower == F[k + 1]
             held == Len(below[k].operands)
  <2>6. here - i \in Int /\ 0 <= here - i /\ here - i < WordSize /\ here - i > sp
        /\ here - i <= here /\ here - i > here - count /\ here - i > lower + 2
    <3>1. /\ here \in Int /\ 0 <= here /\ here < WordSize /\ WordSize \in Int
          /\ sp \in Int /\ 0 <= sp /\ sp <= F[D]
      BY <1>1, <1>2, <2>3
    <3>2. /\ lower + 2 <= here - count - held /\ held \in Nat /\ lower \in Int
          /\ sp <= lower
      BY <1>2, <2>3, <3>1
    <3> HIDE DEF here, lower, held, count, D, sp
    <3>3. QED
      BY <2>4, <2>5, <3>1, <3>2
  <2>7. QED
    BY <2>6, Words
<1>5. QED
  BY <1>3, <1>4

(* A register saved by a call lies under the caller's locals and above the  *)
(* words of the frame below it.                                             *)
LEMMA SavedLie ==
    ASSUME NEW m \in MachineStates, NEW below \in Seq(Callers), NEW n \in Nat, NEW F,
           Stacked(m, below, n, F),
           NEW k \in 1..Len(below), IsInjective(below[k].operands),
           NEW reg \in Range(below[k].operands)
    PROVE  LET place == PlaceOf(reg, F[k], below[k])
           IN  /\ place \in Word /\ place \in Int /\ place > m.r[REG_SP]
               /\ place <= F[k] - below[k].next_local_offset
               /\ place > F[k + 1] + 2
<1> DEFINE D == Len(below) + 1
           sp == m.r[REG_SP]
           held == Len(below[k].operands)
           count == below[k].next_local_offset
           before == SavedBefore(reg, Range(below[k].operands))
<1>1. k + 1 \in 1..D /\ D \in 1..D /\ k + 1 <= D /\ k \in 1..D
  OBVIOUS
<1>2. below[k].operands \in Seq(General) /\ count \in Nat
  <2>1. below[k] \in Callers
    OBVIOUS
  <2>2. QED
    BY <2>1 DEF Callers
<1>3. Cardinality(Range(below[k].operands)) = held /\ before \in Nat /\ before < held /\ held \in Nat
  BY <1>2, HeldCount, SavedBeforeOrder
<1>4. /\ F[k + 1] + 2 <= F[k] - count - held /\ F[k] \in Int /\ F[k] \in Word
      /\ F[k + 1] \in Int /\ F[k + 1] \in Word /\ F[D] <= F[k + 1] /\ F[D] \in Int
      /\ sp = F[D] - n /\ sp \in Int
  BY <1>1, FrameCells
<1>5. 0 <= F[k + 1] /\ F[k] < WordSize /\ WordSize \in Int
  BY <1>4, Words
<1>6. PlaceOf(reg, F[k], below[k]) = F[k] - count - before
  BY DEF PlaceOf
<1> HIDE DEF D, sp, held, count, before
<1> DEFINE place == F[k] - count - before
<1>7. /\ place \in Int /\ 0 <= place /\ place < WordSize
      /\ place > sp /\ place <= F[k] - count /\ place > F[k + 1] + 2
  <2> DEFINE here == F[k]
             lower == F[k + 1]
  <2>1. /\ here \in Int /\ here < WordSize /\ lower \in Int /\ 0 <= lower /\ WordSize \in Int
        /\ lower + 2 <= here - count - held /\ sp <= lower /\ sp \in Int
    BY <1>4, <1>5
  <2> HIDE DEF here, lower
  <2>2. LET p == here - count - before
        IN  p \in Int /\ 0 <= p /\ p < WordSize /\ p > sp /\ p <= here - count /\ p > lower + 2
    BY <1>2, <1>3, <2>1
  <2>3. QED
    BY <2>2 DEF here, lower
<1>8. place \in Word
  <2> HIDE DEF place
  <2>1. QED
    BY <1>7, Words
<1>9. QED
  BY <1>6, <1>7, <1>8 DEF sp, count
Injective(below) == \A k \in 1..Len(below) : IsInjective(below[k].operands)

(* The callers are seen through cells above fp alone.                       *)
LEMMA SuspendedAgree ==
    ASSUME NEW m \in MachineStates, NEW below \in Seq(Callers), NEW n \in Nat, NEW F,
           Stacked(m, below, n, F), Injective(below), NEW memory,
           \A a \in Word : a > F[Len(below) + 1] => memory[a] = m.m[a]
    PROVE  /\ SuspendedOf(memory, F, below) = SuspendedOf(m.m, F, below)
           /\ \A k \in 1..Len(below) : memory[F[k + 1] + 1] = m.m[F[k + 1] + 1]
<1> DEFINE D == Len(below) + 1
<1>1. ASSUME NEW k \in 1..Len(below)
      PROVE  /\ F[D] <= F[k + 1] /\ F[D] \in Int /\ F[k + 1] \in Int
             /\ F[k + 1] + 1 \in Word /\ F[k + 1] + 2 \in Word
  <2>1. k + 1 \in 1..D /\ D \in 1..D /\ k + 1 <= D
    OBVIOUS
  <2>2. QED
    BY <2>1, FrameCells
<1>2. ASSUME NEW k \in 1..Len(below)
      PROVE  /\ memory[F[k + 1] + 1] = m.m[F[k + 1] + 1]
             /\ memory[F[k + 1] + 2] = m.m[F[k + 1] + 2]
  <2>1. F[k + 1] + 1 > F[D] /\ F[k + 1] + 2 > F[D]
    BY <1>1
  <2>2. QED
    BY <1>1, <2>1
<1>3. ASSUME NEW k \in 1..Len(below)
      PROVE  LocalsOf(memory, F[k], below[k].next_local_offset) =
                 LocalsOf(m.m, F[k], below[k].next_local_offset)
  <2> DEFINE count == below[k].next_local_offset
  <2>0. count \in Nat /\ CountOf(below, n, k) = count /\ k \in 1..D
    <3>1. below[k] \in Callers /\ k # D /\ k \in 1..D
      OBVIOUS
    <3>2. count \in Nat
      BY <3>1 DEF Callers
    <3>3. QED
      BY <3>1, <3>2 DEF CountOf
  <2>1. ASSUME NEW i \in 1..count PROVE memory[F[k] - (i - 1)] = m.m[F[k] - (i - 1)]
    <3>1. i - 1 \in 0..(CountOf(below, n, k) - 1)
      BY <2>0
    <3>2. F[k] - (i - 1) \in Word /\ F[k] - (i - 1) \in Int /\ F[k] - (i - 1) > F[k + 1] + 2
      BY <2>0, <3>1, LocalsLie
    <3>3. F[k] - (i - 1) > F[D]
      <4> DEFINE cell == F[k] - (i - 1)
                 lower == F[k + 1]
                 here == F[D]
      <4>1. cell \in Int /\ cell > lower + 2 /\ here <= lower /\ here \in Int /\ lower \in Int
        BY <1>1, <3>2
      <4> HIDE DEF cell, lower, here
      <4>2. cell > here
        BY <4>1
      <4>3. QED
        BY <4>2 DEF cell, here
    <3>4. QED
      BY <3>2, <3>3
  <2> HIDE DEF count
  <2>2. QED
    BY <2>1 DEF LocalsOf, count
<1>4. ASSUME NEW k \in 1..Len(below)
      PROVE  HeldOf(memory, F[k], below[k]) = HeldOf(m.m, F[k], below[k])
  <2>1. ASSUME NEW i \in DOMAIN below[k].operands
        PROVE  memory[PlaceOf(below[k].operands[i], F[k], below[k])] =
                   m.m[PlaceOf(below[k].operands[i], F[k], below[k])]
    <3> DEFINE reg == below[k].operands[i]
               place == PlaceOf(reg, F[k], below[k])
    <3>1. reg \in Range(below[k].operands)
      BY DEF Range
    <3>2. IsInjective(below[k].operands)
      BY DEF Injective
    <3> HIDE DEF reg
    <3>3. place \in Word /\ place \in Int /\ place > F[k + 1] + 2
      BY <3>1, <3>2, SavedLie
    <3> HIDE DEF place
    <3>4. place > F[D]
      BY <1>1, <3>3
    <3>5. QED
      BY <3>3, <3>4 DEF place, reg
  <2>2. QED
    BY <2>1 DEF HeldOf
<1>5. SuspendedOf(memory, F, below) = SuspendedOf(m.m, F, below)
  BY <1>2, <1>3, <1>4 DEF SuspendedOf
<1>6. QED
  BY <1>2, <1>5

(* The running activation's locals are seen through cells above sp.         *)
LEMMA LocalsAgree ==
    ASSUME NEW m \in MachineStates, NEW below \in Seq(Callers), NEW n \in Nat, NEW F,
           Stacked(m, below, n, F), NEW memory,
           \A a \in Word : a > m.r[REG_SP] => memory[a] = m.m[a]
    PROVE  LocalsOf(memory, F[Len(below) + 1], n) = LocalsOf(m.m, F[Len(below) + 1], n)
<1> DEFINE D == Len(below) + 1
<1>1. CountOf(below, n, D) = n /\ D \in 1..D
  BY DEF CountOf
<1>2. ASSUME NEW i \in 1..n PROVE memory[F[D] - (i - 1)] = m.m[F[D] - (i - 1)]
  <2>1. i - 1 \in 0..(CountOf(below, n, D) - 1)
    BY <1>1
  <2>2. F[D] - (i - 1) \in Word /\ F[D] - (i - 1) > m.r[REG_SP]
    BY <1>1, <2>1, LocalsLie
  <2>3. QED
    BY <2>2
<1> HIDE DEF D
<1>3. QED
  BY <1>2 DEF LocalsOf, D

(* The cell is a local's of one of the activations.                         *)
LocalAt(cell, F, below, n) ==
    \E k \in 1..(Len(below) + 1) : \E i \in 0..(CountOf(below, n, k) - 1) : cell = F[k] - i

(* The suspended activations after a store through a pointer.               *)
WrittenIn(list, cell, value) ==
    [j \in DOMAIN list |-> [list[j] EXCEPT !.locals = Calls!Written(@, cell, value)]]

(* A store of this value to the cell led from m to this memory.             *)
StoreShows(m, memory, below, n, F, cell, value) ==
    LET D == Len(below) + 1
    IN  /\ LocalsOf(memory, F[D], n) = Calls!Written(LocalsOf(m.m, F[D], n), cell, value)
        /\ SuspendedOf(memory, F, below) =
               WrittenIn(SuspendedOf(m.m, F, below), cell, value)
        /\ \A j \in 1..Len(below) : memory[F[j + 1] + 1] = m.m[F[j + 1] + 1]

(* A store to a live local is seen there and nowhere else.                  *)
LEMMA StoreSeen ==
    ASSUME NEW m \in MachineStates, NEW below \in Seq(Callers), NEW n \in Nat, NEW F,
           Stacked(m, below, n, F), Injective(below),
           NEW value, NEW cell, LocalAt(cell, F, below, n),
           NEW memory, memory[cell] = value,
           \A a \in Word : a # cell => memory[a] = m.m[a]
    PROVE  StoreShows(m, memory, below, n, F, cell, value)
<1> DEFINE D == Len(below) + 1
           s == SuspendedOf(m.m, F, below)
<1>a. PICK k \in 1..D : \E i \in 0..(CountOf(below, n, k) - 1) : cell = F[k] - i
  BY DEF LocalAt
<1>b. PICK i \in 0..(CountOf(below, n, k) - 1) : cell = F[k] - i
  BY <1>a
<1>1. /\ cell \in Word /\ cell \in Int /\ cell <= F[k] /\ cell > F[k] - CountOf(below, n, k)
      /\ k \in 1..Len(below) => cell > F[k + 1] + 2
  BY <1>b, LocalsLie
<1>2. memory[cell] = value /\ \A a \in Word : a # cell => memory[a] = m.m[a]
  OBVIOUS
<1>3. \A j \in 1..D : F[j] \in Int /\ F[j] \in Word
  BY FrameCells
<1>4. ASSUME NEW j \in 1..Len(below)
      PROVE  cell <= F[j + 1] \/ cell > F[j] \/ (cell > F[j] - below[j].next_local_offset /\ cell <= F[j])
  <2>0. j + 1 \in 1..D /\ j \in 1..D /\ k \in 1..D /\ j \in Int /\ k \in Int
    OBVIOUS
  <2>1. CASE j < k
    <3>1. F[k] <= F[j + 1] /\ F[k] \in Int /\ F[j + 1] \in Int
      <4>1. j + 1 <= k
        BY <2>0, <2>1
      <4>2. QED
        BY <2>0, <4>1, FrameCells
    <3>2. QED
      BY <1>1, <3>1
  <2>2. CASE j = k
    <3>1. CountOf(below, n, k) = below[j].next_local_offset
      BY <2>2 DEF CountOf
    <3>2. QED
      BY <1>1, <2>2, <3>1
  <2>3. CASE j > k
    <3>1. k \in 1..Len(below) /\ k + 1 \in 1..D /\ k + 1 <= j
      BY <2>0, <2>3
    <3>2. F[j] <= F[k + 1] /\ F[j] \in Int /\ F[k + 1] \in Int
      BY <2>0, <3>1, FrameCells
    <3>3. QED
      BY <1>1, <3>1, <3>2
  <2>4. QED
    BY <2>0, <2>1, <2>2, <2>3
<1>5. ASSUME NEW j \in 1..Len(below)
      PROVE  /\ memory[F[j + 1] + 1] = m.m[F[j + 1] + 1]
             /\ memory[F[j + 1] + 2] = m.m[F[j + 1] + 2]
  <2>1. /\ F[j + 1] + 1 \in Word /\ F[j + 1] + 2 \in Word /\ F[j] \in Int /\ F[j + 1] \in Int
        /\ F[j + 1] + 2 <= F[j] - below[j].next_local_offset - Len(below[j].operands)
        /\ Len(below[j].operands) \in Nat /\ below[j] \in Callers
    <3>1. j \in 1..D /\ j + 1 \in 1..D
      OBVIOUS
    <3>2. QED
      BY <3>1, FrameCells
  <2>2. below[j].next_local_offset \in Nat
    BY <2>1 DEF Callers
  <2>3. F[j + 1] + 2 <= F[j] - below[j].next_local_offset /\ F[j + 1] + 2 <= F[j]
    <3> DEFINE held == Len(below[j].operands)
               count == below[j].next_local_offset
               here == F[j]
               lower == F[j + 1]
    <3>1. held \in Nat /\ count \in Nat
      BY <2>1, <2>2
    <3>2. lower + 2 <= here - count - held /\ lower \in Int /\ here \in Int
      BY <2>1
    <3> HIDE DEF held, count, here, lower
    <3>3. lower + 2 <= here - count /\ lower + 2 <= here
      BY <3>1, <3>2
    <3>4. QED
      BY <3>3 DEF count, here, lower
  <2>4. cell # F[j + 1] + 1 /\ cell # F[j + 1] + 2
    <3> DEFINE count == below[j].next_local_offset
               here == F[j]
               lower == F[j + 1]
    <3>1. cell <= lower \/ cell > here \/ cell > here - count
      BY <1>4
    <3>2. lower + 2 <= here - count /\ count \in Nat /\ lower + 2 <= here
      BY <2>2, <2>3
    <3>3. lower \in Int /\ here \in Int /\ cell \in Int
      BY <1>1, <2>1
    <3> HIDE DEF count, here, lower
    <3>4. cell # lower + 1 /\ cell # lower + 2
      BY <3>1, <3>2, <3>3
    <3>5. QED
      BY <3>4 DEF lower
  <2>5. QED
    BY <1>2, <2>1, <2>4
<1>6. ASSUME NEW j \in 1..Len(below)
      PROVE  HeldOf(memory, F[j], below[j]) = HeldOf(m.m, F[j], below[j])
  <2>1. ASSUME NEW x \in DOMAIN below[j].operands
        PROVE  memory[PlaceOf(below[j].operands[x], F[j], below[j])] =
                   m.m[PlaceOf(below[j].operands[x], F[j], below[j])]
    <3> DEFINE reg == below[j].operands[x]
               place == PlaceOf(reg, F[j], below[j])
               count == below[j].next_local_offset
    <3>1. reg \in Range(below[j].operands)
      BY DEF Range
    <3>2. IsInjective(below[j].operands)
      BY DEF Injective
    <3> HIDE DEF reg
    <3>3. /\ place \in Word /\ place \in Int /\ place > F[j + 1] + 2
          /\ place <= F[j] - count
      BY <3>1, <3>2, SavedLie
    <3>4. F[j] \in Int /\ F[j + 1] \in Int /\ count \in Nat
      <4>1. j \in 1..D /\ j + 1 \in 1..D /\ below[j] \in Callers
        OBVIOUS
      <4>2. QED
        BY <1>3, <4>1 DEF Callers
    <3>5. cell <= F[j + 1] \/ cell > F[j] \/ cell > F[j] - count
      BY <1>4
    <3> HIDE DEF place, count
    <3>6. place # cell
      <4> DEFINE here == F[j]
                 lower == F[j + 1]
      <4>1. /\ place \in Int /\ place > lower + 2 /\ place <= here - count
            /\ lower \in Int /\ here \in Int /\ count \in Nat /\ cell \in Int
            /\ cell <= lower \/ cell > here \/ cell > here - count
        BY <1>1, <3>3, <3>4, <3>5
      <4> HIDE DEF here, lower
      <4>2. QED
        BY <4>1
    <3>7. QED
      BY <1>2, <3>3, <3>6 DEF place, reg
  <2>2. QED
    BY <2>1 DEF HeldOf
<1>7. ASSUME NEW j \in 1..D, NEW count, count = CountOf(below, n, j)
      PROVE  LocalsOf(memory, F[j], count) = Calls!Written(LocalsOf(m.m, F[j], count), cell, value)
  <2> DEFINE old == LocalsOf(m.m, F[j], count)
             new == LocalsOf(memory, F[j], count)
  <2>1. ASSUME NEW x \in 1..count
        PROVE  new[x] = IF old[x].cell = cell THEN [old[x] EXCEPT !.value = value] ELSE old[x]
    <3> DEFINE a == F[j] - (x - 1)
    <3>1. a \in Word
      <4>1. x - 1 \in 0..(CountOf(below, n, j) - 1)
        <5>1. count \in Nat
          <6>1. j = D => count = n
            BY <1>7 DEF CountOf
          <6>2. j # D => count \in Nat
            <7>1. j # D => below[j] \in Callers /\ count = below[j].next_local_offset
              BY <1>7 DEF CountOf
            <7>2. QED
              BY <7>1 DEF Callers
          <6>3. QED
            BY <6>1, <6>2
        <5>2. QED
          BY <1>7, <5>1
      <4>2. QED
        BY <4>1, LocalsLie
    <3>2. old[x] = [cell |-> a, value |-> m.m[a]] /\ new[x] = [cell |-> a, value |-> memory[a]]
      BY DEF LocalsOf
    <3> HIDE DEF old, new, a
    <3>3. QED
      BY <1>2, <3>1, <3>2
  <2>2. DOMAIN old = 1..count /\ new = [x \in 1..count |-> new[x]]
    BY DEF LocalsOf
  <2> HIDE DEF old, new
  <2>3. new = Calls!Written(old, cell, value)
    BY <2>1, <2>2 DEF Calls!Written
  <2>4. QED
    BY <2>3 DEF old, new
<1>8. LocalsOf(memory, F[D], n) = Calls!Written(LocalsOf(m.m, F[D], n), cell, value)
  <2>1. CountOf(below, n, D) = n /\ D \in 1..D
    BY DEF CountOf
  <2>2. QED
    BY <1>7, <2>1
<1>9. ASSUME NEW j \in 1..Len(below)
      PROVE  SuspendedOf(memory, F, below)[j] =
                 [s[j] EXCEPT !.locals = Calls!Written(@, cell, value)]
  <2> DEFINE count == below[j].next_local_offset
  <2>1. CountOf(below, n, j) = count /\ j \in 1..D
    BY DEF CountOf
  <2>2. LocalsOf(memory, F[j], count) = Calls!Written(LocalsOf(m.m, F[j], count), cell, value)
    BY <1>7, <2>1
  <2>3. s[j] = [locals |-> LocalsOf(m.m, F[j], count),
                held |-> HeldOf(m.m, F[j], below[j]),
                return_address |-> m.m[F[j + 1] + 2]]
    BY DEF SuspendedOf
  <2>4. SuspendedOf(memory, F, below)[j] =
            [locals |-> LocalsOf(memory, F[j], count),
             held |-> HeldOf(memory, F[j], below[j]),
             return_address |-> memory[F[j + 1] + 2]]
    BY DEF SuspendedOf
  <2>5. memory[F[j + 1] + 2] = m.m[F[j + 1] + 2]
    BY <1>5
  <2>6. HeldOf(memory, F[j], below[j]) = HeldOf(m.m, F[j], below[j])
    BY <1>6
  <2> DEFINE old == LocalsOf(m.m, F[j], count)
             held == HeldOf(m.m, F[j], below[j])
             at == m.m[F[j + 1] + 2]
  <2>7. s[j] = [locals |-> old, held |-> held, return_address |-> at]
    BY <2>3
  <2>8. SuspendedOf(memory, F, below)[j] =
            [locals |-> Calls!Written(old, cell, value), held |-> held, return_address |-> at]
    BY <2>2, <2>4, <2>5, <2>6
  <2> HIDE DEF s, count, old, held, at
  <2>9. QED
    BY <2>7, <2>8
<1>10. DOMAIN s = 1..Len(below)
       /\ SuspendedOf(memory, F, below) = [j \in 1..Len(below) |-> SuspendedOf(memory, F, below)[j]]
  BY DEF SuspendedOf
<1>11. SuspendedOf(memory, F, below) = WrittenIn(s, cell, value)
  <2> HIDE DEF s
  <2>1. QED
    BY <1>9, <1>10 DEF WrittenIn
<1>12. QED
  BY <1>5, <1>8, <1>11 DEF StoreShows
-----------------------------------------------------------------------------
(* The inductive invariant, and what the refinement mapping finds *)

(* What code was compiled with at a point: locals, blocks open, values held. *)
Compiled(n, blocks, list) ==
    /\ n \in Nat
    /\ blocks \in Seq(Nat) /\ blocks # <<>>
    /\ \A i, j \in DOMAIN blocks : i <= j => blocks[i] <= blocks[j] /\ blocks[j] <= n
    /\ list \in Seq(General) /\ IsInjective(list)

FramesInv ==
    /\ cpu \in MachineStates
    /\ Compiled(next_local_offset, bases, operands)
    /\ callers \in Seq(Callers)
    /\ \A k \in 1..Len(callers) :
          Compiled(callers[k].next_local_offset, callers[k].bases, callers[k].operands)
    /\ \E F : Stacked(cpu, callers, next_local_offset, F)

(* The definitions of Frames, found from the frame pointers F.              *)
Seen(F) ==
    /\ FramePointer = F
    /\ RunningLocals = LocalsOf(cpu.m, F[Depth], next_local_offset)
    /\ Suspended = SuspendedOf(cpu.m, F, callers)

(* The conjuncts of the invariant the steps use most.                       *)
LEMMA InvParts ==
    ASSUME FramesInv
    PROVE  /\ cpu \in MachineStates /\ callers \in Seq(Callers)
           /\ next_local_offset \in Nat /\ operands \in Seq(General) /\ IsInjective(operands)
           /\ Len(callers) \in Nat /\ DOMAIN callers = 1..Len(callers)
           /\ Depth \in Nat /\ Depth = Len(callers) + 1
           /\ Injective(callers)
<1>1. Len(callers) \in Nat /\ DOMAIN callers = 1..Len(callers)
  BY DEF FramesInv
<1>2. QED
  BY <1>1 DEF FramesInv, Compiled, Injective, Depth

(* The refinement mapping, which follows the saved fps through the memory,  *)
(* sees the frames the invariant speaks of.                                 *)
LEMMA ViewFound ==
    FramesInv => \A F : Stacked(cpu, callers, next_local_offset, F) => Seen(F)
<1> SUFFICES ASSUME FramesInv, NEW F, Stacked(cpu, callers, next_local_offset, F)
             PROVE  Seen(F)
  OBVIOUS
<1>1. /\ cpu \in MachineStates /\ callers \in Seq(Callers) /\ next_local_offset \in Nat
      /\ Len(callers) \in Nat /\ DOMAIN callers = 1..Len(callers)
      /\ Depth \in Nat \ {0} /\ Depth = Len(callers) + 1 /\ Depth - 1 = Len(callers)
      /\ Injective(callers)
  BY InvParts
<1>2. FramePointer = F
  <2>1. F \in [1..Depth -> Word] /\ F[Depth] = cpu.r[REG_FP]
    BY <1>1 DEF Stacked
  <2>2. \A k \in 1..(Depth - 1) : F[k + 1] + 1 \in Word /\ F[k] = cpu.m[F[k + 1] + 1]
    BY <1>1, FrameCells DEF Stacked
  <2> DEFINE Follows(f) ==
                 f = [k \in 1..Depth |->
                         IF k = Depth THEN cpu.r[REG_FP] ELSE cpu.m[Byte(f[k + 1] + 1)]]
  <2>3. Follows(F)
    <3>1. \A k \in 1..Depth : k # Depth => k \in 1..(Depth - 1)
      BY <1>1
    <3>2. \A k \in 1..Depth : F[k] = IF k = Depth THEN cpu.r[REG_FP] ELSE cpu.m[Byte(F[k + 1] + 1)]
      BY <2>1, <2>2, <3>1, Words
    <3>3. QED
      BY <2>1, <3>2
  <2>4. FramePointer = CHOOSE f : Follows(f)
    BY DEF FramePointer
  <2>5. Follows(FramePointer)
    <3> HIDE DEF Follows
    <3>1. QED
      BY <2>3, <2>4
  <2>6. /\ FramePointer = [k \in 1..Depth |-> FramePointer[k]]
        /\ FramePointer[Depth] = F[Depth]
        /\ Linked(cpu.m, Depth, FramePointer)
    BY <1>1, <2>1, <2>5 DEF Linked
  <2>7. F = [k \in 1..Depth |-> F[k]] /\ Linked(cpu.m, Depth, F)
    BY <2>1, <2>2, Words DEF Linked
  <2>8. QED
    BY <1>1, <2>6, <2>7, ChainIsUnique
<1>3. \A k \in 1..Depth : LocalCount(k) = CountOf(callers, next_local_offset, k)
  BY <1>1 DEF LocalCount, CountOf
<1>4. ASSUME NEW k \in 1..Depth PROVE Locals(k) = LocalsOf(cpu.m, F[k], LocalCount(k))
  <2>1. ASSUME NEW i \in 1..LocalCount(k) PROVE LocalCell(FramePointer[k], i - 1) = F[k] - (i - 1)
    <3>1. i - 1 \in 0..(CountOf(callers, next_local_offset, k) - 1)
      <4>1. LocalCount(k) \in Nat
        <5>1. k # Depth => callers[k] \in Callers
          BY <1>1
        <5>2. QED
          BY <1>1, <5>1 DEF LocalCount, Callers
      <4>2. QED
        BY <1>3, <4>1
    <3>2. F[k] - (i - 1) \in Word
      BY <1>1, <3>1, LocalsLie
    <3>3. QED
      BY <1>2, <3>2, Words DEF LocalCell
  <2>2. QED
    BY <2>1 DEF Locals, LocalsOf
<1>5. ASSUME NEW k \in 1..Len(callers) PROVE Suspended[k] = SuspendedOf(cpu.m, F, callers)[k]
  <2>1. k \in 1..Depth /\ k # Depth /\ k + 1 \in 1..Depth
    BY <1>1
  <2>2. LocalCount(k) = callers[k].next_local_offset
    BY <2>1 DEF LocalCount
  <2>3. Locals(k) = LocalsOf(cpu.m, F[k], callers[k].next_local_offset)
    BY <1>4, <2>1, <2>2
  <2>4. cpu.m[Byte(FramePointer[k + 1] + 2)] = cpu.m[F[k + 1] + 2]
    <3>1. F[k + 1] + 2 \in Word
      BY <1>1, FrameCells
    <3>2. QED
      BY <1>2, <3>1, Words
  <2>5. ASSUME NEW i \in DOMAIN callers[k].operands
        PROVE  SavedValue(k, callers[k].operands[i]) =
                   cpu.m[PlaceOf(callers[k].operands[i], F[k], callers[k])]
    <3> DEFINE reg == callers[k].operands[i]
    <3>1. reg \in Range(callers[k].operands) /\ IsInjective(callers[k].operands)
      BY <1>1 DEF Range, Injective
    <3>2. PlaceOf(reg, F[k], callers[k]) \in Word
      BY <1>1, <3>1, SavedLie
    <3>3. QED
      BY <1>2, <2>2, <3>2, Words DEF SavedValue, PlaceOf
  <2>6. [i \in DOMAIN callers[k].operands |-> SavedValue(k, callers[k].operands[i])] =
            HeldOf(cpu.m, F[k], callers[k])
    BY <2>5 DEF HeldOf
  <2>7. QED
    BY <1>1, <2>3, <2>4, <2>6 DEF Suspended, SuspendedOf
<1>6. Suspended = SuspendedOf(cpu.m, F, callers)
  BY <1>1, <1>5 DEF Suspended, SuspendedOf
<1>7. RunningLocals = LocalsOf(cpu.m, F[Depth], next_local_offset)
  <2>1. LocalCount(Depth) = next_local_offset /\ Depth \in 1..Depth
    BY <1>1 DEF LocalCount
  <2>2. QED
    BY <1>4, <2>1 DEF RunningLocals
<1>8. QED
  BY <1>2, <1>6, <1>7 DEF Seen

(* The same of the state after a step.                                      *)
LEMMA ViewFoundNext ==
    FramesInv' => \A F : Stacked(cpu, callers, next_local_offset, F)' => Seen(F)'
<1>1. FramesInv' => (\A F : Stacked(cpu, callers, next_local_offset, F) => Seen(F))'
  BY ViewFound, PTL
<1>2. QED
  BY <1>1

(* The live cells of the abstract specification are the locals' cells.      *)
LEMMA LiveFound ==
    ASSUME FramesInv, NEW F, Stacked(cpu, callers, next_local_offset, F), NEW cell
    PROVE  /\ (cell \in Calls!Live <=> LocalAt(cell, F, callers, next_local_offset))
           /\ (cell \in LocalCells <=> cell \in Calls!Live)
<1> DEFINE Count(k) == CountOf(callers, next_local_offset, k)
<1>1. /\ cpu \in MachineStates /\ callers \in Seq(Callers) /\ next_local_offset \in Nat
      /\ Len(callers) \in Nat /\ DOMAIN callers = 1..Len(callers)
      /\ Depth \in Nat \ {0} /\ Depth = Len(callers) + 1
  BY InvParts
<1>2. Seen(F)
  BY ViewFound
<1>3. \A k \in 1..Depth : LocalCount(k) = Count(k)
  BY <1>1 DEF LocalCount, CountOf
<1>4. \A k \in 1..Depth : Count(k) \in Nat
  <2>1. ASSUME NEW k \in 1..Depth PROVE Count(k) \in Nat
    <3>1. k # Depth => callers[k] \in Callers
      BY <1>1
    <3>2. QED
      BY <1>1, <3>1 DEF CountOf, Callers
  <2>2. QED
    BY <2>1
<1>5. cell \in LocalCells <=> \E k \in 1..Depth : \E i \in 0..(Count(k) - 1) : cell = F[k] - i
  <2>1. ASSUME NEW k \in 1..Depth, NEW i \in 0..(Count(k) - 1)
        PROVE  LocalCell(FramePointer[k], i) = F[k] - i
    <3>1. F[k] - i \in Word
      BY <1>1, LocalsLie
    <3>2. QED
      BY <1>2, <3>1, Words DEF LocalCell, Seen
  <2>2. LocalCells = UNION {{LocalCell(FramePointer[k], i) : i \in 0..(Count(k) - 1)} : k \in 1..Depth}
    BY <1>3 DEF LocalCells
  <2> HIDE DEF Count
  <2>3. QED
    BY <2>1, <2>2
<1>6. ASSUME NEW k \in 1..Depth, NEW list, list = LocalsOf(cpu.m, F[k], Count(k))
      PROVE  (\E i \in DOMAIN list : cell = list[i].cell) <=>
                 (\E i \in 0..(Count(k) - 1) : cell = F[k] - i)
  <2>1. DOMAIN list = 1..Count(k) /\ \A i \in 1..Count(k) : list[i].cell = F[k] - (i - 1)
    BY <1>6 DEF LocalsOf
  <2>2. Count(k) \in Nat
    BY <1>4
  <2> HIDE DEF Count
  <2>3. ASSUME NEW i \in 1..Count(k) PROVE i - 1 \in 0..(Count(k) - 1)
    BY <2>2
  <2>4. ASSUME NEW i \in 0..(Count(k) - 1) PROVE i + 1 \in 1..Count(k) /\ (i + 1) - 1 = i
    BY <2>2
  <2>5. QED
    BY <2>1, <2>3, <2>4
<1>7. cell \in Calls!Live <=> \E k \in 1..Depth : \E i \in 0..(Count(k) - 1) : cell = F[k] - i
  <2>1. \A k \in 1..Len(callers) : /\ k \in 1..Depth /\ Suspended[k].locals = LocalsOf(cpu.m, F[k], Count(k))
    BY <1>1, <1>2 DEF Seen, SuspendedOf, CountOf
  <2>2. Depth \in 1..Depth /\ RunningLocals = LocalsOf(cpu.m, F[Depth], Count(Depth))
    BY <1>1, <1>2 DEF Seen, CountOf
  <2>3. \A k \in 1..Depth : k = Depth \/ k \in 1..Len(callers)
    BY <1>1
  <2>4. DOMAIN Suspended = 1..Len(callers)
    BY <1>1 DEF Suspended
  <2>5. cell \in Calls!Live <=>
            \/ \E i \in DOMAIN RunningLocals : cell = RunningLocals[i].cell
            \/ \E k \in 1..Len(callers) : \E i \in DOMAIN Suspended[k].locals :
                   cell = Suspended[k].locals[i].cell
    BY <2>4 DEF Calls!Live
  <2> HIDE DEF Count
  <2>6. QED
    BY <1>6, <2>1, <2>2, <2>3, <2>5
<1>8. LocalAt(cell, F, callers, next_local_offset) <=>
          \E k \in 1..Depth : \E i \in 0..(Count(k) - 1) : cell = F[k] - i
  BY <1>1 DEF LocalAt
<1> HIDE DEF Count
<1>9. QED
  BY <1>5, <1>7, <1>8

(* Frames stay where they are while the saved fps and fp do.                *)
LEMMA StackedAgain ==
    ASSUME NEW m, NEW below, NEW n, NEW F, Stacked(m, below, n, F),
           NEW after, NEW count,
           after.r[REG_FP] = m.r[REG_FP], after.r[REG_SP] = m.r[REG_FP] - count,
           StackLimit <= after.r[REG_SP],
           \A k \in 1..Len(below) : after.m[F[k + 1] + 1] = m.m[F[k + 1] + 1]
    PROVE  Stacked(after, below, count, F)
BY DEF Stacked

(* The start code of the program makes the one frame of main, empty.        *)
LEMMA FramesStart == Init => FramesInv /\ Calls!Init
<1> SUFFICES ASSUME Init PROVE FramesInv /\ Calls!Init
  OBVIOUS
<1> DEFINE reset == [r |-> [reg \in Registers |-> 0], m |-> [a \in Word |-> 0]]
           high == Afc(reset, REG_SP, WordSize - 1)
           F == [k \in {1} |-> WordSize - 1]
<1>1. cpu = Cop(high, REG_FP, REG_SP)
  BY DEF Init
<1>2. 0 \in Word /\ WordSize - 1 \in Word /\ WordSize \in Nat
  BY Words, WordSizeAssumption, LastGeneralAssumption DEF Word
<1>3. reset \in MachineStates
  BY <1>2 DEF MachineStates
<1> HIDE DEF reset
<1>4. Wrote(REG_SP, WordSize - 1, reset, high)
  BY <1>2, <1>3, RegistersApart, RegisterWritten DEF Reserved
<1> HIDE DEF high
<1>5. Wrote(REG_FP, high.r[REG_SP], high, cpu)
  <2>1. high \in MachineStates /\ REG_FP \in Registers /\ REG_SP \in Registers
    BY <1>4, RegistersApart DEF Reserved, Wrote
  <2>2. QED
    BY <1>1, <2>1, RegisterWritten
<1>6. cpu \in MachineStates /\ cpu.r[REG_SP] = WordSize - 1 /\ cpu.r[REG_FP] = WordSize - 1
  BY <1>4, <1>5, RegistersApart DEF Wrote, OnlyIn, Reserved
<1>7. callers = <<>> /\ Len(callers) = 0 /\ next_local_offset = 0 /\ bases = <<0>> /\ operands = <<>>
      /\ event = <<"start">>
  BY DEF Init
<1>8. Stacked(cpu, callers, next_local_offset, F)
  <2>1. StackLimit <= WordSize - 1
    BY FramesAssumption, Words
  <2>2. QED
    BY <1>2, <1>6, <1>7, <2>1 DEF Stacked
<1>9. FramesInv
  <2>1. Compiled(next_local_offset, bases, operands)
    BY <1>7 DEF Compiled, IsInjective
  <2>2. QED
    BY <1>6, <1>7, <1>8, <2>1 DEF FramesInv
<1>10. RunningLocals = <<>> /\ Suspended = <<>> /\ Held = <<>>
  <2>1. Seen(F)
    BY <1>8, <1>9, ViewFound
  <2>2. RunningLocals = <<>>
    BY <1>7, <2>1 DEF Seen, LocalsOf
  <2>3. QED
    BY <1>7, <2>2 DEF Suspended, Held
<1>11. QED
  BY <1>7, <1>9, <1>10 DEF Calls!Init
-----------------------------------------------------------------------------
(* The steps of an expression *)

(* In every state there are frames, the mapping sees them, and the running  *)
(* one is at fp.                                                            *)
LEMMA Places ==
    ASSUME FramesInv
    PROVE  \E F : /\ Stacked(cpu, callers, next_local_offset, F)
                  /\ Seen(F)
                  /\ F[Depth] = cpu.r[REG_FP]
BY ViewFound, InvParts DEF FramesInv, Stacked

(* The registers hold words, and sp stands as far below fp as there are     *)
(* locals, above the cells kept free for an expression.                     *)
LEMMA RegisterWords ==
    ASSUME FramesInv
    PROVE  /\ \A reg \in Registers : cpu.r[reg] \in Word /\ cpu.r[reg] \in Int
           /\ cpu.r[REG_SP] \in Int /\ 0 <= cpu.r[REG_SP] /\ cpu.r[REG_SP] < WordSize
           /\ cpu.r[REG_FP] \in Int /\ 0 <= cpu.r[REG_FP] /\ cpu.r[REG_FP] < WordSize
           /\ cpu.r[REG_SP] = cpu.r[REG_FP] - next_local_offset
           /\ StackLimit <= cpu.r[REG_SP] /\ StackLimit \in Nat /\ WordSize \in Int
<1>1. cpu \in MachineStates
  BY DEF FramesInv
<1>2. \A reg \in Registers : cpu.r[reg] \in Word
  BY <1>1, MachineParts
<1>3. REG_SP \in Registers /\ REG_FP \in Registers
  BY RegistersApart DEF Reserved
<1>4. cpu.r[REG_SP] = cpu.r[REG_FP] - next_local_offset /\ StackLimit <= cpu.r[REG_SP]
  BY DEF FramesInv, Stacked
<1>5. StackLimit \in Nat /\ WordSize \in Int
  BY FramesAssumption, Words
<1>6. QED
  BY <1>2, <1>3, <1>4, <1>5, Words

(* Nothing the refinement sees moves while memory, sp and fp stay.          *)
LEMMA OnlyValues ==
    ASSUME FramesInv, cpu' \in MachineStates, cpu'.m = cpu.m,
           cpu'.r[REG_SP] = cpu.r[REG_SP], cpu'.r[REG_FP] = cpu.r[REG_FP],
           UNCHANGED <<next_local_offset, bases, callers>>,
           operands' \in Seq(General), IsInjective(operands')
    PROVE  FramesInv' /\ RunningLocals' = RunningLocals /\ Suspended' = Suspended
<1>1. PICK F : Stacked(cpu, callers, next_local_offset, F)
  BY DEF FramesInv
<1>2. Stacked(cpu', callers', next_local_offset', F)
  BY <1>1 DEF Stacked
<1>3. FramesInv'
  BY <1>2 DEF FramesInv, Compiled
<1>4. Seen(F) /\ Seen(F)'
  BY <1>1, <1>2, <1>3, ViewFound, ViewFoundNext
<1>5. Depth' = Depth
  BY DEF Depth
<1>6. QED
  BY <1>3, <1>4, <1>5 DEF Seen

(* A fresh register holds no value yet, so one more value takes its own.    *)
LEMMA FreshIsFree ==
    ASSUME FramesInv, NEW reg \in General, Fresh(reg)
    PROVE  /\ Append(operands, reg) \in Seq(General) /\ IsInjective(Append(operands, reg))
           /\ \A i \in DOMAIN operands : operands[i] \in General /\ operands[i] # reg
<1>1. operands \in Seq(General) /\ IsInjective(operands)
  BY InvParts
<1>2. \A i \in DOMAIN operands : operands[i] \in General /\ operands[i] # reg
  BY <1>1 DEF Fresh, IsLowest, Range
<1>3. IsInjective(Append(operands, reg))
  BY <1>1, <1>2 DEF IsInjective
<1>4. QED
  BY <1>1, <1>2, <1>3

(* A value was computed into a fresh register.                              *)
LEMMA Computed ==
    ASSUME FramesInv, NEW reg \in General, Fresh(reg), NEW v,
           NEW machine \in MachineStates, machine.m = cpu.m, machine.r[reg] = v,
           OnlyIn({reg, REG_TMP}, cpu, machine), PushTemporary(reg, machine)
    PROVE  FramesInv' /\ Calls!Compute(Append(Held, v))
<1>1. /\ operands \in Seq(General) /\ Append(operands, reg) \in Seq(General)
      /\ IsInjective(Append(operands, reg))
      /\ \A i \in DOMAIN operands : operands[i] \in General /\ operands[i] # reg
  BY InvParts, FreshIsFree
<1>2. /\ cpu' = machine /\ operands' = Append(operands, reg)
      /\ UNCHANGED <<next_local_offset, bases, callers>>
  BY DEF PushTemporary
<1>3. machine.r[REG_SP] = cpu.r[REG_SP] /\ machine.r[REG_FP] = cpu.r[REG_FP]
  BY RegistersApart DEF OnlyIn, Reserved
<1>4. FramesInv' /\ RunningLocals' = RunningLocals /\ Suspended' = Suspended
  BY <1>1, <1>2, <1>3, OnlyValues
<1>5. Held' = Append(Held, v)
  <2>1. Held' = [i \in DOMAIN Append(operands, reg) |-> machine.r[Append(operands, reg)[i]]]
    BY <1>2 DEF Held
  <2>2. \A i \in DOMAIN operands : machine.r[operands[i]] = cpu.r[operands[i]]
    BY <1>1, RegistersApart DEF OnlyIn, Reserved
  <2>3. Append(Held, v) = [i \in 1..(Len(operands) + 1) |->
                              IF i = Len(operands) + 1 THEN v ELSE cpu.r[operands[i]]]
    BY <1>1 DEF Held
  <2>4. DOMAIN Append(operands, reg) = 1..(Len(operands) + 1)
        /\ DOMAIN operands = 1..Len(operands) /\ Len(operands) \in Nat
        /\ \A i \in 1..(Len(operands) + 1) :
              Append(operands, reg)[i] = IF i = Len(operands) + 1 THEN reg ELSE operands[i]
    BY <1>1
  <2>5. ASSUME NEW i \in 1..(Len(operands) + 1)
        PROVE  machine.r[Append(operands, reg)[i]] =
                   IF i = Len(operands) + 1 THEN v ELSE cpu.r[operands[i]]
    BY <2>2, <2>4
  <2>6. QED
    BY <2>1, <2>3, <2>4, <2>5
<1>6. QED
  BY <1>4, <1>5 DEF Calls!Compute

(* Loading a constant is an abstract Literal.                               *)
LEMMA LiteralStep ==
    ASSUME FramesInv, NEW v \in Literals, ConstantLoad(v)
    PROVE  FramesInv' /\ Calls!Literal
<1>1. PICK reg \in General : Fresh(reg) /\ PushTemporary(reg, Afc(cpu, reg, v))
  BY DEF ConstantLoad
<1>2. Wrote(reg, v, cpu, Afc(cpu, reg, v))
  BY FramesAssumption, RegistersApart, RegisterWritten, InvParts
<1>3. FramesInv' /\ Calls!Compute(Append(Held, v))
  BY <1>1, <1>2, Computed DEF Wrote, OnlyIn
<1>4. event' = <<"literal", v>>
  BY DEF ConstantLoad
<1>5. QED
  BY <1>3, <1>4 DEF Calls!Literal

(* Local i of the running activation, in the machine and in the abstraction. *)
LEMMA RunningLocal ==
    ASSUME FramesInv, NEW i \in 0..(next_local_offset - 1)
    PROVE  /\ i \in Nat /\ i <= cpu.r[REG_FP] /\ cpu.r[REG_FP] - i \in Word
           /\ i + 1 \in DOMAIN RunningLocals
           /\ RunningLocals[i + 1] = [cell |-> cpu.r[REG_FP] - i,
                                      value |-> cpu.m[cpu.r[REG_FP] - i]]
<1>1. PICK F : Stacked(cpu, callers, next_local_offset, F) /\ Seen(F) /\ F[Depth] = cpu.r[REG_FP]
  BY Places
<1>2. next_local_offset \in Nat
  BY InvParts
<1>3. i \in Nat /\ i + 1 \in 1..next_local_offset /\ i + 1 - 1 = i /\ i < next_local_offset
  BY <1>2
<1>4. i <= cpu.r[REG_FP] /\ cpu.r[REG_FP] - i \in Word
  <2>1. i <= cpu.r[REG_FP] /\ cpu.r[REG_FP] - i \in Int /\ 0 <= cpu.r[REG_FP] - i
        /\ cpu.r[REG_FP] - i < WordSize
    BY <1>2, <1>3, RegisterWords
  <2>2. QED
    BY <2>1, Words
<1>5. RunningLocals = LocalsOf(cpu.m, cpu.r[REG_FP], next_local_offset)
  BY <1>1 DEF Seen
<1>6. QED
  BY <1>3, <1>4, <1>5 DEF LocalsOf

(* Loading a variable reads the local the abstract state has there.         *)
LEMMA ReadStep ==
    ASSUME FramesInv, NEW i \in 0..(next_local_offset - 1), VariableLoad(i)
    PROVE  FramesInv' /\ Calls!Read
<1> DEFINE at == ComputeLocalAddress(cpu, i)
<1>1. PICK reg \in General : Fresh(reg) /\ PushTemporary(reg, LoadR(at, reg, REG_TMP))
  BY DEF VariableLoad
<1> DEFINE loaded == LoadR(at, reg, REG_TMP)
<1>2. Wrote(REG_TMP, cpu.r[REG_FP] - i, cpu, at)
  BY InvParts, RunningLocal, LocalAddress
<1> HIDE DEF at
<1>3. Wrote(reg, cpu.m[cpu.r[REG_FP] - i], at, loaded)
  <2>1. at \in MachineStates /\ at.m = cpu.m /\ at.r[REG_TMP] = cpu.r[REG_FP] - i
    BY <1>2 DEF Wrote
  <2>2. reg \in Registers /\ REG_TMP \in Registers
    BY RegistersApart DEF Reserved
  <2>3. Wrote(reg, at.m[at.r[REG_TMP]], at, loaded)
    BY <2>1, <2>2, RegisterWritten
  <2>4. QED
    BY <2>1, <2>3
<1> HIDE DEF loaded
<1>4. /\ loaded \in MachineStates /\ loaded.m = cpu.m
      /\ loaded.r[reg] = cpu.m[cpu.r[REG_FP] - i]
      /\ OnlyIn({reg, REG_TMP}, cpu, loaded)
  BY <1>2, <1>3 DEF Wrote, OnlyIn
<1>5. FramesInv' /\ Calls!Compute(Append(Held, cpu.m[cpu.r[REG_FP] - i]))
  <2>1. PushTemporary(reg, loaded)
    BY <1>1 DEF loaded, at
  <2>2. QED
    BY <1>1, <1>4, <2>1, Computed
<1>6. event' = <<"read", i + 1>>
  BY DEF VariableLoad
<1>7. /\ i + 1 \in DOMAIN RunningLocals
      /\ RunningLocals[i + 1].value = cpu.m[cpu.r[REG_FP] - i]
  <2>1. /\ i + 1 \in DOMAIN RunningLocals
        /\ RunningLocals[i + 1] = [cell |-> cpu.r[REG_FP] - i, value |-> cpu.m[cpu.r[REG_FP] - i]]
    BY RunningLocal
  <2>2. QED
    BY <2>1
<1>8. QED
  BY <1>5, <1>6, <1>7 DEF Calls!Read

(* Taking a variable's address gives the address of its cell.               *)
LEMMA AddressStep ==
    ASSUME FramesInv, NEW i \in 0..(next_local_offset - 1), VariableAddress(i)
    PROVE  FramesInv' /\ Calls!Address
<1>1. PICK reg \in General :
          Fresh(reg) /\ PushTemporary(reg, Ternary(Afc(cpu, reg, i), "SUB", reg, REG_FP, reg))
  BY DEF VariableAddress
<1> DEFINE offset == Afc(cpu, reg, i)
           computed == Ternary(offset, "SUB", reg, REG_FP, reg)
<1>2. /\ i \in Word /\ i <= cpu.r[REG_FP]
      /\ reg \in Registers /\ REG_FP \in Registers /\ REG_FP # reg /\ cpu \in MachineStates
  <2>1. i \in Nat /\ i <= cpu.r[REG_FP] /\ cpu.r[REG_FP] < WordSize /\ WordSize \in Int
        /\ cpu.r[REG_FP] \in Int
    BY RunningLocal, RegisterWords
  <2>2. i \in Word
    BY <2>1, Words
  <2>3. QED
    BY <2>1, <2>2, RegistersApart, InvParts DEF Reserved
<1>3. Wrote(reg, i, cpu, offset)
  BY <1>2, RegisterWritten
<1> HIDE DEF offset
<1>4. Wrote(reg, cpu.r[REG_FP] - i, offset, computed)
  <2>1. offset \in MachineStates /\ offset.r[reg] = i /\ offset.r[REG_FP] = cpu.r[REG_FP]
    BY <1>2, <1>3 DEF Wrote, OnlyIn
  <2>2. Wrote(reg, offset.r[REG_FP] - offset.r[reg], offset, computed)
    BY <1>2, <2>1, RegisterWritten
  <2>3. QED
    BY <2>1, <2>2
<1> HIDE DEF computed
<1>5. /\ computed \in MachineStates /\ computed.m = cpu.m
      /\ computed.r[reg] = cpu.r[REG_FP] - i
      /\ OnlyIn({reg, REG_TMP}, cpu, computed)
  BY <1>3, <1>4 DEF Wrote, OnlyIn
<1>6. FramesInv' /\ Calls!Compute(Append(Held, cpu.r[REG_FP] - i))
  <2>1. PushTemporary(reg, computed)
    BY <1>1 DEF computed, offset
  <2>2. QED
    BY <1>1, <1>5, <2>1, Computed
<1>7. event' = <<"address", i + 1>>
  BY DEF VariableAddress
<1>8. i + 1 \in DOMAIN RunningLocals /\ RunningLocals[i + 1].cell = cpu.r[REG_FP] - i
  <2>1. /\ i + 1 \in DOMAIN RunningLocals
        /\ RunningLocals[i + 1] = [cell |-> cpu.r[REG_FP] - i, value |-> cpu.m[cpu.r[REG_FP] - i]]
    BY RunningLocal
  <2>2. QED
    BY <2>1
<1>9. QED
  BY <1>6, <1>7, <1>8 DEF Calls!Address
-----------------------------------------------------------------------------
(* Pointers *)

(* The values held are those of the operands' registers, each its own.      *)
LEMMA HeldValues ==
    ASSUME FramesInv
    PROVE  /\ Len(operands) \in Nat /\ DOMAIN operands = 1..Len(operands)
           /\ DOMAIN Held = 1..Len(operands) /\ Len(Held) = Len(operands)
           /\ \A i \in 1..Len(operands) :
                  /\ operands[i] \in General /\ operands[i] \in Registers
                  /\ operands[i] \notin Reserved
                  /\ Held[i] = cpu.r[operands[i]] /\ cpu.r[operands[i]] \in Word
           /\ \A i, j \in 1..Len(operands) : operands[i] = operands[j] => i = j
<1>1. operands \in Seq(General) /\ IsInjective(operands)
  BY InvParts
<1>2. Len(operands) \in Nat /\ DOMAIN operands = 1..Len(operands)
  BY <1>1
<1>3. DOMAIN Held = 1..Len(operands) /\ \A i \in 1..Len(operands) : Held[i] = cpu.r[operands[i]]
  BY <1>2 DEF Held
<1>4. Len(Held) = Len(operands)
  BY <1>2, <1>3
<1>5. \A i \in 1..Len(operands) : operands[i] \in General
  BY <1>1, <1>2
<1>6. \A i \in 1..Len(operands) :
          operands[i] \in Registers /\ operands[i] \notin Reserved /\ cpu.r[operands[i]] \in Word
  BY <1>5, RegistersApart, RegisterWords
<1>7. \A i, j \in 1..Len(operands) : operands[i] = operands[j] => i = j
  BY <1>1, <1>2 DEF IsInjective
<1>8. QED
  BY <1>2, <1>3, <1>4, <1>5, <1>6, <1>7

(* A cell a pointer may point to is a local's, there with its value.        *)
LEMMA LiveLocal ==
    ASSUME FramesInv, NEW cell \in LocalCells
    PROVE  /\ cell \in Word /\ cell \in Calls!Live
           /\ \E list \in {RunningLocals} \cup {Suspended[k].locals : k \in DOMAIN Suspended} :
                 \E x \in DOMAIN list :
                    list[x].cell = cell /\ list[x].value = cpu.m[cell]
<1>1. PICK F : Stacked(cpu, callers, next_local_offset, F) /\ Seen(F) /\ F[Depth] = cpu.r[REG_FP]
  BY Places
<1> DEFINE Count(k) == CountOf(callers, next_local_offset, k)
<1>2. /\ cpu \in MachineStates /\ callers \in Seq(Callers) /\ next_local_offset \in Nat
      /\ Len(callers) \in Nat /\ DOMAIN callers = 1..Len(callers) /\ Depth = Len(callers) + 1
  BY InvParts
<1>3. cell \in Calls!Live
  BY <1>1, LiveFound
<1>4. LocalAt(cell, F, callers, next_local_offset)
  BY <1>1, <1>3, LiveFound
<1>a. PICK k \in 1..Depth : \E i \in 0..(Count(k) - 1) : cell = F[k] - i
  BY <1>2, <1>4 DEF LocalAt
<1>b. PICK i \in 0..(Count(k) - 1) : cell = F[k] - i
  BY <1>a
<1>5. cell \in Word
  BY <1>1, <1>2, <1>b, LocalsLie
<1> DEFINE list == LocalsOf(cpu.m, F[k], Count(k))
<1>6. i + 1 \in 1..Count(k) /\ i + 1 - 1 = i
  <2>1. Count(k) \in Nat
    <3>1. k # Depth => callers[k] \in Callers
      BY <1>2
    <3>2. QED
      BY <1>2, <3>1 DEF CountOf, Callers
  <2> HIDE DEF Count
  <2>2. QED
    BY <2>1
<1>7. i + 1 \in DOMAIN list /\ list[i + 1].cell = cell /\ list[i + 1].value = cpu.m[cell]
  BY <1>b, <1>6 DEF LocalsOf
<1>8. list \in {RunningLocals} \cup {Suspended[j].locals : j \in DOMAIN Suspended}
  <2>1. CASE k = Depth
    <3>1. Count(k) = next_local_offset
      BY <1>2, <2>1 DEF CountOf
    <3>2. QED
      BY <1>1, <2>1, <3>1 DEF Seen
  <2>2. CASE k # Depth
    <3>1. k \in 1..Len(callers) /\ Count(k) = callers[k].next_local_offset
      BY <1>2, <2>2 DEF CountOf
    <3>2. k \in DOMAIN Suspended /\ Suspended[k].locals = list
      BY <1>1, <3>1 DEF Seen, SuspendedOf
    <3>3. QED
      BY <3>2
  <2>3. QED
    BY <2>1, <2>2
<1> HIDE DEF list
<1>9. QED
  BY <1>3, <1>5, <1>7, <1>8

(* Loading through a pointer to a live local gives that local's value.      *)
LEMMA FollowStep ==
    ASSUME FramesInv, PointerLoad
    PROVE  FramesInv' /\ Calls!Follow
<1> DEFINE n == Len(operands)
           cell == cpu.r[Top]
<1>1. /\ operands \in Seq(General) /\ operands # <<>> /\ cell \in LocalCells
      /\ cpu' = LoadR(cpu, Top, Top) /\ event' = <<"follow">>
      /\ UNCHANGED <<next_local_offset, bases, operands, callers>>
      /\ cpu \in MachineStates /\ IsInjective(operands)
  BY InvParts DEF PointerLoad
<1>2. n \in Nat /\ n >= 1 /\ n \in 1..n /\ Top = operands[n]
  BY <1>1 DEF Top, Last
<1>3. Top \in General /\ Top \in Registers /\ Top \notin Reserved
  BY <1>2, HeldValues
<1>4. Wrote(Top, cpu.m[cell], cpu, cpu')
  BY <1>1, <1>3, RegisterWritten
<1>5. FramesInv' /\ RunningLocals' = RunningLocals /\ Suspended' = Suspended
  <2>1. cpu'.r[REG_SP] = cpu.r[REG_SP] /\ cpu'.r[REG_FP] = cpu.r[REG_FP]
    BY <1>3, <1>4, RegistersApart DEF Wrote, OnlyIn, Reserved
  <2>2. QED
    BY <1>1, <1>4, <2>1, OnlyValues DEF Wrote
<1>6. Calls!Last(Held) = cell /\ Held # <<>> /\ Len(Held) = n
  BY <1>2, HeldValues DEF Calls!Last
<1>7. Held' = Append(Calls!Front(Held), cpu.m[cell])
  <2>1. Held' = [i \in 1..n |-> cpu'.r[operands[i]]]
    <3>1. Held' = [i \in DOMAIN operands |-> cpu'.r[operands[i]]]
      BY <1>1 DEF Held
    <3>2. QED
      BY <3>1, HeldValues
  <2>2. ASSUME NEW i \in 1..n
        PROVE  cpu'.r[operands[i]] = IF i = n THEN cpu.m[cell] ELSE Held[i]
    <3>1. CASE i = n
      BY <1>2, <1>4, <3>1 DEF Wrote
    <3>2. CASE i # n
      <4>1. operands[i] # Top /\ operands[i] \in Registers /\ Held[i] = cpu.r[operands[i]]
        BY <1>2, <3>2, HeldValues
      <4>2. QED
        BY <1>4, <3>2, <4>1 DEF Wrote, OnlyIn
    <3>3. QED
      BY <3>1, <3>2
  <2>3. Held \in Seq(Word)
    <3>1. Held = [i \in 1..n |-> cpu.r[operands[i]]]
      BY HeldValues DEF Held
    <3>2. \A i \in 1..n : cpu.r[operands[i]] \in Word
      BY HeldValues
    <3> HIDE DEF n
    <3>3. Held \in [1..n -> Word]
      BY <3>1, <3>2
    <3>4. QED
      BY <1>2, <3>3
  <2>4. Append(Calls!Front(Held), cpu.m[cell]) =
            [i \in 1..n |-> IF i = n THEN cpu.m[cell] ELSE Held[i]]
    <3> HIDE DEF n, cell
    <3>1. Calls!Front(Held) = SubSeq(Held, 1, n - 1)
      BY <1>6 DEF Calls!Front
    <3>2. /\ SubSeq(Held, 1, n - 1) \in Seq(Word) /\ Len(SubSeq(Held, 1, n - 1)) = n - 1
          /\ \A i \in 1..(n - 1) : SubSeq(Held, 1, n - 1)[i] = Held[i]
      BY <1>2, <1>6, <2>3
    <3>3. QED
      BY <1>2, <3>1, <3>2
  <2>5. QED
    BY <2>1, <2>2, <2>4
<1>8. \E list \in {RunningLocals} \cup {Suspended[k].locals : k \in DOMAIN Suspended} :
        \E x \in DOMAIN list : list[x].cell = cell /\ list[x].value = cpu.m[cell]
  BY <1>1, LiveLocal
<1>9. cell \in Calls!Live
  BY <1>1, LiveLocal
<1> HIDE DEF cell
<1>b. PICK list \in {RunningLocals} \cup {Suspended[k].locals : k \in DOMAIN Suspended} :
          \E x \in DOMAIN list : list[x].cell = cell /\ list[x].value = cpu.m[cell]
  BY <1>8
<1>10. PICK x \in DOMAIN list : list[x].cell = cell /\ list[x].value = cpu.m[cell]
  BY <1>b
<1>11. Calls!Compute(Append(Calls!Front(Held), list[x].value))
  BY <1>5, <1>7, <1>10 DEF Calls!Compute
<1>12. QED
  BY <1>1, <1>5, <1>6, <1>9, <1>10, <1>11 DEF Calls!Follow

-----------------------------------------------------------------------------
(* Statements *)

(* The frames stay, the running activation has n locals then.               *)
LEMMA StatementDone ==
    ASSUME FramesInv, NEW F, Stacked(cpu, callers, next_local_offset, F),
           cpu' \in MachineStates, UNCHANGED callers,
           Compiled(next_local_offset', bases', operands'),
           cpu'.r[REG_FP] = cpu.r[REG_FP], cpu'.r[REG_SP] = cpu.r[REG_FP] - next_local_offset',
           StackLimit <= cpu'.r[REG_SP],
           \A k \in 1..Len(callers) : cpu'.m[F[k + 1] + 1] = cpu.m[F[k + 1] + 1]
    PROVE  /\ FramesInv'
           /\ RunningLocals' = LocalsOf(cpu'.m, F[Depth], next_local_offset')
           /\ Suspended' = SuspendedOf(cpu'.m, F, callers)
<1>1. Stacked(cpu', callers, next_local_offset', F)
  BY StackedAgain
<1>2. Stacked(cpu', callers', next_local_offset', F) /\ callers' = callers
  BY <1>1
<1>3. FramesInv'
  BY <1>2 DEF FramesInv
<1>4. Seen(F)'
  BY <1>2, <1>3, ViewFoundNext
<1>5. Depth' = Depth
  BY <1>2 DEF Depth
<1>6. QED
  BY <1>2, <1>3, <1>4, <1>5 DEF Seen

(* At a statement's end no value is held.                                   *)
LEMMA NoValues ==
    ASSUME FramesInv
    PROVE  Compiled(next_local_offset, bases, <<>>)
BY DEF FramesInv, Compiled, IsInjective

(* Storing through a pointer to a live local sets that local, of whatever   *)
(* activation, and nothing else.                                            *)
LEMMA StoreStep ==
    ASSUME FramesInv, PointerStore
    PROVE  FramesInv' /\ Calls!StoreThrough
<1> DEFINE cell == cpu.r[operands[1]]
           value == cpu.r[operands[2]]
           n == next_local_offset
<1>1. /\ Len(operands) = 2 /\ cell \in LocalCells
      /\ cpu' = StoreR(cpu, operands[1], operands[2])
      /\ operands' = <<>> /\ event' = <<"store">>
      /\ UNCHANGED <<next_local_offset, bases, callers>>
      /\ cpu \in MachineStates
  BY InvParts DEF PointerStore
<1>2. PICK F : Stacked(cpu, callers, next_local_offset, F) /\ Seen(F) /\ F[Depth] = cpu.r[REG_FP]
  BY Places
<1>3. /\ Held[1] = cell /\ Held[2] = value /\ Len(Held) = 2 /\ cell \in Word /\ value \in Word
  BY <1>1, HeldValues
<1>4. /\ cpu' \in MachineStates /\ cpu'.r = cpu.r
      /\ cpu'.m = [cpu.m EXCEPT ![cell] = value]
  BY <1>1, <1>3, SetCellType DEF StoreR
<1>5. cell \in Calls!Live
  BY <1>1, LiveLocal
<1>6. LocalAt(cell, F, callers, next_local_offset)
  BY <1>2, <1>5, LiveFound
<1>7. /\ callers \in Seq(Callers) /\ next_local_offset \in Nat /\ Injective(callers)
      /\ Depth = Len(callers) + 1
  BY InvParts
<1> HIDE DEF cell, value
<1> DEFINE s == SuspendedOf(cpu.m, F, callers)
<1>8. /\ LocalsOf(cpu'.m, F[Depth], n) = Calls!Written(LocalsOf(cpu.m, F[Depth], n), cell, value)
      /\ SuspendedOf(cpu'.m, F, callers) = WrittenIn(s, cell, value)
      /\ \A j \in 1..Len(callers) : cpu'.m[F[j + 1] + 1] = cpu.m[F[j + 1] + 1]
  <2>2. Stacked(cpu, callers, next_local_offset, F) /\ cpu \in MachineStates
    BY <1>1, <1>2
  <2>3. cpu'.m[cell] = value /\ \A a \in Word : a # cell => cpu'.m[a] = cpu.m[a]
    <3>1. cpu.m \in [Word -> Word]
      BY <2>2 DEF MachineStates
    <3>2. QED
      BY <1>3, <1>4, <3>1
  <2>4. StoreShows(cpu, cpu'.m, callers, next_local_offset, F, cell, value)
    BY <1>6, <1>7, <2>2, <2>3, StoreSeen
  <2>5. QED
    BY <1>7, <2>4 DEF StoreShows
<1>9. /\ FramesInv'
      /\ RunningLocals' = LocalsOf(cpu'.m, F[Depth], n)
      /\ Suspended' = SuspendedOf(cpu'.m, F, callers)
  <2>1. Compiled(next_local_offset', bases', operands')
    BY <1>1, NoValues
  <2>2. cpu'.r[REG_FP] = cpu.r[REG_FP] /\ cpu'.r[REG_SP] = cpu.r[REG_FP] - next_local_offset'
        /\ StackLimit <= cpu'.r[REG_SP]
    BY <1>1, <1>4, RegisterWords
  <2>3. QED
    BY <1>1, <1>2, <1>4, <1>8, <2>1, <2>2, StatementDone
<1>10. RunningLocals = LocalsOf(cpu.m, F[Depth], n) /\ Suspended = s
  BY <1>2 DEF Seen
<1> HIDE DEF s
<1>11. /\ RunningLocals' = Calls!Written(RunningLocals, Held[1], Held[2])
       /\ Suspended' = [j \in DOMAIN Suspended |->
                           [Suspended[j] EXCEPT !.locals = Calls!Written(@, Held[1], Held[2])]]
  <2>1. /\ RunningLocals' = Calls!Written(RunningLocals, Held[1], Held[2])
        /\ Suspended' = WrittenIn(Suspended, Held[1], Held[2])
    BY <1>3, <1>8, <1>9, <1>10
  <2>2. QED
    BY <2>1 DEF WrittenIn
<1>12. Held' = <<>>
  BY <1>1 DEF Held
<1>13. QED
  BY <1>1, <1>3, <1>5, <1>9, <1>11, <1>12 DEF Calls!StoreThrough

(* The one value of a statement survives the address computation and is     *)
(* stored at its local.                                                     *)
LEMMA LocalStored ==
    ASSUME FramesInv, OneValue, NEW i \in Nat, i <= cpu.r[REG_FP]
    PROVE  LET at == ComputeLocalAddress(cpu, i)
               stored == StoreR(at, REG_TMP, Top)
           IN  /\ stored \in MachineStates
               /\ stored.m = [cpu.m EXCEPT ![cpu.r[REG_FP] - i] = Held[1]]
               /\ OnlyIn({REG_TMP}, cpu, stored)
               /\ Len(Held) = 1
<1> DEFINE at == ComputeLocalAddress(cpu, i)
           stored == StoreR(at, REG_TMP, Top)
<1>1. Len(operands) = 1 /\ Top = operands[1] /\ Top \in Registers /\ Top \notin Reserved
      /\ Held[1] = cpu.r[Top] /\ Len(Held) = 1 /\ cpu.r[Top] \in Word
  BY HeldValues DEF OneValue, Top, Last
<1>2. Wrote(REG_TMP, cpu.r[REG_FP] - i, cpu, at)
  BY InvParts, LocalAddress
<1> HIDE DEF at
<1>3. /\ at \in MachineStates /\ at.m = cpu.m /\ at.r[REG_TMP] = cpu.r[REG_FP] - i
      /\ at.r[Top] = cpu.r[Top]
  BY <1>1, <1>2 DEF Wrote, OnlyIn, Reserved
<1>4. at.r[REG_TMP] \in Word
  BY <1>3, RegistersApart, MachineParts DEF Reserved
<1>5. /\ stored \in MachineStates /\ stored.r = at.r
      /\ stored.m = [at.m EXCEPT ![at.r[REG_TMP]] = at.r[Top]]
  BY <1>1, <1>3, <1>4, SetCellType DEF StoreR
<1> HIDE DEF stored
<1>6. stored.m = [cpu.m EXCEPT ![cpu.r[REG_FP] - i] = Held[1]]
  BY <1>1, <1>3, <1>5
<1>7. OnlyIn({REG_TMP}, cpu, stored)
  BY <1>2, <1>5 DEF Wrote, OnlyIn
<1>8. QED
  BY <1>1, <1>5, <1>6, <1>7 DEF at, stored

(* A store at or below the running frame's fp is not seen by the callers.   *)
LEMMA BelowTheCallers ==
    ASSUME FramesInv, NEW F, Stacked(cpu, callers, next_local_offset, F),
           NEW memory, \A a \in Word : a > cpu.r[REG_FP] => memory[a] = cpu.m[a]
    PROVE  /\ SuspendedOf(memory, F, callers) = SuspendedOf(cpu.m, F, callers)
           /\ \A k \in 1..Len(callers) : memory[F[k + 1] + 1] = cpu.m[F[k + 1] + 1]
<1>1. /\ cpu \in MachineStates /\ callers \in Seq(Callers) /\ next_local_offset \in Nat
      /\ Injective(callers)
  BY InvParts
<1>2. F[Len(callers) + 1] = cpu.r[REG_FP]
  BY DEF Stacked
<1>3. QED
  BY <1>1, <1>2, SuspendedAgree

(* Assigning to a variable sets that local and nothing else.                *)
LEMMA AssignStep ==
    ASSUME FramesInv, NEW i \in 0..(next_local_offset - 1), VariableAssignment(i)
    PROVE  FramesInv' /\ Calls!Assign
<1> DEFINE fp == cpu.r[REG_FP]
           n == next_local_offset
<1>1. /\ OneValue /\ cpu' = StoreR(ComputeLocalAddress(cpu, i), REG_TMP, Top)
      /\ operands' = <<>> /\ event' = <<"assign", i + 1>>
      /\ UNCHANGED <<next_local_offset, bases, callers>>
  BY DEF VariableAssignment
<1>2. PICK F : Stacked(cpu, callers, next_local_offset, F) /\ Seen(F) /\ F[Depth] = fp
  BY Places
<1>3. /\ i \in Nat /\ i <= fp /\ fp - i \in Word /\ i + 1 \in DOMAIN RunningLocals
  BY RunningLocal
<1>4. /\ cpu' \in MachineStates
      /\ cpu'.m = [cpu.m EXCEPT ![fp - i] = Held[1]]
      /\ OnlyIn({REG_TMP}, cpu, cpu') /\ Len(Held) = 1
  BY <1>1, <1>3, LocalStored
<1>5. /\ fp \in Int /\ n \in Nat /\ cpu.m \in [Word -> Word]
  BY RegisterWords, InvParts DEF MachineStates
<1>6. \A a \in Word : a # fp - i => cpu'.m[a] = cpu.m[a]
  BY <1>4, <1>5
<1>7. \A a \in Word : a > fp => cpu'.m[a] = cpu.m[a]
  <2>1. \A a \in Word : a > fp => a # fp - i
    BY <1>3, <1>5, Words
  <2>2. QED
    BY <1>6, <2>1
<1>8. /\ SuspendedOf(cpu'.m, F, callers) = SuspendedOf(cpu.m, F, callers)
      /\ \A k \in 1..Len(callers) : cpu'.m[F[k + 1] + 1] = cpu.m[F[k + 1] + 1]
  BY <1>2, <1>7, BelowTheCallers
<1>9. cpu'.r[REG_FP] = fp /\ cpu'.r[REG_SP] = cpu.r[REG_SP]
  BY <1>4, RegistersApart DEF OnlyIn, Reserved
<1>10. /\ FramesInv' /\ RunningLocals' = LocalsOf(cpu'.m, fp, n)
       /\ Suspended' = SuspendedOf(cpu'.m, F, callers)
  <2>1. Compiled(next_local_offset', bases', operands')
    BY <1>1, NoValues
  <2>2. cpu'.r[REG_SP] = cpu.r[REG_FP] - next_local_offset' /\ StackLimit <= cpu'.r[REG_SP]
    BY <1>1, <1>9, RegisterWords
  <2>3. QED
    BY <1>1, <1>2, <1>4, <1>8, <1>9, <2>1, <2>2, StatementDone
<1>11. RunningLocals = LocalsOf(cpu.m, fp, n) /\ Suspended = SuspendedOf(cpu.m, F, callers)
  BY <1>2 DEF Seen
<1>12. LocalsOf(cpu'.m, fp, n) = [LocalsOf(cpu.m, fp, n) EXCEPT ![i + 1].value = Held[1]]
  <2> DEFINE old == LocalsOf(cpu.m, fp, n)
             new == LocalsOf(cpu'.m, fp, n)
  <2>1. DOMAIN old = 1..n /\ DOMAIN new = 1..n /\ i + 1 \in 1..n
    BY <1>3, <1>11 DEF LocalsOf
  <2>2. ASSUME NEW x \in 1..n
        PROVE  new[x] = IF x = i + 1 THEN [old[x] EXCEPT !.value = Held[1]] ELSE old[x]
    <3> DEFINE a == fp - (x - 1)
    <3>1. a \in Word
      <4>1. x - 1 \in 0..(next_local_offset - 1)
        BY <1>5
      <4>2. QED
        BY <4>1, RunningLocal
    <3>2. a = fp - i <=> x = i + 1
      BY <1>3, <1>5
    <3>3. old[x] = [cell |-> a, value |-> cpu.m[a]] /\ new[x] = [cell |-> a, value |-> cpu'.m[a]]
      BY DEF LocalsOf
    <3>4. cpu'.m[a] = IF x = i + 1 THEN Held[1] ELSE cpu.m[a]
      BY <1>4, <1>5, <1>6, <3>1, <3>2
    <3> HIDE DEF old, new, a
    <3>5. QED
      BY <3>3, <3>4
  <2>3. new = [x \in 1..n |-> new[x]] /\ old = [x \in 1..n |-> old[x]]
    BY DEF LocalsOf
  <2> HIDE DEF old, new
  <2>4. new = [old EXCEPT ![i + 1].value = Held[1]]
    BY <2>1, <2>2, <2>3
  <2>5. QED
    BY <2>4 DEF old, new
<1>13. /\ RunningLocals' = [RunningLocals EXCEPT ![i + 1].value = Held[1]]
       /\ Suspended' = Suspended
  BY <1>8, <1>10, <1>11, <1>12
<1>14. Held' = <<>>
  BY <1>1 DEF Held
<1>15. QED
  BY <1>1, <1>3, <1>4, <1>10, <1>13, <1>14 DEF Calls!Assign

(* A declaration makes one more local, with the value computed for it.      *)
LEMMA DeclareStep ==
    ASSUME FramesInv, VariableDeclaration
    PROVE  FramesInv' /\ Calls!Declare
<1> DEFINE fp == cpu.r[REG_FP]
           sp == cpu.r[REG_SP]
           n == next_local_offset
           stored == StoreR(ComputeLocalAddress(cpu, n), REG_TMP, Top)
<1>1. /\ OneValue /\ sp > StackLimit
      /\ cpu' = StackPush(stored)
      /\ next_local_offset' = n + 1
      /\ operands' = <<>> /\ event' = <<"declare">>
      /\ UNCHANGED <<bases, callers>>
  BY DEF VariableDeclaration
<1>2. PICK F : Stacked(cpu, callers, next_local_offset, F) /\ Seen(F) /\ F[Depth] = fp
  BY Places
<1>3. /\ n \in Nat /\ fp \in Int /\ sp \in Int /\ sp = fp - n /\ n <= fp /\ sp >= 1
      /\ StackLimit \in Nat /\ sp \in Word /\ cpu.m \in [Word -> Word]
  <2>1. sp \in Word /\ cpu \in MachineStates
    BY InvParts, RegisterWords, RegistersApart DEF Reserved
  <2>2. QED
    BY <1>1, <2>1, InvParts, RegisterWords DEF MachineStates
<1>4. /\ stored \in MachineStates
      /\ stored.m = [cpu.m EXCEPT ![fp - n] = Held[1]]
      /\ OnlyIn({REG_TMP}, cpu, stored) /\ Len(Held) = 1
  BY <1>1, <1>3, LocalStored
<1> HIDE DEF stored
<1>5. stored.r[REG_SP] = sp /\ stored.r[REG_FP] = fp
  BY <1>4, RegistersApart DEF OnlyIn, Reserved
<1>6. /\ cpu' \in MachineStates /\ cpu'.m = [cpu.m EXCEPT ![sp] = Held[1]]
      /\ cpu'.r[REG_SP] = sp - 1 /\ cpu'.r[REG_FP] = fp
  <2>1. /\ cpu' \in MachineStates /\ cpu'.m = stored.m /\ cpu'.r[REG_SP] = stored.r[REG_SP] - 1
        /\ OnlyIn({REG_SP, REG_TMP}, stored, cpu')
    BY <1>1, <1>3, <1>4, <1>5, StackPushMoves
  <2>2. cpu'.r[REG_FP] = stored.r[REG_FP]
    BY <2>1, RegistersApart DEF OnlyIn, Reserved
  <2>3. QED
    BY <1>3, <1>4, <1>5, <2>1, <2>2
<1>7. cpu'.m[sp] = Held[1] /\ \A a \in Word : a # sp => cpu'.m[a] = cpu.m[a]
  BY <1>3, <1>6
<1>8. \A a \in Word : a > fp => cpu'.m[a] = cpu.m[a]
  <2>1. \A a \in Word : a > fp => a # sp
    BY <1>3, Words
  <2>2. QED
    BY <1>7, <2>1
<1>9. /\ SuspendedOf(cpu'.m, F, callers) = SuspendedOf(cpu.m, F, callers)
      /\ \A k \in 1..Len(callers) : cpu'.m[F[k + 1] + 1] = cpu.m[F[k + 1] + 1]
  BY <1>2, <1>8, BelowTheCallers
<1>10. /\ FramesInv' /\ RunningLocals' = LocalsOf(cpu'.m, fp, n + 1)
       /\ Suspended' = SuspendedOf(cpu'.m, F, callers)
  <2>1. Compiled(next_local_offset', bases', operands')
    <3>1. /\ bases \in Seq(Nat) /\ bases # <<>>
          /\ \A i, j \in DOMAIN bases : i <= j => bases[i] <= bases[j] /\ bases[j] <= n
          /\ \A j \in DOMAIN bases : bases[j] \in Nat
      BY DEF FramesInv, Compiled
    <3>2. \A i, j \in DOMAIN bases : i <= j => bases[i] <= bases[j] /\ bases[j] <= n + 1
      BY <1>3, <3>1
    <3>3. IsInjective(<<>>)
      BY DEF IsInjective
    <3>4. QED
      BY <1>1, <1>3, <3>1, <3>2, <3>3 DEF Compiled
  <2>2. cpu'.r[REG_SP] = fp - next_local_offset' /\ StackLimit <= cpu'.r[REG_SP]
    BY <1>1, <1>3, <1>6
  <2>3. QED
    BY <1>1, <1>2, <1>6, <1>9, <2>1, <2>2, StatementDone
<1>11. RunningLocals = LocalsOf(cpu.m, fp, n) /\ Suspended = SuspendedOf(cpu.m, F, callers)
  BY <1>2 DEF Seen
<1>12. LocalsOf(cpu'.m, fp, n + 1) =
          Append(LocalsOf(cpu.m, fp, n), [cell |-> sp, value |-> Held[1]])
  <2> DEFINE old == LocalsOf(cpu.m, fp, n)
             new == LocalsOf(cpu'.m, fp, n + 1)
             last == [cell |-> sp, value |-> Held[1]]
  <2>1. new = [x \in 1..(n + 1) |-> new[x]] /\ DOMAIN old = 1..n
        /\ old \in Seq(Range(old)) /\ Len(old) = n
    <3>1. old = [x \in 1..n |-> old[x]]
      BY DEF LocalsOf
    <3>2. new = [x \in 1..(n + 1) |-> new[x]]
      BY DEF LocalsOf
    <3> HIDE DEF old, new
    <3>3. old \in [1..n -> Range(old)]
      BY <3>1 DEF Range
    <3>4. QED
      BY <1>3, <3>2, <3>3
  <2>2. ASSUME NEW x \in 1..(n + 1)
        PROVE  new[x] = IF x = n + 1 THEN last ELSE old[x]
    <3> DEFINE a == fp - (x - 1)
    <3>1. new[x] = [cell |-> a, value |-> cpu'.m[a]] /\ x <= n + 1 /\ x \in Int
      BY <1>3 DEF LocalsOf
    <3>2. CASE x = n + 1
      BY <1>3, <1>7, <3>1, <3>2
    <3>3. CASE x # n + 1
      <4>1. x \in 1..n /\ x - 1 \in 0..(next_local_offset - 1)
        BY <1>3, <3>3
      <4>2. a \in Word
        BY <4>1, RunningLocal
      <4>5. a # sp
        BY <1>3, <3>1, <3>3
      <4>3. old[x] = [cell |-> a, value |-> cpu.m[a]]
        BY <4>1 DEF LocalsOf
      <4> HIDE DEF old, new, a
      <4>4. QED
        BY <1>7, <3>1, <3>3, <4>2, <4>3, <4>5
    <3>4. QED
      BY <3>2, <3>3
  <2> HIDE DEF old, new, last
  <2>3. Append(old, last) = [x \in 1..(n + 1) |-> IF x = n + 1 THEN last ELSE old[x]]
    <3> DEFINE S == Range(old) \cup {last}
               longer == Append(old, last)
    <3> HIDE DEF S
    <3>1. old \in Seq(S) /\ last \in S
      BY <2>1 DEF S
    <3> HIDE DEF n
    <3>2. /\ longer \in Seq(S) /\ Len(longer) = n + 1
          /\ \A x \in 1..(n + 1) : longer[x] = IF x = n + 1 THEN last ELSE old[x]
      BY <2>1, <3>1
    <3> HIDE DEF longer
    <3>3. longer = [x \in 1..(n + 1) |-> longer[x]]
      BY <3>2
    <3>4. longer = [x \in 1..(n + 1) |-> IF x = n + 1 THEN last ELSE old[x]]
      BY <3>2, <3>3
    <3>5. QED
      BY <3>4 DEF longer
  <2>4. new = Append(old, last)
    BY <2>1, <2>2, <2>3
  <2>5. QED
    BY <2>4 DEF old, new, last
<1>13. sp \in Word \ Calls!Live
  <2>1. ASSUME LocalAt(sp, F, callers, next_local_offset) PROVE FALSE
    <3>1. cpu \in MachineStates /\ callers \in Seq(Callers)
      BY InvParts
    <3>2. PICK k \in 1..(Len(callers) + 1) :
              \E i \in 0..(CountOf(callers, next_local_offset, k) - 1) : sp = F[k] - i
      BY <2>1 DEF LocalAt
    <3>3. PICK i \in 0..(CountOf(callers, next_local_offset, k) - 1) : sp = F[k] - i
      BY <3>2
    <3>4. F[k] - i > sp
      BY <1>2, <1>3, <3>1, LocalsLie
    <3>5. QED
      BY <1>3, <3>3, <3>4
  <2>2. QED
    BY <1>2, <1>3, <2>1, LiveFound
<1>14. /\ RunningLocals' = Append(RunningLocals, [cell |-> sp, value |-> Held[1]])
       /\ Suspended' = Suspended
  BY <1>9, <1>10, <1>11, <1>12
<1>15. Held' = <<>>
  BY <1>1 DEF Held
<1>16. QED
  BY <1>1, <1>4, <1>10, <1>13, <1>14, <1>15 DEF Calls!Declare

-----------------------------------------------------------------------------
(* Blocks *)

(* Entering a block moves nothing in the machine.                           *)
LEMMA OpenStep ==
    ASSUME FramesInv, BeginBlock
    PROVE  FramesInv' /\ Calls!OpenBlock
<1>1. /\ bases' = Append(bases, next_local_offset) /\ event' = <<"open">>
      /\ UNCHANGED <<cpu, next_local_offset, operands, callers>>
  BY DEF BeginBlock
<1>2. PICK F : Stacked(cpu, callers, next_local_offset, F) /\ Seen(F) /\ F[Depth] = cpu.r[REG_FP]
  BY Places
<1>3. Compiled(next_local_offset', bases', operands')
  <2>1. /\ next_local_offset \in Nat /\ bases \in Seq(Nat) /\ Len(bases) \in Nat
        /\ DOMAIN bases = 1..Len(bases)
        /\ \A i, j \in DOMAIN bases :
              i <= j => bases[i] <= bases[j] /\ bases[j] <= next_local_offset
    BY DEF FramesInv, Compiled
  <2>2. /\ bases' \in Seq(Nat) /\ bases' # <<>> /\ DOMAIN bases' = 1..(Len(bases) + 1)
        /\ \A i \in 1..(Len(bases) + 1) :
              bases'[i] = IF i = Len(bases) + 1 THEN next_local_offset ELSE bases[i]
    <3>1. Append(bases, next_local_offset) \in Seq(Nat)
          /\ Len(Append(bases, next_local_offset)) = Len(bases) + 1
      BY <2>1
    <3>2. DOMAIN Append(bases, next_local_offset) = 1..(Len(bases) + 1)
      BY <3>1
    <3>3. \A i \in 1..(Len(bases) + 1) : Append(bases, next_local_offset)[i] =
              IF i = Len(bases) + 1 THEN next_local_offset ELSE bases[i]
      BY <2>1
    <3>4. Append(bases, next_local_offset) # <<>>
      BY <2>1, <3>1
    <3>5. QED
      BY <1>1, <3>1, <3>2, <3>3, <3>4
  <2>3. ASSUME NEW i \in 1..(Len(bases) + 1), NEW j \in 1..(Len(bases) + 1), i <= j
        PROVE  bases'[i] <= bases'[j] /\ bases'[j] <= next_local_offset
    <3>1. CASE j = Len(bases) + 1
      <4>1. bases'[j] = next_local_offset /\ (i = j \/ i \in 1..Len(bases))
        BY <2>1, <2>2, <3>1
      <4>2. CASE i = j
        BY <2>1, <4>1, <4>2
      <4>3. CASE i \in 1..Len(bases)
        <5>1. i # Len(bases) + 1
          BY <2>1, <4>3
        <5>2. bases'[i] = bases[i]
          BY <2>2, <5>1
        <5>3. i \in DOMAIN bases /\ i <= i
          BY <2>1, <4>3
        <5>4. bases[i] <= next_local_offset
          BY <2>1, <5>3
        <5>5. next_local_offset <= next_local_offset
          BY <2>1
        <5>6. QED
          BY <4>1, <5>2, <5>4, <5>5
      <4>4. QED
        BY <4>1, <4>2, <4>3
    <3>2. CASE j # Len(bases) + 1
      <4>1. i \in 1..Len(bases) /\ j \in 1..Len(bases) /\ i # Len(bases) + 1
        BY <2>1, <2>3, <3>2
      <4>2. QED
        BY <2>1, <2>2, <2>3, <3>2, <4>1
    <3>3. QED
      BY <3>1, <3>2
  <2>4. operands \in Seq(General) /\ IsInjective(operands)
    BY InvParts
  <2>5. QED
    BY <1>1, <2>1, <2>2, <2>3, <2>4 DEF Compiled
<1>4. /\ FramesInv' /\ RunningLocals' = LocalsOf(cpu'.m, F[Depth], next_local_offset')
      /\ Suspended' = SuspendedOf(cpu'.m, F, callers)
  <2>1. /\ cpu' \in MachineStates /\ cpu'.r[REG_SP] = cpu.r[REG_FP] - next_local_offset'
        /\ StackLimit <= cpu'.r[REG_SP]
    BY <1>1, InvParts, RegisterWords
  <2>2. QED
    BY <1>1, <1>2, <1>3, <2>1, StatementDone
<1>5. RunningLocals' = RunningLocals /\ Suspended' = Suspended
  BY <1>1, <1>2, <1>4 DEF Seen
<1>6. Held' = Held
  BY <1>1 DEF Held
<1>7. QED
  BY <1>1, <1>4, <1>5, <1>6 DEF Calls!OpenBlock

(* What closing the innermost block does to sp, at the end of a block and   *)
(* of a body.                                                               *)
LEMMA BlockClosed ==
    ASSUME FramesInv
    PROVE  /\ Last(bases) \in Nat /\ Last(bases) <= next_local_offset
           /\ ClosedBlock \in MachineStates /\ ClosedBlock.m = cpu.m
           /\ ClosedBlock.r[REG_SP] = cpu.r[REG_FP] - Last(bases)
           /\ OnlyIn({REG_SP, REG_TMP}, cpu, ClosedBlock)
<1> DEFINE n == next_local_offset
           base == Last(bases)
<1>1. base \in Nat /\ base <= n /\ n \in Nat
  <2>1. /\ bases \in Seq(Nat) /\ bases # <<>> /\ n \in Nat
        /\ \A i, j \in DOMAIN bases : i <= j => bases[i] <= bases[j] /\ bases[j] <= n
    BY DEF FramesInv, Compiled
  <2>2. Len(bases) \in DOMAIN bases /\ base = bases[Len(bases)] /\ base \in Nat /\ Len(bases) \in Int
    BY <2>1 DEF Last
  <2>3. QED
    BY <2>1, <2>2
<1>2. cpu \in MachineStates /\ cpu.r[REG_SP] = cpu.r[REG_FP] - n /\ cpu.r[REG_SP] \in Int
      /\ cpu.r[REG_FP] \in Int /\ cpu.r[REG_FP] < WordSize /\ WordSize \in Int
  BY InvParts, RegisterWords
<1> HIDE DEF n, base
<1>3. n - base \in Nat /\ cpu.r[REG_SP] + (n - base) < WordSize
      /\ cpu.r[REG_SP] + (n - base) = cpu.r[REG_FP] - base
  BY <1>1, <1>2
<1>4. /\ Pops(cpu, n - base) \in MachineStates /\ Pops(cpu, n - base).m = cpu.m
      /\ Pops(cpu, n - base).r[REG_SP] = cpu.r[REG_SP] + (n - base)
      /\ OnlyIn({REG_SP, REG_TMP}, cpu, Pops(cpu, n - base))
  BY <1>2, <1>3, PopsEffect
<1>5. ClosedBlock = Pops(cpu, n - base)
  BY DEF ClosedBlock, n, base
<1>6. QED
  BY <1>1, <1>3, <1>4, <1>5 DEF n, base

(* Leaving a block pops the locals declared in it and those alone.          *)
LEMMA CloseStep ==
    ASSUME FramesInv, EndBlock
    PROVE  FramesInv' /\ Calls!CloseBlock
<1> DEFINE fp == cpu.r[REG_FP]
           n == next_local_offset
           base == Last(bases)
<1>1. /\ operands = <<>> /\ Len(bases) > 1 /\ cpu' = ClosedBlock
      /\ next_local_offset' = base /\ bases' = Front(bases) /\ event' = <<"close">>
      /\ UNCHANGED <<operands, callers>>
  BY DEF EndBlock, StatementStart
<1>2. PICK F : Stacked(cpu, callers, next_local_offset, F) /\ Seen(F) /\ F[Depth] = fp
  BY Places
<1>3. /\ base \in Nat /\ base <= n /\ n \in Nat
      /\ cpu' \in MachineStates /\ cpu'.m = cpu.m
      /\ cpu'.r[REG_SP] = fp - base /\ cpu'.r[REG_FP] = fp
  <2>1. OnlyIn({REG_SP, REG_TMP}, cpu, cpu')
    BY <1>1, BlockClosed
  <2>2. cpu'.r[REG_FP] = fp
    BY <2>1, RegistersApart DEF OnlyIn, Reserved
  <2>3. QED
    BY <1>1, <2>2, BlockClosed, InvParts
<1>4. Compiled(next_local_offset', bases', operands')
  <2>1. /\ bases \in Seq(Nat) /\ Len(bases) \in Nat /\ DOMAIN bases = 1..Len(bases)
        /\ \A i, j \in DOMAIN bases : i <= j => bases[i] <= bases[j]
    BY DEF FramesInv, Compiled
  <2>2. /\ bases' = SubSeq(bases, 1, Len(bases) - 1) /\ base = bases[Len(bases)]
    BY <1>1 DEF Front, Last
  <2>3. /\ bases' \in Seq(Nat) /\ bases' # <<>> /\ DOMAIN bases' = 1..(Len(bases) - 1)
        /\ \A i \in 1..(Len(bases) - 1) : bases'[i] = bases[i]
    BY <1>1, <2>1, <2>2
  <2>4. \A i, j \in 1..(Len(bases) - 1) :
            i <= j => bases'[i] <= bases'[j] /\ bases'[j] <= base
    <3>1. ASSUME NEW i \in 1..(Len(bases) - 1), NEW j \in 1..(Len(bases) - 1), i <= j
          PROVE  bases'[i] <= bases'[j] /\ bases'[j] <= base
      <4>1. /\ i \in DOMAIN bases /\ j \in DOMAIN bases /\ Len(bases) \in DOMAIN bases
            /\ j <= Len(bases)
        BY <1>1, <2>1
      <4>2. bases[i] <= bases[j] /\ bases[j] <= bases[Len(bases)]
        BY <2>1, <3>1, <4>1
      <4>3. QED
        BY <2>2, <2>3, <4>2
    <3>2. QED
      BY <3>1
  <2>5. operands \in Seq(General) /\ IsInjective(operands)
    BY InvParts
  <2>6. QED
    BY <1>1, <1>3, <2>3, <2>4, <2>5 DEF Compiled
<1>5. /\ FramesInv' /\ RunningLocals' = LocalsOf(cpu'.m, fp, base)
      /\ Suspended' = SuspendedOf(cpu'.m, F, callers)
  <2>1. StackLimit <= cpu'.r[REG_SP]
    <3>1. /\ StackLimit <= fp - n /\ StackLimit \in Nat /\ fp \in Int
      BY RegisterWords
    <3> HIDE DEF fp, n, base
    <3>2. QED
      BY <1>3, <3>1
  <2>2. QED
    BY <1>1, <1>2, <1>3, <1>4, <2>1, StatementDone
<1>6. RunningLocals = LocalsOf(cpu.m, fp, n) /\ Suspended = SuspendedOf(cpu.m, F, callers)
  BY <1>2 DEF Seen
<1> HIDE DEF fp, n, base
<1>7. LocalsOf(cpu.m, fp, base) = SubSeq(LocalsOf(cpu.m, fp, n), 1, base)
      /\ Len(LocalsOf(cpu.m, fp, n)) = n
  BY <1>3 DEF LocalsOf
<1>8. RunningLocals' = SubSeq(RunningLocals, 1, base) /\ Suspended' = Suspended
      /\ base \in 0..Len(RunningLocals)
  BY <1>3, <1>5, <1>6, <1>7
<1>9. Held = <<>> /\ Held' = <<>>
  BY <1>1 DEF Held
<1>10. QED
  BY <1>1, <1>5, <1>8, <1>9 DEF Calls!CloseBlock
-----------------------------------------------------------------------------
(* Calls *)

(* Appending to and cutting sequences, element by element.                  *)
LEMMA Appended ==
    ASSUME NEW S, NEW list \in Seq(S), NEW e \in S
    PROVE  /\ Append(list, e) \in Seq(S) /\ Len(Append(list, e)) = Len(list) + 1
           /\ DOMAIN Append(list, e) = 1..(Len(list) + 1)
           /\ \A x \in 1..Len(list) : Append(list, e)[x] = list[x]
           /\ Append(list, e)[Len(list) + 1] = e
           /\ Append(list, e) # <<>>
OBVIOUS

(* A part of a sequence, element by element.                                *)
LEMMA Cut ==
    ASSUME NEW S, NEW list \in Seq(S), NEW a \in Nat \ {0}, NEW b \in 0..Len(list), a <= b + 1
    PROVE  /\ SubSeq(list, a, b) \in Seq(S) /\ Len(SubSeq(list, a, b)) = b - a + 1
           /\ DOMAIN SubSeq(list, a, b) = 1..(b - a + 1)
           /\ \A x \in 1..(b - a + 1) : SubSeq(list, a, b)[x] = list[a + x - 1]
<1>1. Len(list) \in Nat /\ b \in Nat
  OBVIOUS
<1>2. SubSeq(list, a, b) = [x \in 1..(b - a + 1) |-> list[a + x - 1]]
  BY <1>1
<1>3. \A x \in 1..(b - a + 1) : list[a + x - 1] \in S
  BY <1>1
<1>4. b - a + 1 \in Nat
  BY <1>1
<1> DEFINE cut == SubSeq(list, a, b)
           n == b - a + 1
<1>5. cut = [x \in 1..n |-> list[a + x - 1]]
  BY <1>2
<1>6. cut \in [1..n -> S]
  BY <1>2, <1>3
<1> HIDE DEF cut, n
<1>7. n \in Nat
  BY <1>4 DEF n
<1>8. cut \in Seq(S) /\ Len(cut) = n /\ DOMAIN cut = 1..n
  BY <1>6, <1>7
<1>9. \A x \in 1..n : cut[x] = list[a + x - 1]
  BY <1>5
<1>10. QED
  BY <1>8, <1>9 DEF cut, n

(* The first elements of a sequence.                                        *)
LEMMA CutFront ==
    ASSUME NEW S, NEW list \in Seq(S), NEW b \in 0..Len(list)
    PROVE  /\ SubSeq(list, 1, b) \in Seq(S) /\ Len(SubSeq(list, 1, b)) = b
           /\ DOMAIN SubSeq(list, 1, b) = 1..b
           /\ \A x \in 1..b : SubSeq(list, 1, b)[x] = list[x]
<1>1. Len(list) \in Nat /\ b \in Nat
  OBVIOUS
<1>2. SubSeq(list, 1, b) = [x \in 1..b |-> list[x]]
  BY <1>1
<1>3. \A x \in 1..b : list[x] \in S
  BY <1>1
<1> DEFINE cut == SubSeq(list, 1, b)
<1>4. cut = [x \in 1..b |-> list[x]] /\ cut \in [1..b -> S]
  BY <1>2, <1>3
<1> HIDE DEF cut
<1>5. cut \in Seq(S) /\ Len(cut) = b /\ DOMAIN cut = 1..b
  BY <1>1, <1>4
<1>6. QED
  BY <1>4, <1>5 DEF cut

(* One frame more: the caller is seen like those below it.                  *)
Extended(F, depth, fp) == [k \in 1..(depth + 1) |-> IF k = depth + 1 THEN fp ELSE F[k]]

(* With one more frame, the suspended activations are those before it and   *)
(* the caller's.                                                            *)
LEMMA DeeperSeen ==
    ASSUME NEW below \in Seq(Callers), NEW caller \in Callers, NEW memory, NEW F, NEW fp
    PROVE  SuspendedOf(memory, Extended(F, Len(below) + 1, fp), Append(below, caller)) =
               Append(SuspendedOf(memory, F, below),
                      [locals |-> LocalsOf(memory, F[Len(below) + 1], caller.next_local_offset),
                       held |-> HeldOf(memory, F[Len(below) + 1], caller),
                       return_address |-> memory[fp + 2]])
<1> DEFINE D == Len(below) + 1
           G == Extended(F, D, fp)
           more == Append(below, caller)
           last == [locals |-> LocalsOf(memory, F[D], caller.next_local_offset),
                    held |-> HeldOf(memory, F[D], caller),
                    return_address |-> memory[fp + 2]]
           old == SuspendedOf(memory, F, below)
           new == SuspendedOf(memory, G, more)
<1>1. Len(below) \in Nat /\ D \in Nat /\ D - 1 = Len(below) /\ D >= 1
  OBVIOUS
<1>2. /\ Len(more) = D
      /\ \A k \in 1..(D - 1) : more[k] = below[k]
      /\ more[D] = caller
  BY <1>1, Appended
<1>3. \A k \in 1..(D + 1) : G[k] = IF k = D + 1 THEN fp ELSE F[k]
  BY DEF Extended
<1>4. new = [k \in 1..D |-> new[k]] /\ old = [k \in 1..(D - 1) |-> old[k]]
  BY <1>1, <1>2 DEF SuspendedOf
<1>5. ASSUME NEW k \in 1..(D - 1) PROVE new[k] = old[k]
  <2>1. /\ k \in 1..D /\ k \in 1..Len(below) /\ k \in 1..(D + 1) /\ k + 1 \in 1..(D + 1)
        /\ k # D + 1 /\ k + 1 # D + 1
    BY <1>1
  <2>2. G[k] = F[k] /\ G[k + 1] = F[k + 1] /\ more[k] = below[k]
    BY <1>2, <1>3, <2>1
  <2>3. new[k] = [locals |-> LocalsOf(memory, G[k], more[k].next_local_offset),
                  held |-> HeldOf(memory, G[k], more[k]),
                  return_address |-> memory[G[k + 1] + 2]]
    BY <1>2, <2>1 DEF SuspendedOf
  <2>4. old[k] = [locals |-> LocalsOf(memory, F[k], below[k].next_local_offset),
                  held |-> HeldOf(memory, F[k], below[k]),
                  return_address |-> memory[F[k + 1] + 2]]
    BY <2>1 DEF SuspendedOf
  <2> HIDE DEF new, old, G, more
  <2>5. QED
    BY <2>2, <2>3, <2>4
<1>6. new[D] = last
  <2>1. D \in 1..D /\ D \in 1..(D + 1) /\ D + 1 \in 1..(D + 1) /\ D # D + 1
    BY <1>1
  <2>2. G[D] = F[D] /\ G[D + 1] = fp /\ more[D] = caller
    BY <1>2, <1>3, <2>1
  <2>3. new[D] = [locals |-> LocalsOf(memory, G[D], more[D].next_local_offset),
                  held |-> HeldOf(memory, G[D], more[D]),
                  return_address |-> memory[G[D + 1] + 2]]
    BY <1>2, <2>1 DEF SuspendedOf
  <2> HIDE DEF new, G, more
  <2>4. QED
    BY <2>2, <2>3
<1> HIDE DEF new, old, last, D
<1> DEFINE S == Range(old) \cup {last}
<1>7. old \in Seq(S) /\ last \in S /\ Len(old) = D - 1
  <2>1. old \in [1..(D - 1) -> S]
    BY <1>4 DEF Range
  <2> HIDE DEF S
  <2>2. QED
    BY <1>1, <2>1 DEF S
<1>8. /\ DOMAIN Append(old, last) = 1..D /\ Append(old, last) \in Seq(S)
      /\ \A k \in 1..(D - 1) : Append(old, last)[k] = old[k]
      /\ Append(old, last)[D] = last
  <2> HIDE DEF S
  <2>1. QED
    BY <1>1, <1>7, Appended
<1>9. new = Append(old, last)
  <2> DEFINE longer == Append(old, last)
  <2>1. longer = [k \in 1..D |-> longer[k]]
    <3> HIDE DEF S
    <3>1. longer \in Seq(S) /\ DOMAIN longer = 1..D
      BY <1>8
    <3> HIDE DEF longer
    <3>2. QED
      BY <3>1
  <2>2. \A k \in 1..D : k = D \/ k \in 1..(D - 1)
    BY <1>1
  <2>3. \A k \in 1..D : new[k] = longer[k]
    BY <1>5, <1>6, <1>8, <2>2
  <2> HIDE DEF longer
  <2>4. QED
    BY <1>4, <2>1, <2>3 DEF longer
<1>10. QED
  BY <1>9 DEF new, old, last, D

(* What the guard and the lists of a call come to.                          *)
LEMMA CallParts ==
    ASSUME FramesInv, NEW n \in Nat, NEW at \in ReturnAddresses, FunctionCall(n, at)
    PROVE  \E kept, arguments :
              /\ kept = SubSeq(operands, 1, Len(operands) - n)
              /\ arguments = SubSeq(operands, Len(operands) - n + 1, Len(operands))
              /\ kept \in Seq(General) /\ IsInjective(kept) /\ Len(kept) = Len(operands) - n
              /\ Len(kept) \in Nat
              /\ arguments \in Seq(General) /\ Len(arguments) = n
              /\ \A i \in 1..Len(kept) : kept[i] \in General /\ cpu.r[kept[i]] = Held[i]
              /\ \A j \in 1..n : /\ arguments[j] \in General
                                 /\ Len(kept) + j \in 1..Len(operands)
                                 /\ cpu.r[arguments[j]] = Held[Len(kept) + j]
              /\ Range(kept) \in SUBSET General /\ Cardinality(Range(kept)) = Len(kept)
              /\ cpu.r[REG_SP] >= StackLimit + Len(kept) + 2 * n + 2
              /\ cpu' = Entered(cpu, Range(kept), arguments, at)
              /\ callers' = Append(callers,
                     [next_local_offset |-> next_local_offset, bases |-> bases,
                      operands |-> kept, argument_count |-> n])
<1> DEFINE L == Len(operands)
           k == L - n
           kept == SubSeq(operands, 1, L - n)
           arguments == SubSeq(operands, L - n + 1, L)
<1>1. /\ operands \in Seq(General) /\ L \in Nat /\ n <= L
      /\ \A i \in 1..L : operands[i] \in General /\ Held[i] = cpu.r[operands[i]]
      /\ \A i, j \in 1..L : operands[i] = operands[j] => i = j
  BY InvParts, HeldValues DEF FunctionCall
<1>a. /\ k \in Nat /\ k \in 0..Len(operands) /\ L \in 0..Len(operands) /\ L = k + n
      /\ kept = SubSeq(operands, 1, k) /\ arguments = SubSeq(operands, k + 1, L)
  BY <1>1
<1> HIDE DEF L, k, kept, arguments
<1>2. /\ kept \in Seq(General) /\ Len(kept) = k /\ DOMAIN kept = 1..k
      /\ \A i \in 1..k : kept[i] = operands[i] /\ i \in 1..L
  <2>1. \A i \in 1..k : i \in 1..L
    BY <1>1, <1>a
  <2>2. QED
    BY <1>1, <1>a, <2>1, CutFront
<1>3. /\ arguments \in Seq(General) /\ Len(arguments) = n /\ DOMAIN arguments = 1..n
      /\ \A j \in 1..n : arguments[j] = operands[k + j] /\ k + j \in 1..L
  <2> DEFINE first == k + 1
             count == L - first + 1
  <2>1. first \in Nat \ {0} /\ first <= L + 1 /\ count = n
    BY <1>1, <1>a
  <2>2. \A j \in 1..n : first + j - 1 = k + j /\ k + j \in 1..L
    BY <1>1, <1>a
  <2> HIDE DEF first
  <2>3. /\ arguments \in Seq(General) /\ Len(arguments) = count /\ DOMAIN arguments = 1..count
        /\ \A j \in 1..count : arguments[j] = operands[first + j - 1]
    BY <1>1, <1>a, <2>1, Cut DEF first
  <2> HIDE DEF count
  <2>4. QED
    BY <2>1, <2>2, <2>3
<1>4. IsInjective(kept)
  BY <1>1, <1>2 DEF IsInjective
<1>5. Range(kept) \in SUBSET General /\ Cardinality(Range(kept)) = Len(kept)
  BY <1>2, <1>4, HeldCount
<1>6. cpu.r[REG_SP] >= StackLimit + Len(kept) + 2 * n + 2
  <2> DEFINE sp == cpu.r[REG_SP]
  <2>1. sp >= StackLimit + L + 2 + n /\ StackLimit \in Nat /\ sp \in Int
    BY RegisterWords DEF FunctionCall, L
  <2> HIDE DEF sp
  <2>2. sp >= StackLimit + k + 2 * n + 2
    BY <1>1, <1>a, <2>1
  <2>3. QED
    BY <1>2, <2>2 DEF sp
<1>7. cpu' = Entered(cpu, Range(kept), arguments, at)
  <2>1. cpu' = ParameterLocals(FunctionPrefix(
                   Afc(PushAll(SaveRegisters(cpu, Range(kept)), arguments), REG_RA, at)), n)
    BY DEF FunctionCall, kept, arguments, L
  <2>2. QED
    BY <1>3, <2>1 DEF Entered
<1>8. callers' = Append(callers,
          [next_local_offset |-> next_local_offset, bases |-> bases,
           operands |-> kept, argument_count |-> n])
  BY DEF FunctionCall, kept, L
<1>9. \A i \in 1..Len(kept) : kept[i] \in General /\ cpu.r[kept[i]] = Held[i]
  BY <1>1, <1>2
<1>10. \A j \in 1..n : /\ arguments[j] \in General
                       /\ Len(kept) + j \in 1..L
                       /\ cpu.r[arguments[j]] = Held[Len(kept) + j]
  <2>1. ASSUME NEW j \in 1..n
        PROVE  /\ arguments[j] \in General /\ k + j \in 1..L
               /\ cpu.r[arguments[j]] = Held[k + j]
    <3>1. arguments[j] = operands[k + j] /\ k + j \in 1..L
      BY <1>3
    <3> DEFINE i == k + j
    <3> HIDE DEF i
    <3>2. i \in 1..L /\ arguments[j] = operands[i]
      BY <3>1 DEF i
    <3>3. arguments[j] \in General /\ cpu.r[arguments[j]] = Held[i]
      BY <1>1, <3>2
    <3>4. QED
      BY <3>1, <3>3 DEF i
  <2>2. QED
    BY <1>2, <2>1
<1>11. Len(kept) \in Nat /\ Len(kept) = L - n
  BY <1>1, <1>a, <1>2
<1>12. QED
  BY <1>2, <1>3, <1>4, <1>5, <1>6, <1>7, <1>8, <1>9, <1>10, <1>11 DEF kept, arguments, L

(* A call is an abstract Call: the arguments become the callee's locals,    *)
(* the caller's locals and the values it holds wait as they are, with the   *)
(* address to return to. The saved registers, ra and fp below them          *)
(* overwrite nothing that lives.                                            *)
LEMMA CallStep ==
    ASSUME FramesInv, NEW n \in 0..MaxParameters, NEW at \in ReturnAddresses,
           FunctionCall(n, at)
    PROVE  FramesInv' /\ Calls!Call
<1> DEFINE sp == cpu.r[REG_SP]
           locals == next_local_offset
           L == Len(operands)
<1>0. n \in Nat /\ n <= L /\ n \in 0..L
  <2>1. n \in Nat /\ L \in Nat /\ n <= L
    BY HeldValues, FramesAssumption DEF FunctionCall
  <2>2. QED
    BY <2>1
<1>1. PICK kept, arguments :
              /\ kept = SubSeq(operands, 1, Len(operands) - n)
              /\ arguments = SubSeq(operands, Len(operands) - n + 1, Len(operands))
              /\ kept \in Seq(General) /\ IsInjective(kept) /\ Len(kept) = Len(operands) - n
              /\ Len(kept) \in Nat
              /\ arguments \in Seq(General) /\ Len(arguments) = n
              /\ \A i \in 1..Len(kept) : kept[i] \in General /\ cpu.r[kept[i]] = Held[i]
              /\ \A j \in 1..n : /\ arguments[j] \in General
                                 /\ Len(kept) + j \in 1..Len(operands)
                                 /\ cpu.r[arguments[j]] = Held[Len(kept) + j]
              /\ Range(kept) \in SUBSET General /\ Cardinality(Range(kept)) = Len(kept)
              /\ cpu.r[REG_SP] >= StackLimit + Len(kept) + 2 * n + 2
              /\ cpu' = Entered(cpu, Range(kept), arguments, at)
              /\ callers' = Append(callers,
                     [next_local_offset |-> next_local_offset, bases |-> bases,
                      operands |-> kept, argument_count |-> n])
  BY <1>0, CallParts
<1>2. /\ next_local_offset' = n /\ bases' = <<n>> /\ operands' = <<>> /\ event' = <<"call", n>>
  BY DEF FunctionCall
<1>3. PICK F : Stacked(cpu, callers, next_local_offset, F) /\ Seen(F) /\ F[Depth] = cpu.r[REG_FP]
  BY Places
<1>4. /\ cpu \in MachineStates /\ callers \in Seq(Callers) /\ locals \in Nat /\ Injective(callers)
      /\ Len(callers) \in Nat /\ Depth = Len(callers) + 1 /\ Depth \in Nat /\ Depth - 1 = Len(callers)
      /\ at \in Word
  BY InvParts, FramesAssumption
<1>5. /\ sp \in Int /\ 0 <= sp /\ sp < WordSize /\ WordSize \in Int
      /\ cpu.r[REG_FP] \in Int /\ cpu.r[REG_FP] < WordSize /\ sp = cpu.r[REG_FP] - locals
      /\ StackLimit \in Nat
  BY RegisterWords
<1> DEFINE k == Len(kept)
           caller == [next_local_offset |-> next_local_offset, bases |-> bases,
                      operands |-> kept, argument_count |-> n]
           fp == sp - k - n - 2
<1>6. /\ cpu' \in MachineStates
      /\ cpu'.r[REG_FP] = fp /\ cpu'.r[REG_SP] = fp - n
      /\ cpu'.m[fp + 1] = cpu.r[REG_FP] /\ cpu'.m[fp + 2] = at
      /\ \A reg \in Range(kept) : cpu'.m[sp - SavedBefore(reg, Range(kept))] = cpu.r[reg]
      /\ \A j \in 1..n : cpu'.m[fp - (j - 1)] = cpu.r[arguments[j]]
      /\ \A a \in Word : a > sp => cpu'.m[a] = cpu.m[a]
  <2> DEFINE regs == Range(kept)
             count == Len(arguments)
             entered == Entered(cpu, regs, arguments, at)
  <2>1. regs \in SUBSET General /\ Cardinality(regs) = k /\ count = n
    BY <1>1
  <2>2. sp >= Cardinality(regs) + 2 * count + 2
    <3>1. sp >= StackLimit + k + 2 * n + 2 /\ k \in Nat
      BY <1>1
    <3> HIDE DEF sp, k, regs, count
    <3>2. QED
      BY <1>0, <1>5, <2>1, <3>1
  <2>3. LET low == cpu.r[REG_SP] - Cardinality(regs) - Len(arguments) - 2
        IN  /\ entered \in MachineStates
            /\ entered.r[REG_FP] = low /\ entered.r[REG_SP] = low - Len(arguments)
            /\ entered.m[low + 1] = cpu.r[REG_FP] /\ entered.m[low + 2] = at
            /\ \A reg \in regs : entered.m[cpu.r[REG_SP] - SavedBefore(reg, regs)] = cpu.r[reg]
            /\ \A j \in 1..Len(arguments) : entered.m[low - (j - 1)] = cpu.r[arguments[j]]
            /\ \A a \in Word : a > cpu.r[REG_SP] => entered.m[a] = cpu.m[a]
    <3> HIDE DEF regs
    <3>1. arguments \in Seq(General) /\ regs \in SUBSET General /\ cpu \in MachineStates
          /\ at \in Word
      BY <1>1, <1>4, <2>1
    <3>2. QED
      BY <2>2, <3>1, CallEffect
  <2>4. cpu.r[REG_SP] - Cardinality(regs) - Len(arguments) - 2 = fp /\ cpu' = entered
        /\ Len(arguments) = n
    BY <1>1, <2>1
  <2> HIDE DEF entered, fp
  <2>5. QED
    BY <2>3, <2>4
<1>7. /\ fp \in Int /\ fp - n >= StackLimit /\ 0 <= fp - n /\ fp + 2 <= sp - k /\ fp < sp
      /\ fp = cpu.r[REG_FP] - (locals + k + n + 2)
      /\ k \in Nat /\ fp < WordSize
  <2>1. sp >= StackLimit + k + 2 * n + 2 /\ k \in Nat
    BY <1>1
  <2> DEFINE base == cpu.r[REG_FP]
  <2>2. sp = base - locals /\ base \in Int /\ fp = sp - k - n - 2 /\ locals \in Nat
    BY <1>4, <1>5
  <2> HIDE DEF sp, k, locals, base, fp
  <2>3. /\ fp \in Int /\ fp - n >= StackLimit /\ 0 <= fp - n /\ fp + 2 <= sp - k /\ fp < sp
        /\ fp = base - (locals + k + n + 2)
    <3>1. n \in Nat /\ k \in Nat /\ sp \in Int /\ StackLimit \in Nat
      BY <1>0, <1>5, <2>1
    <3>2. fp \in Int /\ fp + 2 <= sp - k /\ fp < sp
      BY <2>2, <3>1
    <3>3. fp - n >= StackLimit
      BY <2>1, <2>2, <3>1
    <3>4. 0 <= fp - n
      BY <3>1, <3>2, <3>3
    <3>5. fp = base - (locals + k + n + 2)
      BY <2>2, <3>1
    <3>6. QED
      BY <3>2, <3>3, <3>4, <3>5
  <2>4. fp < WordSize
    BY <1>5, <2>3
  <2>5. QED
    BY <2>1, <2>3, <2>4 DEF base
<1>8. caller \in Callers /\ SizeOf(caller) = locals + k + n + 2
      /\ caller.operands = kept /\ caller.next_local_offset = locals
      /\ caller.bases = bases
  <2>1. bases \in Seq(Nat)
    BY DEF FramesInv, Compiled
  <2>2. QED
    BY <1>0, <1>1, <1>4, <2>1 DEF Callers, SizeOf
<1> HIDE DEF fp, caller
<1>a. PICK G : G = Extended(F, Depth, fp)
  OBVIOUS
<1>9. /\ callers' = Append(callers, caller) /\ callers' \in Seq(Callers)
      /\ Len(callers') = Depth /\ DOMAIN callers' = 1..Depth
      /\ \A j \in 1..Len(callers) : callers'[j] = callers[j]
      /\ callers'[Depth] = caller
  <2>1. callers' = Append(callers, caller)
    BY <1>1 DEF caller
  <2>2. QED
    BY <1>4, <1>8, <2>1, Appended
<1>10. /\ G = [j \in 1..(Depth + 1) |-> G[j]]
       /\ G[Depth + 1] = fp
       /\ \A j \in 1..Depth : G[j] = F[j]
  BY <1>4, <1>a DEF Extended
<1>11. /\ F \in [1..Depth -> Word] /\ F[1] = WordSize - 1 /\ F[Depth] = cpu.r[REG_FP]
       /\ \A j \in 1..Len(callers) : F[j + 1] = F[j] - SizeOf(callers[j])
       /\ \A j \in 1..Len(callers) : F[j] = cpu.m[F[j + 1] + 1]
  BY <1>3, <1>4 DEF Stacked
<1>12. /\ SuspendedOf(cpu'.m, F, callers) = SuspendedOf(cpu.m, F, callers)
       /\ \A j \in 1..Len(callers) : cpu'.m[F[j + 1] + 1] = cpu.m[F[j + 1] + 1]
  <2>1. \A a \in Word : a > cpu.r[REG_FP] => cpu'.m[a] = cpu.m[a]
    <3>1. ASSUME NEW a \in Word, a > cpu.r[REG_FP] PROVE a > sp
      <4> HIDE DEF sp, locals
      <4>1. QED
        BY <1>4, <1>5, <3>1, Words
    <3> HIDE DEF sp
    <3>2. QED
      BY <1>6, <3>1
  <2>2. QED
    BY <1>3, <2>1, BelowTheCallers
<1>13. Stacked(cpu', callers', n, G)
  <2>1. fp \in Word
    BY <1>0, <1>7, Words
  <2>2. G \in [1..(Depth + 1) -> Word]
    <3>1. ASSUME NEW j \in 1..(Depth + 1) PROVE G[j] \in Word
      <4>1. j = Depth + 1 \/ j \in 1..Depth
        BY <1>4
      <4>2. QED
        BY <1>10, <1>11, <2>1, <4>1
    <3>2. QED
      BY <1>10, <3>1
  <2>3. G[1] = WordSize - 1 /\ G[Depth + 1] = cpu'.r[REG_FP]
    <3>1. 1 \in 1..Depth
      BY <1>4
    <3>2. QED
      BY <1>6, <1>10, <1>11, <3>1
  <2>4. ASSUME NEW j \in 1..Depth
        PROVE  G[j + 1] = G[j] - SizeOf(callers'[j]) /\ G[j] = cpu'.m[G[j + 1] + 1]
    <3>1. CASE j = Depth
      <4>1. G[j] = cpu.r[REG_FP] /\ G[j + 1] = fp /\ callers'[j] = caller
        BY <1>9, <1>10, <1>11, <3>1
      <4>2. QED
        BY <1>6, <1>7, <1>8, <4>1
    <3>2. CASE j # Depth
      <4>1. j \in 1..Len(callers) /\ j + 1 \in 1..Depth
        BY <1>4, <3>2
      <4>2. G[j] = F[j] /\ G[j + 1] = F[j + 1] /\ callers'[j] = callers[j]
        BY <1>9, <1>10, <4>1
      <4>3. QED
        BY <1>11, <1>12, <4>1, <4>2
    <3>3. QED
      BY <3>1, <3>2
  <2>5. cpu'.r[REG_SP] = cpu'.r[REG_FP] - n /\ StackLimit <= cpu'.r[REG_SP]
    BY <1>6, <1>7
  <2>6. QED
    BY <1>9, <2>2, <2>3, <2>4, <2>5 DEF Stacked
<1>14. FramesInv'
  <2>1. Compiled(next_local_offset', bases', operands')
    <3>1. IsInjective(<<>>)
      BY DEF IsInjective
    <3>2. QED
      BY <1>0, <1>2, <3>1 DEF Compiled
  <2>2. ASSUME NEW j \in 1..Len(callers')
        PROVE  Compiled(callers'[j].next_local_offset, callers'[j].bases, callers'[j].operands)
    <3>1. CASE j = Depth
      <4>1. Compiled(locals, bases, kept)
        BY <1>1 DEF FramesInv, Compiled
      <4>2. QED
        BY <1>8, <1>9, <3>1, <4>1
    <3>2. CASE j # Depth
      <4>1. j \in 1..Len(callers) /\ callers'[j] = callers[j]
        BY <1>4, <1>9, <3>2
      <4>2. QED
        BY <4>1 DEF FramesInv
    <3>3. QED
      BY <3>1, <3>2
  <2>3. Stacked(cpu', callers', next_local_offset', G)
    BY <1>2, <1>13
  <2>4. QED
    BY <1>6, <1>9, <2>1, <2>2, <2>3 DEF FramesInv
<1>15. /\ RunningLocals = LocalsOf(cpu.m, F[Depth], locals)
       /\ Suspended = SuspendedOf(cpu.m, F, callers)
  BY <1>3 DEF Seen
<1>16. /\ RunningLocals' = LocalsOf(cpu'.m, fp, n)
       /\ Suspended' = SuspendedOf(cpu'.m, G, callers')
  <2>1. Stacked(cpu', callers', next_local_offset', G)
    BY <1>2, <1>13
  <2>2. Seen(G)'
    BY <1>14, <2>1, ViewFoundNext
  <2>3. Depth' = Depth + 1
    BY <1>9 DEF Depth
  <2>4. RunningLocals' = LocalsOf(cpu'.m, G[Depth + 1], n)
        /\ Suspended' = SuspendedOf(cpu'.m, G, callers')
    BY <1>2, <2>2, <2>3 DEF Seen
  <2>5. QED
    BY <1>10, <2>4
<1>17. LocalsOf(cpu'.m, F[Depth], locals) = RunningLocals
  <2>1. LocalsOf(cpu'.m, F[Len(callers) + 1], locals) = LocalsOf(cpu.m, F[Len(callers) + 1], locals)
    BY <1>3, <1>4, <1>6, LocalsAgree
  <2>2. QED
    BY <1>4, <1>15, <2>1
<1>18. HeldOf(cpu'.m, F[Depth], caller) = SubSeq(Held, 1, L - n)
  <2>1. Held \in Seq(Word) /\ L - n \in 0..Len(Held) /\ L - n = k
    <3>1. Held \in [1..L -> Word]
      <4>1. Held = [i \in 1..L |-> Held[i]]
        BY HeldValues DEF Held
      <4>2. \A i \in 1..L : Held[i] \in Word
        BY HeldValues
      <4> HIDE DEF L
      <4>3. QED
        BY <4>1, <4>2
    <3>2. L \in Nat /\ Len(Held) = L
      BY HeldValues
    <3>3. L - n = k
      BY <1>1
    <3> HIDE DEF L, k
    <3>4. QED
      BY <1>0, <3>1, <3>2, <3>3
  <2> DEFINE cut == SubSeq(Held, 1, L - n)
  <2>2. cut \in Seq(Word) /\ DOMAIN cut = 1..k /\ \A i \in 1..k : cut[i] = Held[i]
    <3> DEFINE b == L - n
    <3>1. b \in 0..Len(Held)
      BY <2>1
    <3> HIDE DEF b
    <3>2. /\ SubSeq(Held, 1, b) \in Seq(Word) /\ DOMAIN SubSeq(Held, 1, b) = 1..b
          /\ \A x \in 1..b : SubSeq(Held, 1, b)[x] = Held[x]
      BY <2>1, <3>1, CutFront
    <3>3. QED
      BY <2>1, <3>2 DEF b
  <2>3. cut = [i \in 1..k |-> Held[i]]
    <3> HIDE DEF cut, k
    <3>1. QED
      BY <2>2
  <2>4. ASSUME NEW i \in 1..k PROVE cpu'.m[PlaceOf(kept[i], F[Depth], caller)] = Held[i]
    <3>1. kept[i] \in Range(kept)
      <4>1. DOMAIN kept = 1..k
        BY <1>1
      <4>2. QED
        BY <4>1 DEF Range
    <3>2. PlaceOf(kept[i], F[Depth], caller) = sp - SavedBefore(kept[i], Range(kept))
      BY <1>3, <1>5, <1>8 DEF PlaceOf
    <3>3. cpu'.m[sp - SavedBefore(kept[i], Range(kept))] = cpu.r[kept[i]]
      BY <1>6, <3>1
    <3>4. cpu.r[kept[i]] = Held[i]
      BY <1>1
    <3>5. QED
      BY <3>2, <3>3, <3>4
  <2>5. HeldOf(cpu'.m, F[Depth], caller) = [i \in 1..k |-> cpu'.m[PlaceOf(kept[i], F[Depth], caller)]]
    <3>1. DOMAIN kept = 1..k
      BY <1>1
    <3>2. QED
      BY <1>8, <3>1 DEF HeldOf
  <2>6. QED
    BY <2>3, <2>4, <2>5
<1>19. Suspended' = Append(Suspended,
           [locals |-> RunningLocals, held |-> SubSeq(Held, 1, L - n), return_address |-> at])
  <2> DEFINE D == Len(callers) + 1
  <2>1. SuspendedOf(cpu'.m, Extended(F, D, fp), Append(callers, caller)) =
            Append(SuspendedOf(cpu'.m, F, callers),
                   [locals |-> LocalsOf(cpu'.m, F[D], caller.next_local_offset),
                    held |-> HeldOf(cpu'.m, F[D], caller),
                    return_address |-> cpu'.m[fp + 2]])
    BY <1>4, <1>8, DeeperSeen
  <2>2. D = Depth /\ G = Extended(F, D, fp)
    BY <1>4, <1>a
  <2>3. Suspended' = Append(SuspendedOf(cpu'.m, F, callers),
                   [locals |-> LocalsOf(cpu'.m, F[Depth], locals),
                    held |-> HeldOf(cpu'.m, F[Depth], caller),
                    return_address |-> cpu'.m[fp + 2]])
    BY <1>8, <1>9, <1>16, <2>1, <2>2
  <2>4. cpu'.m[fp + 2] = at /\ SuspendedOf(cpu'.m, F, callers) = Suspended
    BY <1>6, <1>12, <1>15
  <2>5. QED
    BY <1>17, <1>18, <2>3, <2>4
<1>20. ASSUME NEW j \in 1..n
       PROVE  /\ RunningLocals'[j] = [cell |-> fp - (j - 1), value |-> Held[k + j]]
              /\ fp - (j - 1) \in Word \ Calls!Live
  <2>1. cpu'.m[fp - (j - 1)] = Held[k + j]
    <3>1. cpu'.m[fp - (j - 1)] = cpu.r[arguments[j]]
      BY <1>6
    <3>2. cpu.r[arguments[j]] = Held[Len(kept) + j]
      BY <1>1
    <3>3. QED
      BY <3>1, <3>2
  <2>2. RunningLocals'[j] = [cell |-> fp - (j - 1), value |-> cpu'.m[fp - (j - 1)]]
    BY <1>16 DEF LocalsOf
  <2>3. fp - (j - 1) \in Word /\ fp - (j - 1) <= sp /\ fp - (j - 1) \in Int
    <3> DEFINE cell == fp - (j - 1)
    <3>1. /\ fp \in Int /\ fp <= sp /\ sp < WordSize /\ WordSize \in Int /\ sp \in Int
          /\ 0 <= fp - n /\ n \in Nat /\ j \in Int /\ 1 <= j /\ j <= n
      BY <1>0, <1>5, <1>7
    <3> HIDE DEF fp, sp
    <3>2. cell \in Int /\ 0 <= cell /\ cell < WordSize /\ cell <= sp
      BY <3>1
    <3> HIDE DEF cell
    <3>3. QED
      BY <3>2, Words DEF cell
  <2>4. ASSUME NEW cell, cell <= sp, cell \in Int PROVE cell \notin Calls!Live
    <3> SUFFICES ASSUME LocalAt(cell, F, callers, next_local_offset) PROVE FALSE
      BY <1>3, LiveFound
    <3>1. PICK x \in 1..(Len(callers) + 1) :
              \E i \in 0..(CountOf(callers, next_local_offset, x) - 1) : cell = F[x] - i
      BY DEF LocalAt
    <3>2. PICK i \in 0..(CountOf(callers, next_local_offset, x) - 1) : cell = F[x] - i
      BY <3>1
    <3>3. F[x] - i > sp
      BY <1>3, <1>4, LocalsLie
    <3>4. QED
      BY <1>5, <2>4, <3>2, <3>3
  <2>5. QED
    BY <2>1, <2>2, <2>3, <2>4
<1>21. Len(RunningLocals') = n
  BY <1>0, <1>16 DEF LocalsOf
<1> DEFINE passed == SubSeq(Held, Len(Held) - n + 1, Len(Held))
<1>22. Len(Held) = L /\ L \in Nat /\ L - n = k /\ \A j \in 1..n : passed[j] = Held[k + j]
  <2>1. Len(Held) = L /\ L \in Nat /\ L - n = k
    BY <1>1, HeldValues
  <2>2. Held \in Seq(Word)
    <3>1. Held = [i \in 1..L |-> Held[i]]
      BY HeldValues DEF Held
    <3>2. \A i \in 1..L : Held[i] \in Word
      BY HeldValues
    <3> HIDE DEF L
    <3>3. Held \in [1..L -> Word]
      BY <3>1, <3>2
    <3>4. QED
      BY <2>1, <3>3
  <2> DEFINE first == Len(Held) - n + 1
             count == Len(Held) - first + 1
  <2>3. first \in Nat \ {0} /\ first <= Len(Held) + 1 /\ count = n /\ Len(Held) \in 0..Len(Held)
        /\ \A j \in 1..n : first + j - 1 = k + j
    <3> HIDE DEF L, k
    <3>1. QED
      BY <1>0, <2>1
  <2> HIDE DEF first
  <2>4. \A j \in 1..count : SubSeq(Held, first, Len(Held))[j] = Held[first + j - 1]
    BY <2>2, <2>3, Cut
  <2> HIDE DEF count
  <2>5. \A j \in 1..n : passed[j] = Held[k + j]
    BY <2>3, <2>4 DEF first
  <2>6. QED
    BY <2>1, <2>5
<1>23. Held' = <<>>
  BY <1>2 DEF Held
<1> HIDE DEF L, k, sp, locals, passed
<1>24. /\ n \in 0..Len(Held)
       /\ Suspended' = Append(Suspended,
              [locals |-> RunningLocals, held |-> SubSeq(Held, 1, Len(Held) - n),
               return_address |-> at])
       /\ Len(RunningLocals') = n
  BY <1>0, <1>19, <1>21, <1>22
<1>25. \A i \in 1..n : RunningLocals'[i].value = passed[i]
                       /\ RunningLocals'[i].cell \in Word \ Calls!Live
                       /\ RunningLocals'[i].cell = fp - (i - 1)
  <2>1. ASSUME NEW i \in 1..n
        PROVE  /\ RunningLocals'[i].value = Held[k + i]
               /\ RunningLocals'[i].cell = fp - (i - 1)
    <3>1. RunningLocals'[i] = [cell |-> fp - (i - 1), value |-> Held[k + i]]
      BY <1>20
    <3>2. QED
      BY <3>1
  <2>2. QED
    BY <1>20, <1>22, <2>1
<1>26. \A i, j \in 1..n : RunningLocals'[j].cell = RunningLocals'[i].cell => i = j
  <2>1. ASSUME NEW i \in 1..n, NEW j \in 1..n,
               RunningLocals'[j].cell = RunningLocals'[i].cell
        PROVE  i = j
    <3>1. fp - (j - 1) = fp - (i - 1)
      BY <1>25, <2>1
    <3>2. QED
      BY <1>0, <1>7, <3>1
  <2>2. QED
    BY <2>1
<1>27. QED
  BY <1>2, <1>14, <1>23, <1>24, <1>25, <1>26 DEF Calls!Call, passed
-----------------------------------------------------------------------------
(* Returns *)

(* The suspended caller a return takes up, in the machine's terms.          *)
LEMMA LastCaller ==
    ASSUME FramesInv, callers # <<>>, NEW F, Stacked(cpu, callers, next_local_offset, F)
    PROVE  LET D == Len(callers)
               caller == Last(callers)
           IN  /\ D \in 1..Len(callers) /\ D \in Nat /\ D >= 1 /\ caller = callers[D]
               /\ caller \in Callers
               /\ Compiled(caller.next_local_offset, caller.bases, caller.operands)
               /\ Range(caller.operands) \in SUBSET General
               /\ Cardinality(Range(caller.operands)) = Len(caller.operands)
               /\ Len(caller.operands) \in Nat /\ DOMAIN caller.operands = 1..Len(caller.operands)
               /\ caller.next_local_offset \in Nat /\ caller.argument_count \in Nat
               /\ F[D + 1] = cpu.r[REG_FP]
               /\ F[D] = cpu.m[cpu.r[REG_FP] + 1] /\ F[D] \in Int /\ F[D] < WordSize
               /\ cpu.r[REG_FP] + 2 + caller.argument_count + Len(caller.operands)
                      = F[D] - caller.next_local_offset
               /\ StackLimit <= F[D] - caller.next_local_offset
<1> DEFINE D == Len(callers)
           caller == Last(callers)
           kept == caller.operands
           fp == cpu.r[REG_FP]
<1>1. /\ callers \in Seq(Callers) /\ next_local_offset \in Nat /\ cpu \in MachineStates
  BY InvParts
<1>2. D \in Nat /\ D >= 1 /\ D \in 1..D /\ caller = callers[D] /\ D + 1 \in 1..(D + 1)
      /\ D \in 1..(D + 1)
  BY <1>1 DEF Last
<1>3. caller \in Callers /\ Compiled(caller.next_local_offset, caller.bases, kept)
  BY <1>1, <1>2 DEF FramesInv
<1>4. /\ kept \in Seq(General) /\ IsInjective(kept) /\ caller.next_local_offset \in Nat
      /\ caller.argument_count \in Nat
  BY <1>3 DEF Compiled, Callers
<1>5. /\ Range(kept) \in SUBSET General /\ Cardinality(Range(kept)) = Len(kept)
      /\ Len(kept) \in Nat /\ DOMAIN kept = 1..Len(kept)
  <2> HIDE DEF kept
  <2>1. QED
    BY <1>4, HeldCount
<1>6. F[D + 1] = fp /\ F[D] = cpu.m[F[D + 1] + 1] /\ F[D + 1] = F[D] - SizeOf(caller)
  BY <1>2 DEF Stacked
<1>7. F[D] \in Int /\ F[D] < WordSize /\ fp \in Int
  <2>1. F[D] \in Word
    BY <1>1, <1>2, FrameCells
  <2>2. QED
    BY <2>1, RegisterWords, Words
<1>8. /\ fp + 2 + caller.argument_count + Len(kept) = F[D] - caller.next_local_offset
      /\ StackLimit <= F[D] - caller.next_local_offset
  <2> DEFINE locals == caller.next_local_offset
             passed == caller.argument_count
             held == Len(kept)
             here == F[D]
  <2>1. fp = here - (locals + held + passed + 2)
    BY <1>6 DEF SizeOf
  <2>2. /\ locals \in Nat /\ passed \in Nat /\ held \in Nat /\ here \in Int /\ fp \in Int
        /\ StackLimit <= fp - next_local_offset /\ StackLimit \in Nat /\ next_local_offset \in Nat
    BY <1>1, <1>4, <1>5, <1>7, RegisterWords
  <2> HIDE DEF fp, locals, passed, held, here
  <2>3. fp + 2 + passed + held = here - locals /\ StackLimit <= here - locals
    BY <2>1, <2>2
  <2>4. QED
    BY <2>3 DEF locals, passed, held, here
<1>9. QED
  BY <1>2, <1>3, <1>4, <1>5, <1>6, <1>7, <1>8

(* From the suffix of a callee that left v in r0 to the code of its caller. *)
LEMMA LeaveStep ==
    ASSUME FramesInv, NEW machine \in MachineStates, machine.m = cpu.m,
           machine.r[REG_FP] = cpu.r[REG_FP], Leave(machine)
    PROVE  FramesInv' /\ Calls!Resume(machine.r[REG_RETURN])
<1> DEFINE D == Len(callers)
           caller == Last(callers)
           kept == caller.operands
           count == Len(kept)
           locals == caller.next_local_offset
           fp == cpu.r[REG_FP]
           v == machine.r[REG_RETURN]
           gone == FunctionSuffix(machine)
<1>1. /\ callers # <<>>
      /\ next_local_offset' = locals /\ bases' = caller.bases
      /\ callers' = Front(callers) /\ event' = <<"return", gone.r[REG_RA]>>
  BY DEF Leave
<1>2. PICK reg \in General : /\ IsLowest(reg, General \ Range(kept))
                             /\ cpu' = AfterCall(gone, caller, reg)
                             /\ operands' = Append(kept, reg)
  BY DEF Leave
<1>3. PICK F : Stacked(cpu, callers, next_local_offset, F) /\ Seen(F) /\ F[Depth] = fp
  BY Places
<1>4. /\ D \in 1..Len(callers) /\ D \in Nat /\ D >= 1 /\ caller = callers[D]
      /\ caller \in Callers
      /\ Compiled(locals, caller.bases, kept)
      /\ Range(kept) \in SUBSET General /\ Cardinality(Range(kept)) = count
      /\ count \in Nat /\ DOMAIN kept = 1..count
      /\ locals \in Nat /\ caller.argument_count \in Nat
      /\ F[D + 1] = fp
      /\ F[D] = cpu.m[fp + 1] /\ F[D] \in Int /\ F[D] < WordSize
      /\ fp + 2 + caller.argument_count + count = F[D] - locals
      /\ StackLimit <= F[D] - locals
  BY <1>1, <1>3, LastCaller
<1>5. /\ cpu \in MachineStates /\ callers \in Seq(Callers) /\ next_local_offset \in Nat
      /\ Injective(callers) /\ Depth = D + 1 /\ DOMAIN callers = 1..D
  BY InvParts
<1>6. /\ kept \in Seq(General) /\ IsInjective(kept) /\ reg \notin Range(kept)
      /\ \A i \in 1..count : kept[i] \in Range(kept) /\ kept[i] # reg
  <2>1. kept \in Seq(General) /\ IsInjective(kept) /\ reg \notin Range(kept)
    BY <1>2, <1>4 DEF Compiled, IsLowest
  <2>2. \A i \in 1..count : kept[i] \in Range(kept)
    BY <1>4 DEF Range
  <2>3. QED
    BY <2>1, <2>2
<1> DEFINE sp == F[D] - locals
<1>7. /\ cpu' \in MachineStates /\ cpu'.m = cpu.m
      /\ cpu'.r[REG_FP] = F[D] /\ gone.r[REG_RA] = cpu.m[fp + 2]
      /\ cpu'.r[REG_SP] = sp
      /\ cpu'.r[reg] = v
      /\ \A other \in Range(kept) : cpu'.r[other] = cpu.m[sp - SavedBefore(other, Range(kept))]
  <2> DEFINE back == AfterCall(gone, caller, reg)
             low == machine.r[REG_FP]
  <2>1. /\ low + 2 + caller.argument_count + Cardinality(Range(caller.operands)) = sp
        /\ sp < WordSize /\ low = fp
    <3>1. low + 2 + caller.argument_count + Cardinality(Range(caller.operands)) = sp /\ low = fp
      BY <1>4
    <3>2. sp < WordSize
      <4> DEFINE here == F[D]
      <4>1. here \in Int /\ here < WordSize /\ locals \in Nat /\ WordSize \in Int
        BY <1>4, Words
      <4> HIDE DEF here, locals
      <4>2. here - locals < WordSize
        BY <4>1
      <4>3. QED
        BY <4>2 DEF here, locals
    <3>3. QED
      BY <3>1, <3>2
  <2> HIDE DEF sp
  <2>2. LET top == machine.r[REG_FP] + 2 + caller.argument_count
                       + Cardinality(Range(caller.operands))
        IN  /\ back \in MachineStates /\ back.m = machine.m
            /\ back.r[REG_FP] = machine.m[machine.r[REG_FP] + 1]
            /\ FunctionSuffix(machine).r[REG_RA] = machine.m[machine.r[REG_FP] + 2]
            /\ back.r[REG_SP] = top
            /\ back.r[reg] = machine.r[REG_RETURN]
            /\ \A other \in Range(caller.operands) :
                   back.r[other] = machine.m[top - SavedBefore(other, Range(caller.operands))]
    <3>1. /\ machine \in MachineStates /\ caller.argument_count \in Nat
          /\ Range(caller.operands) \in SUBSET General
          /\ reg \in General /\ reg \notin Range(caller.operands)
          /\ machine.r[REG_FP] + 2 + caller.argument_count
                + Cardinality(Range(caller.operands)) < WordSize
      BY <1>4, <1>6, <2>1
    <3> HIDE DEF caller
    <3>2. QED
      BY <3>1, ReturnEffect
  <2>3. cpu' = back
    BY <1>2
  <2> HIDE DEF back
  <2>4. QED
    BY <1>4, <2>1, <2>2, <2>3
<1>a. PICK G : G = [k \in 1..D |-> F[k]]
  OBVIOUS
<1>8. /\ callers' \in Seq(Callers) /\ Len(callers') = D - 1 /\ DOMAIN callers' = 1..(D - 1)
      /\ \A j \in 1..(D - 1) : callers'[j] = callers[j]
  <2>1. Front(callers) = SubSeq(callers, 1, D - 1) /\ D - 1 \in 0..Len(callers)
    BY <1>4 DEF Front
  <2> DEFINE b == D - 1
  <2> HIDE DEF b
  <2>2. callers' = SubSeq(callers, 1, b) /\ b \in 0..Len(callers)
    BY <1>1, <2>1 DEF b
  <2>3. /\ callers' \in Seq(Callers) /\ Len(callers') = b /\ DOMAIN callers' = 1..b
        /\ \A j \in 1..b : callers'[j] = callers[j]
    BY <1>5, <2>2, CutFront
  <2>4. QED
    BY <2>3 DEF b
<1>9. /\ F \in [1..Depth -> Word] /\ F[1] = WordSize - 1
      /\ \A j \in 1..D : F[j + 1] = F[j] - SizeOf(callers[j])
      /\ \A j \in 1..D : F[j] = cpu.m[F[j + 1] + 1]
  BY <1>3, <1>5 DEF Stacked
<1>10. Stacked(cpu', callers', locals, G)
  <2>1. G \in [1..D -> Word] /\ G[1] = WordSize - 1 /\ G[D] = cpu'.r[REG_FP]
    <3>1. 1 \in 1..D /\ D \in 1..D /\ \A j \in 1..D : j \in 1..Depth
      BY <1>4, <1>5
    <3>2. QED
      BY <1>7, <1>9, <1>a, <3>1
  <2>2. ASSUME NEW j \in 1..(D - 1)
        PROVE  G[j + 1] = G[j] - SizeOf(callers'[j]) /\ G[j] = cpu'.m[G[j + 1] + 1]
    <3>1. j \in 1..D /\ j + 1 \in 1..D
      BY <1>4
    <3>2. G[j] = F[j] /\ G[j + 1] = F[j + 1] /\ callers'[j] = callers[j]
      BY <1>8, <1>a, <3>1
    <3>3. QED
      BY <1>7, <1>9, <3>1, <3>2
  <2>3. Len(callers') = D - 1 /\ Len(callers') + 1 = D
    BY <1>4, <1>8
  <2>4. cpu'.r[REG_SP] = cpu'.r[REG_FP] - locals /\ StackLimit <= cpu'.r[REG_SP]
    BY <1>4, <1>7
  <2>5. QED
    BY <2>1, <2>2, <2>3, <2>4 DEF Stacked
<1>11. operands' \in Seq(General) /\ IsInjective(operands')
       /\ Len(operands') = count + 1 /\ DOMAIN operands' = 1..(count + 1)
       /\ operands'[count + 1] = reg /\ \A i \in 1..count : operands'[i] = kept[i]
  <2> HIDE DEF kept
  <2>1. /\ operands' \in Seq(General)
        /\ Len(operands') = count + 1 /\ DOMAIN operands' = 1..(count + 1)
        /\ operands'[count + 1] = reg /\ \A i \in 1..count : operands'[i] = kept[i]
    BY <1>2, <1>6, Appended
  <2>2. IsInjective(operands')
    <3>1. \A i \in 1..(count + 1) : i = count + 1 \/ i \in 1..count
      BY <1>4
    <3>2. \A i, j \in 1..count : kept[i] = kept[j] => i = j
      BY <1>4, <1>6 DEF IsInjective
    <3> HIDE DEF count
    <3>3. QED
      BY <1>6, <2>1, <3>1, <3>2 DEF IsInjective
  <2>3. QED
    BY <2>1, <2>2
<1>12. FramesInv'
  <2>1. Compiled(next_local_offset', bases', operands')
    BY <1>1, <1>4, <1>11 DEF Compiled
  <2>2. ASSUME NEW j \in 1..Len(callers')
        PROVE  Compiled(callers'[j].next_local_offset, callers'[j].bases, callers'[j].operands)
    <3>1. j \in 1..D /\ callers'[j] = callers[j]
      BY <1>4, <1>8
    <3>2. QED
      BY <3>1 DEF FramesInv
  <2>3. Stacked(cpu', callers', next_local_offset', G)
    BY <1>1, <1>10
  <2>4. QED
    BY <1>7, <1>8, <2>1, <2>2, <2>3 DEF FramesInv
<1>13. Suspended = SuspendedOf(cpu.m, F, callers)
  BY <1>3 DEF Seen
<1>14. /\ RunningLocals' = LocalsOf(cpu.m, F[D], locals)
       /\ Suspended' = SuspendedOf(cpu.m, G, callers')
  <2>1. Stacked(cpu', callers', next_local_offset', G)
    BY <1>1, <1>10
  <2>2. Seen(G)'
    BY <1>12, <2>1, ViewFoundNext
  <2>3. Depth' = D
    BY <1>4, <1>8 DEF Depth
  <2>4. G[D] = F[D]
    BY <1>4, <1>a
  <2>5. QED
    BY <1>1, <1>7, <2>2, <2>3, <2>4 DEF Seen
<1>15. /\ DOMAIN Suspended = 1..D /\ Len(Suspended) = D
       /\ Calls!Last(Suspended) = Suspended[D]
       /\ Suspended[D] = [locals |-> LocalsOf(cpu.m, F[D], locals),
                          held |-> HeldOf(cpu.m, F[D], caller),
                          return_address |-> cpu.m[fp + 2]]
  <2>1. Suspended = [k \in 1..D |-> Suspended[k]]
    BY <1>5 DEF Suspended
  <2>2. D \in 1..D
    BY <1>4
  <2>3. Suspended[D] = [locals |-> LocalsOf(cpu.m, F[D], callers[D].next_local_offset),
                        held |-> HeldOf(cpu.m, F[D], callers[D]),
                        return_address |-> cpu.m[F[D + 1] + 2]]
    BY <1>13, <2>2 DEF SuspendedOf
  <2>4. DOMAIN Suspended = 1..D /\ Len(Suspended) = D
    <3> HIDE DEF D
    <3>1. QED
      BY <1>4, <2>1
  <2>5. Suspended[D] = [locals |-> LocalsOf(cpu.m, F[D], locals),
                        held |-> HeldOf(cpu.m, F[D], caller),
                        return_address |-> cpu.m[fp + 2]]
    BY <1>4, <2>3
  <2>6. QED
    BY <2>4, <2>5 DEF Calls!Last
<1>16. Suspended' = Calls!Front(Suspended)
  <2> DEFINE b == D - 1
             new == SuspendedOf(cpu.m, G, callers')
  <2>1. b \in 0..D /\ D \in Nat
    BY <1>4
  <2>2. Suspended = [k \in 1..D |-> Suspended[k]]
    BY <1>5 DEF Suspended
  <2>3. ASSUME NEW k \in 1..b PROVE new[k] = Suspended[k]
    <3>1. k \in 1..D /\ k + 1 \in 1..D /\ k \in 1..(D - 1)
      BY <1>4
    <3>2. G[k] = F[k] /\ G[k + 1] = F[k + 1] /\ callers'[k] = callers[k]
      BY <1>8, <1>a, <3>1
    <3>3. new[k] = [locals |-> LocalsOf(cpu.m, G[k], callers'[k].next_local_offset),
                    held |-> HeldOf(cpu.m, G[k], callers'[k]),
                    return_address |-> cpu.m[G[k + 1] + 2]]
      BY <1>8, <3>1 DEF SuspendedOf
    <3>4. Suspended[k] = [locals |-> LocalsOf(cpu.m, F[k], callers[k].next_local_offset),
                          held |-> HeldOf(cpu.m, F[k], callers[k]),
                          return_address |-> cpu.m[F[k + 1] + 2]]
      BY <1>13, <3>1 DEF SuspendedOf
    <3>5. QED
      BY <3>2, <3>3, <3>4
  <2>4. new = [k \in 1..b |-> new[k]]
    BY <1>8 DEF SuspendedOf
  <2>5. Calls!Front(Suspended) = SubSeq(Suspended, 1, b)
    BY <1>15 DEF Calls!Front
  <2> DEFINE S == Range(Suspended)
  <2>6. Suspended \in Seq(S) /\ Len(Suspended) = D
    <3>1. Suspended \in [1..D -> S]
      BY <2>2 DEF Range
    <3> HIDE DEF S, D
    <3>2. QED
      BY <2>1, <3>1, <1>15
  <2> HIDE DEF S, b, new
  <2>7. SubSeq(Suspended, 1, b) = [k \in 1..b |-> Suspended[k]]
    <3> DEFINE cut == SubSeq(Suspended, 1, b)
    <3>1. cut \in Seq(S) /\ DOMAIN cut = 1..b /\ \A k \in 1..b : cut[k] = Suspended[k]
      BY <2>1, <2>6, CutFront
    <3> HIDE DEF cut
    <3>2. cut = [k \in 1..b |-> Suspended[k]]
      BY <3>1
    <3>3. QED
      BY <3>2 DEF cut
  <2>8. new = Calls!Front(Suspended)
    BY <2>3, <2>4, <2>5, <2>7
  <2>9. QED
    BY <1>14, <2>8 DEF new
<1>17. Held' = Append(HeldOf(cpu.m, F[D], caller), v)
  <2> DEFINE old == HeldOf(cpu.m, F[D], caller)
             S == Range(old) \cup {v}
             longer == Append(old, v)
  <2>1. old = [i \in 1..count |-> old[i]]
    BY <1>4 DEF HeldOf
  <2>2. old \in Seq(S) /\ v \in S /\ Len(old) = count
    <3>1. old \in [1..count -> S]
      BY <2>1 DEF Range
    <3> HIDE DEF count, old
    <3>2. QED
      BY <1>4, <3>1
  <2>3. ASSUME NEW i \in 1..count PROVE cpu'.r[kept[i]] = old[i]
    <3>1. cpu'.r[kept[i]] = cpu.m[sp - SavedBefore(kept[i], Range(kept))]
      BY <1>6, <1>7
    <3>2. old[i] = cpu.m[PlaceOf(kept[i], F[D], caller)]
      BY <1>4 DEF HeldOf
    <3>3. PlaceOf(kept[i], F[D], caller) = sp - SavedBefore(kept[i], Range(kept))
      BY DEF PlaceOf
    <3>4. QED
      BY <3>1, <3>2, <3>3
  <2>4. Held' = [i \in 1..(count + 1) |-> cpu'.r[operands'[i]]]
    BY <1>11 DEF Held
  <2> HIDE DEF S, old
  <2>5. /\ longer \in Seq(S) /\ DOMAIN longer = 1..(count + 1)
        /\ \A i \in 1..count : longer[i] = old[i]
        /\ longer[count + 1] = v
    BY <2>2, Appended
  <2>6. longer = [i \in 1..(count + 1) |-> longer[i]]
    <3> HIDE DEF longer, count
    <3>1. QED
      BY <2>5
  <2>7. ASSUME NEW i \in 1..(count + 1) PROVE cpu'.r[operands'[i]] = longer[i]
    <3>1. CASE i = count + 1
      BY <1>7, <1>11, <2>5, <3>1
    <3>2. CASE i # count + 1
      <4>1. i \in 1..count
        BY <1>4, <3>2
      <4>2. operands'[i] = kept[i] /\ longer[i] = old[i]
        BY <1>11, <2>5, <4>1
      <4>3. QED
        BY <2>3, <4>1, <4>2
    <3>3. QED
      BY <3>1, <3>2
  <2> HIDE DEF longer, count
  <2>8. Held' = longer
    BY <2>4, <2>6, <2>7
  <2>9. QED
    BY <2>8 DEF longer, old
<1>18. event' = <<"return", Suspended[D].return_address>>
  BY <1>1, <1>7, <1>15
<1>19. RunningLocals' = Suspended[D].locals /\ Suspended[D].held = HeldOf(cpu.m, F[D], caller)
  BY <1>14, <1>15
<1>20. Suspended # <<>>
  BY <1>4, <1>15
<1> HIDE DEF v, caller, D
<1>21. QED
  BY <1>12, <1>15, <1>16, <1>17, <1>18, <1>19, <1>20 DEF Calls!Resume, v

(* A return statement is an abstract Return: the caller runs on with its    *)
(* locals and the values it held, and the value returned on top.            *)
LEMMA ReturnStep ==
    ASSUME FramesInv, ReturnStatement
    PROVE  FramesInv' /\ Calls!Return
<1> DEFINE machine == Cop(cpu, REG_RETURN, Top)
<1>1. /\ Len(operands) = 1 /\ Top = operands[1] /\ Top \in Registers
      /\ Held[1] = cpu.r[Top] /\ Len(Held) = 1 /\ Leave(machine)
  BY HeldValues DEF ReturnStatement, OneValue, Top, Last
<1>2. Wrote(REG_RETURN, cpu.r[Top], cpu, machine)
  BY <1>1, InvParts, RegistersApart, RegisterWritten DEF Reserved
<1> HIDE DEF machine
<1>3. /\ machine \in MachineStates /\ machine.m = cpu.m
      /\ machine.r[REG_FP] = cpu.r[REG_FP] /\ machine.r[REG_RETURN] = Held[1]
  BY <1>1, <1>2, RegistersApart DEF Wrote, OnlyIn, Reserved
<1>4. FramesInv' /\ Calls!Resume(machine.r[REG_RETURN])
  BY <1>1, <1>3, LeaveStep
<1>5. QED
  BY <1>1, <1>3, <1>4 DEF Calls!Return

(* Falling off the end of a body returns 0 in the same way.                 *)
LEMMA EndOfBodyStep ==
    ASSUME FramesInv, EndFunctionDefinition
    PROVE  FramesInv' /\ Calls!Return
<1> DEFINE machine == Afc(ClosedBlock, REG_RETURN, 0)
<1>1. operands = <<>> /\ Leave(machine)
  BY DEF EndFunctionDefinition, StatementStart
<1>2. /\ ClosedBlock \in MachineStates /\ ClosedBlock.m = cpu.m
      /\ OnlyIn({REG_SP, REG_TMP}, cpu, ClosedBlock)
  BY BlockClosed
<1>3. Wrote(REG_RETURN, 0, ClosedBlock, machine)
  <2>1. 0 \in Word
    BY Words
  <2>2. QED
    BY <1>2, <2>1, RegistersApart, RegisterWritten DEF Reserved
<1> HIDE DEF machine
<1>4. /\ machine \in MachineStates /\ machine.m = cpu.m
      /\ machine.r[REG_FP] = cpu.r[REG_FP] /\ machine.r[REG_RETURN] = 0
  BY <1>2, <1>3, RegistersApart DEF Wrote, OnlyIn, Reserved
<1>5. FramesInv' /\ Calls!Resume(machine.r[REG_RETURN])
  BY <1>1, <1>4, LeaveStep
<1>6. Held = <<>>
  BY <1>1 DEF Held
<1>7. QED
  BY <1>4, <1>5, <1>6 DEF Calls!Return
-----------------------------------------------------------------------------
(* Theorems *)

(* What a step keeps, and the step of the abstract specification it is.     *)
LEMMA FramesStep ==
    FramesInv /\ [Next]_vars => FramesInv' /\ [Calls!Next]_(Calls!activations)
<1> SUFFICES ASSUME FramesInv, [Next]_vars
             PROVE  FramesInv' /\ [Calls!Next]_(Calls!activations)
  OBVIOUS
<1>1. ASSUME NEW v \in Literals, ConstantLoad(v) PROVE FramesInv' /\ Calls!Next
  BY <1>1, LiteralStep DEF Calls!Next
<1>2. ASSUME NEW i \in 0..(next_local_offset - 1), VariableLoad(i) \/ VariableAddress(i)
      PROVE  FramesInv' /\ Calls!Next
  BY <1>2, ReadStep, AddressStep DEF Calls!Next
<1>3. CASE PointerLoad
  BY <1>3, FollowStep DEF Calls!Next
<1>4. ASSUME NEW n \in 0..MaxParameters, NEW at \in ReturnAddresses, FunctionCall(n, at)
      PROVE  FramesInv' /\ Calls!Next
  BY <1>4, CallStep DEF Calls!Next
<1>5. CASE VariableDeclaration
  BY <1>5, DeclareStep DEF Calls!Next
<1>6. ASSUME NEW i \in 0..(next_local_offset - 1), VariableAssignment(i)
      PROVE  FramesInv' /\ Calls!Next
  BY <1>6, AssignStep DEF Calls!Next
<1>7. CASE PointerStore
  BY <1>7, StoreStep DEF Calls!Next
<1>8. CASE BeginBlock
  BY <1>8, OpenStep DEF Calls!Next
<1>9. CASE EndBlock
  BY <1>9, CloseStep DEF Calls!Next
<1>10. CASE ReturnStatement
  BY <1>10, ReturnStep DEF Calls!Next
<1>11. CASE EndFunctionDefinition
  BY <1>11, EndOfBodyStep DEF Calls!Next
<1>12. CASE UNCHANGED vars
  <2>1. /\ UNCHANGED <<cpu, next_local_offset, bases, operands, callers>> /\ event' = event
    BY <1>12 DEF vars
  <2>2. FramesInv' /\ RunningLocals' = RunningLocals /\ Suspended' = Suspended
    BY <2>1, InvParts, OnlyValues
  <2>3. Held' = Held
    BY <2>1 DEF Held
  <2>4. QED
    BY <2>1, <2>2, <2>3 DEF Calls!activations
<1>13. QED
  BY <1>1, <1>2, <1>3, <1>4, <1>5, <1>6, <1>7, <1>8, <1>9, <1>10, <1>11, <1>12
     DEF Next, Expression, Statement

(* The invariant holds of every reachable state.                            *)
LEMMA FramesAlways == Spec => []FramesInv
<1>1. Init => FramesInv
  BY FramesStart
<1>2. QED
  BY <1>1, FramesStep, PTL DEF Spec

(* The registers and memory stay bytes, and the compiler's lists what they  *)
(* are declared to be, for any program and any sizes.                       *)
THEOREM TypeCorrect == Spec => []TypeOK
<1>1. FramesInv => TypeOK
  <2> SUFFICES ASSUME FramesInv PROVE TypeOK
    OBVIOUS
  <2>1. \A k \in DOMAIN callers : callers[k].operands \in Seq(General)
    BY InvParts DEF FramesInv, Compiled
  <2>2. QED
    BY <2>1 DEF TypeOK, FramesInv, Compiled
<1>2. QED
  BY <1>1, FramesAlways, PTL

(* sp is as far below fp as the code that runs next was compiled to believe, *)
(* at any depth of calls.                                                   *)
THEOREM StackBelowLocalsAlways == Spec => []StackBelowLocals
<1>1. FramesInv => StackBelowLocals
  <2> SUFFICES ASSUME FramesInv PROVE StackBelowLocals
    OBVIOUS
  <2>1. cpu.r[REG_SP] = cpu.r[REG_FP] - next_local_offset /\ cpu.r[REG_SP] \in Word
    BY RegisterWords, RegistersApart DEF Reserved
  <2>2. QED
    BY <2>1, Words DEF StackBelowLocals
<1>2. QED
  BY <1>1, FramesAlways, PTL

(* The frames abut in the memory, from the top of it down to sp.            *)
THEOREM FramesAbutAlways == Spec => []FramesAbut
<1>1. FramesInv => FramesAbut
  <2> SUFFICES ASSUME FramesInv PROVE FramesAbut
    OBVIOUS
  <2>1. PICK F : Stacked(cpu, callers, next_local_offset, F) /\ Seen(F) /\ F[Depth] = cpu.r[REG_FP]
    BY Places
  <2>2. FramePointer = F
    BY <2>1 DEF Seen
  <2>3. /\ cpu \in MachineStates /\ callers \in Seq(Callers) /\ next_local_offset \in Nat
        /\ DOMAIN callers = 1..Len(callers)
    BY InvParts
  <2>4. ASSUME NEW k \in DOMAIN callers
        PROVE  FramePointer[k + 1] = FramePointer[k] - callers[k].next_local_offset
                                     - Len(callers[k].operands) - callers[k].argument_count - 2
    <3> DEFINE locals == callers[k].next_local_offset
               held == Len(callers[k].operands)
               passed == callers[k].argument_count
               here == F[k]
    <3>1. F[k + 1] = here - (locals + held + passed + 2)
      BY <2>1, <2>3 DEF Stacked, SizeOf
    <3>2. locals \in Nat /\ held \in Nat /\ passed \in Nat /\ here \in Int
      <4>1. k \in 1..Len(callers) /\ k \in 1..(Len(callers) + 1)
        BY <2>3
      <4>2. callers[k] \in Callers /\ held \in Nat /\ here \in Int
        BY <2>1, <2>3, <4>1, FrameCells
      <4>3. QED
        BY <4>2 DEF Callers
    <3> HIDE DEF locals, held, passed, here
    <3>3. F[k + 1] = here - locals - held - passed - 2
      BY <3>1, <3>2
    <3>4. QED
      BY <2>2, <3>3 DEF locals, held, passed, here
  <2>5. F[1] = WordSize - 1
    BY <2>1 DEF Stacked
  <2>6. StackLimit <= cpu.r[REG_SP] /\ cpu.r[REG_SP] <= F[Depth]
    <3>1. cpu.r[REG_SP] = cpu.r[REG_FP] - next_local_offset /\ StackLimit <= cpu.r[REG_SP]
          /\ cpu.r[REG_FP] \in Int
      BY RegisterWords
    <3>2. cpu.r[REG_SP] <= cpu.r[REG_FP]
      BY <2>3, <3>1
    <3>3. QED
      BY <2>1, <3>1, <3>2
  <2>7. QED
    BY <2>2, <2>4, <2>5, <2>6 DEF FramesAbut
<1>2. QED
  BY <1>1, FramesAlways, PTL

(* The frames implement activations with locals of their own: a caller is   *)
(* suspended as it is and taken up as it was.                               *)
THEOREM FramesImplementActivations == Spec => ImplementsActivations
<1>1. Init => FramesInv /\ Calls!Init
  BY FramesStart
<1>2. QED
  BY <1>1, FramesStep, PTL DEF Spec, ImplementsActivations, Calls!Spec

=============================================================================
