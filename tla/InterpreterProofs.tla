--------------------------- MODULE InterpreterProofs ---------------------------
(***************************************************************************)
(* The control of the page, for every program, file, text and number of    *)
(* reads under way: one timeout per run, halted exactly at the end, and    *)
(* nothing but restarts and single steps of the loaded program, so the     *)
(* machine is always where its count of steps says.                        *)
(***************************************************************************)
EXTENDS Interpreter, TLAPS, WellFoundedInduction

Fields == {"r", "m", "pc", "cycles", "output", "halted"}

ControlInv == DOMAIN cpu = Fields /\ TypeOK /\ OneTimer /\ HaltedAtEnd

-----------------------------------------------------------------------------
(* One step of the machine *)

LEMMA EffectKeepsFields ==
    ASSUME NEW any, DOMAIN any = Fields, NEW i
    PROVE  DOMAIN Effect(any, i) = Fields
<1>1. \A reg, value : DOMAIN SetRegister(any, reg, value) = Fields
  BY DEF SetRegister
<1>2. \A address, value : DOMAIN SetCell(any, address, value) = Fields
  BY DEF SetCell
<1>3. \A reg : DOMAIN Pri(any, reg) = Fields
  BY DEF Pri
<1>4. QED
  BY <1>1, <1>2, <1>3 DEF Effect, Afc, Cop, Not, Load, Store, LoadR, StoreR

LEMMA StepEffect ==
    ASSUME NEW any, DOMAIN any = Fields, NEW program
    PROVE  LET after == Step(any, program)
           IN  /\ DOMAIN after = Fields
               /\ after.halted \in BOOLEAN
               /\ \/ ~any.halted /\ (after.halted <=> after.pc >= Len(program))
                  \/ /\ any.halted \/ any.pc >= Len(program)
                     /\ after.halted /\ after.pc = any.pc
<1> DEFINE executed == Execute(any, program[any.pc + 1])
<1>1. DOMAIN executed = Fields
  BY EffectKeepsFields DEF Execute
<1>2. CASE any.halted \/ any.pc >= Len(program)
  <2>1. Step(any, program) = [any EXCEPT !.halted = TRUE]
    BY <1>2 DEF Step
  <2>2. QED
    BY <1>2, <2>1 DEF Fields
<1>3. CASE ~(any.halted \/ any.pc >= Len(program))
  <2>1. Step(any, program) = [executed EXCEPT !.halted = executed.pc >= Len(program)]
    BY <1>3 DEF Step
  <2> HIDE DEF executed
  <2> DEFINE after == Step(any, program)
  <2>2. DOMAIN after = Fields
    BY <1>1, <2>1
  <2>3. after.halted = (executed.pc >= Len(program)) /\ after.pc = executed.pc
    BY <1>1, <2>1 DEF Fields
  <2> HIDE DEF after
  <2> DEFINE over == after.pc >= Len(program)
  <2>4. after.halted = over
    BY <2>3, Zenon
  <2>5. over \in BOOLEAN
    OBVIOUS
  <2>6. after.halted \in BOOLEAN /\ (after.halted <=> over)
    <3> HIDE DEF over
    <3> QED
      BY <2>4, <2>5, Zenon
  <2>7. QED
    BY <1>3, <2>2, <2>6 DEF after
<1>4. QED
  BY <1>2, <1>3

LEMMA ZeroedFields == DOMAIN Zeroed = Fields /\ Zeroed.halted = FALSE /\ Zeroed.cycles = 0
BY DEF Zeroed, Fields

(* HaltedAtEnd of one program and one machine.                              *)
AtEnd(program, any) ==
    /\ any.halted => any.pc >= Len(program)
    /\ any.pc >= Len(program) /\ any.cycles > 0 => any.halted

LEMMA StepAtEnd ==
    ASSUME NEW any, DOMAIN any = Fields, NEW program, any.halted \in BOOLEAN, AtEnd(program, any)
    PROVE  AtEnd(program, Step(any, program))
BY StepEffect DEF AtEnd

LEMMA ZeroedAtEnd == \A program : AtEnd(program, Zeroed)
BY ZeroedFields DEF AtEnd

-----------------------------------------------------------------------------
(* The parts of the handlers *)

MachineInv == DOMAIN cpu = Fields /\ cpu.halted \in BOOLEAN /\ HaltedAtEnd
TimerInv ==
    /\ running \in BOOLEAN /\ timer \in TimerIds \cup {NoTimer} /\ timeouts \subseteq TimerIds
    /\ OneTimer

LEMMA Stepped ==
    ASSUME MachineInv, cpu' = Step(cpu, instructions), instructions' = instructions
    PROVE  MachineInv'
<1>1. AtEnd(instructions, cpu)
  BY DEF MachineInv, HaltedAtEnd, AtEnd
<1>2. AtEnd(instructions', cpu')
  BY <1>1, StepAtEnd DEF MachineInv
<1>3. DOMAIN cpu' = Fields /\ cpu'.halted \in BOOLEAN
  BY StepEffect DEF MachineInv
<1>4. QED
  BY <1>2, <1>3 DEF MachineInv, HaltedAtEnd, AtEnd

LEMMA Restarted == ASSUME cpu' = Zeroed PROVE MachineInv'
BY ZeroedFields, ZeroedAtEnd DEF MachineInv, HaltedAtEnd, AtEnd

LEMMA Paused ==
    ASSUME TimerInv, NEW due, due \subseteq timeouts, Pause(due)
    PROVE  TimerInv' /\ ~running' /\ timeouts' = {}
BY DEF TimerInv, OneTimer, Pause

LEMMA Ticked ==
    ASSUME MachineInv, TimerInv, NEW due, due = {}, instructions' = instructions, Tick(due)
    PROVE  MachineInv' /\ TimerInv'
<1>1. CASE cpu.halted
  <2>1. Pause(due) /\ UNCHANGED cpu
    BY <1>1 DEF Tick
  <2>2. QED
    BY <2>1, Paused DEF MachineInv, HaltedAtEnd
<1>2. CASE ~cpu.halted
  <2>1. /\ cpu' = Step(cpu, instructions)
        /\ running' = TRUE
        /\ \E id \in TimerIds : timer' = id /\ timeouts' = {id}
    BY <1>2 DEF Tick, SetTimeout
  <2>2. QED
    BY <2>1, Stepped, InterpreterAssumption DEF TimerInv, OneTimer
<1>3. QED
  BY <1>1, <1>2

LEMMA Loaded ==
    ASSUME TimerInv, NEW program, LoadProgram(program)
    PROVE  MachineInv' /\ TimerInv' /\ ~running' /\ timeouts' = {}
BY Restarted, Paused DEF LoadProgram, ResetMachine

-----------------------------------------------------------------------------
(* Every handler *)

LEMMA UserStep ==
    ASSUME MachineInv, TimerInv, User
    PROVE  /\ MachineInv' /\ TimerInv'
           /\ instructions' # instructions => ~running' /\ timeouts' = {}
<1>1. ASSUME UNCHANGED <<machine, control>> PROVE MachineInv' /\ TimerInv'
  BY <1>1 DEF machine, control, MachineInv, TimerInv, HaltedAtEnd, OneTimer
<1>2. CASE ClickStep
  BY <1>2, Stepped DEF ClickStep, control, TimerInv, OneTimer
<1>3. CASE ClickRun
  BY <1>3, Ticked DEF ClickRun, TimerInv, OneTimer
<1>4. CASE ClickPause
  BY <1>4, Paused DEF ClickPause, machine, MachineInv, HaltedAtEnd
<1>5. CASE ClickReset
  BY <1>5, Restarted, Paused DEF ClickReset, ResetMachine
<1>6. CASE Edit
  BY <1>1, <1>6 DEF Edit, machine
<1>7. CASE LoadTextFromEditor \/ LoadSample
  BY <1>7, Loaded DEF LoadTextFromEditor, LoadSample
<1>8. CASE \E file \in Files : ChooseFile(file)
  BY <1>1, <1>8 DEF ChooseFile, machine
<1>9. QED
  BY <1>2, <1>3, <1>4, <1>5, <1>6, <1>7, <1>8 DEF User

LEMMA TimerStep ==
    ASSUME MachineInv, TimerInv, NEW id, TimerFires(id)
    PROVE  MachineInv' /\ TimerInv' /\ instructions' = instructions
<1>1. running /\ timeouts \ {id} = {}
  BY DEF TimerFires, TimerInv, OneTimer
<1>2. Tick(timeouts \ {id}) /\ instructions' = instructions
  BY <1>1 DEF TimerFires
<1>3. QED
  BY <1>1, <1>2, Ticked

LEMMA ReadStep ==
    ASSUME MachineInv, TimerInv, ReadEvent
    PROVE  /\ MachineInv' /\ TimerInv'
           /\ instructions' # instructions => ~running' /\ timeouts' = {}
<1>1. ASSUME UNCHANGED <<machine, control>> PROVE MachineInv' /\ TimerInv' /\ instructions' = instructions
  BY <1>1 DEF machine, control, MachineInv, TimerInv, HaltedAtEnd, OneTimer
<1>2. PICK file \in Files : BinaryArrives(file) \/ TextArrives(file) \/ ReadFails(file)
  BY DEF ReadEvent
<1>3. \/ LoadProgram(DecodeBinary(file.lines)) \/ LoadProgram(ParseAssembly(file.lines))
      \/ UNCHANGED <<machine, control>>
  BY <1>2 DEF BinaryArrives, TextArrives, ReadFails
<1>4. QED
  BY <1>1, <1>3, Loaded

LEMMA ReadsTyped ==
    ASSUME reads \in [Files -> Nat], [Next]_vars
    PROVE  reads' \in [Files -> Nat]
<1>1. ASSUME NEW file \in Files, Arrives(file) PROVE reads' \in [Files -> Nat]
  BY <1>1 DEF Arrives
<1>2. CASE ReadEvent
  BY <1>1, <1>2 DEF ReadEvent, BinaryArrives, TextArrives, ReadFails
<1>3. CASE User
  BY <1>3 DEF User, ClickStep, ClickRun, ClickPause, ClickReset, Edit, LoadTextFromEditor,
              LoadSample, ChooseFile
<1>4. CASE TimerEvent
  BY <1>4 DEF TimerEvent, TimerFires
<1>5. QED
  BY <1>2, <1>3, <1>4 DEF Next, vars

LEMMA ControlInit == Init => ControlInv
<1> SUFFICES ASSUME Init PROVE ControlInv
  OBVIOUS
<1>1. DOMAIN cpu = Fields /\ cpu.halted = FALSE /\ HaltedAtEnd
  BY ZeroedFields, ZeroedAtEnd DEF Init, HaltedAtEnd, AtEnd
<1>2. QED
  BY <1>1 DEF Init, ControlInv, TypeOK, OneTimer

(* A step keeps the invariant, and if it loads a program, no run is left.   *)
LEMMA ControlStep ==
    ASSUME ControlInv, [Next]_vars
    PROVE  /\ ControlInv'
           /\ instructions' # instructions => ~running' /\ timeouts' = {}
<1>1. MachineInv /\ TimerInv /\ reads \in [Files -> Nat]
  BY DEF ControlInv, MachineInv, TimerInv, TypeOK
<1>2. reads' \in [Files -> Nat]
  BY <1>1, ReadsTyped
<1>3. /\ MachineInv' /\ TimerInv'
      /\ instructions' # instructions => ~running' /\ timeouts' = {}
  <2>1. CASE UNCHANGED vars
    BY <1>1, <2>1 DEF vars, MachineInv, TimerInv, HaltedAtEnd, OneTimer
  <2>2. QED
    BY <1>1, <2>1, UserStep, TimerStep, ReadStep DEF Next, TimerEvent
<1>4. ControlInv'
  BY <1>2, <1>3 DEF ControlInv, MachineInv, TimerInv, TypeOK
<1>5. QED
  BY <1>3, <1>4

-----------------------------------------------------------------------------
(* The variables keep their types: above all, no answer to a read is        *)
(* handled twice.                                                           *)
THEOREM ControlTyped == Spec => []TypeOK
<1>1. ControlInv => TypeOK
  BY DEF ControlInv
<1>2. ControlInv /\ [Next]_vars => ControlInv'
  BY ControlStep
<1>3. QED
  BY <1>1, <1>2, ControlInit, PTL DEF Spec

(* Whatever is clicked, fires or arrives, and in whatever order, a run has  *)
(* exactly the one timeout that pause() will clear, and no run has none.    *)
THEOREM OneTimerPerRun == Spec => []OneTimer
<1>1. ControlInv => OneTimer
  BY DEF ControlInv
<1>2. ControlInv /\ [Next]_vars => ControlInv'
  BY ControlStep
<1>3. QED
  BY <1>1, <1>2, ControlInit, PTL DEF Spec

(* The page says halted exactly when pc has left the program that is loaded *)
(* now.                                                                     *)
THEOREM HaltedExactlyAtEnd == Spec => []HaltedAtEnd
<1>1. ControlInv => HaltedAtEnd
  BY DEF ControlInv
<1>2. ControlInv /\ [Next]_vars => ControlInv'
  BY ControlStep
<1>3. QED
  BY <1>1, <1>2, ControlInit, PTL DEF Spec

(* A program that is replaced, by a button or by a file that arrives late,  *)
(* is replaced under no run: no tick of the old run reaches the new one.    *)
THEOREM LoadsEndRuns == Spec => LoadEndsRun
<1>1. ControlInv /\ [Next]_vars => ControlInv'
  BY ControlStep
<1>2. ControlInv /\ [Next]_vars => [instructions' # instructions => ~running' /\ timeouts' = {}]_vars
  BY ControlStep
<1>3. QED
  BY <1>1, <1>2, ControlInit, PTL DEF Spec, LoadEndsRun

-----------------------------------------------------------------------------
(* Replay *)

(* What holds of 0 and passes from one number to the next holds up to n.    *)
LEMMA FromZero ==
    ASSUME NEW n \in Nat, NEW S, 0 \in S, \A k \in 1..n : k - 1 \in S => k \in S
    PROVE  0..n \subseteq S
<1> DEFINE T == (0..n) \ S
<1>1. SUFFICES ASSUME T # {} PROVE FALSE
  OBVIOUS
<1>2. T \subseteq Nat
  OBVIOUS
<1>3. PICK x \in T : \A y \in T : ~(<<y, x>> \in OpToRel(<, Nat))
  BY <1>1, <1>2, NatLessThanWellFounded, WFMin
<1>4. \A y \in T : ~(y < x)
  BY <1>2, <1>3 DEF OpToRel
<1>5. x \in 1..n
  OBVIOUS
<1>6. x - 1 \in 0..n /\ x - 1 < x
  BY <1>5
<1>7. x - 1 \in S
  BY <1>4, <1>6
<1>8. QED
  BY <1>5, <1>7

(* run[k] is the machine after k instructions of the program.               *)
IsRun(run, n, program) ==
    run = [k \in 0..n |-> IF k = 0 THEN Zeroed ELSE Step(run[k - 1], program)]

(* A program has a run of every length.                                     *)
LEMMA RunExists ==
    ASSUME NEW program, NEW n \in Nat
    PROVE  \E run : IsRun(run, n, program)
<1> DEFINE S == {k \in 0..n : \E run : IsRun(run, k, program)}
<1>1. 0 \in S
  <2> DEFINE run == [k \in 0..0 |-> Zeroed]
  <2>1. IsRun(run, 0, program)
    BY DEF IsRun
  <2>2. QED
    BY <2>1
<1>2. ASSUME NEW k \in 1..n, k - 1 \in S PROVE k \in S
  <2>1. PICK run : IsRun(run, k - 1, program)
    BY <1>2
  <2> DEFINE longer == [j \in 0..k |-> IF j = k THEN Step(run[k - 1], program) ELSE run[j]]
  <2>2. ASSUME NEW j \in 0..k
        PROVE  longer[j] = IF j = 0 THEN Zeroed ELSE Step(longer[j - 1], program)
    <3>1. CASE j = k
      <4>1. k # 0 /\ k - 1 \in 0..k /\ k - 1 # k
        OBVIOUS
      <4>2. QED
        BY <3>1, <4>1
    <3>2. CASE j # k
      <4>1. j \in 0..(k - 1) /\ (j # 0 => j - 1 \in 0..k /\ j - 1 # k)
        BY <3>2
      <4>2. run[j] = IF j = 0 THEN Zeroed ELSE Step(run[j - 1], program)
        BY <2>1, <4>1 DEF IsRun
      <4>3. QED
        BY <3>2, <4>1, <4>2
    <3>3. QED
      BY <3>1, <3>2
  <2> HIDE DEF longer
  <2>3. longer = [j \in 0..k |-> longer[j]]
    BY DEF longer
  <2>4. IsRun(longer, k, program)
    BY <2>2, <2>3 DEF IsRun
  <2>5. QED
    BY <2>4
<1> HIDE DEF S
<1>3. n \in S
  BY <1>1, <1>2, FromZero
<1>4. QED
  BY <1>3 DEF S

(* After is one: it exists, so it is what its definition says.             *)
LEMMA AfterIsRun ==
    ASSUME NEW program
    PROVE  /\ After(program)[0] = Zeroed
           /\ \A k \in 1..MaxCycles : After(program)[k] = Step(After(program)[k - 1], program)
<1>1. MaxCycles \in Nat
  BY InterpreterAssumption
<1> DEFINE after == CHOOSE run : IsRun(run, MaxCycles, program)
<1>2. After(program) = after
  BY DEF After, IsRun
<1>3. IsRun(after, MaxCycles, program)
  BY <1>1, RunExists
<1> HIDE DEF after
<1>4. ASSUME NEW k \in 0..MaxCycles
      PROVE  after[k] = IF k = 0 THEN Zeroed ELSE Step(after[k - 1], program)
  BY <1>3 DEF IsRun
<1>5. QED
  BY <1>1, <1>2, <1>4

(* What every machine of a run is.                                          *)
OfRun(program, any) ==
    /\ any = [field \in Fields |-> any[field]]
    /\ any.halted \in BOOLEAN
    /\ AtEnd(program, any)

(* An instruction leads from one such machine to another.                  *)
LEMMA StepOfRun ==
    ASSUME NEW any, NEW program, OfRun(program, any)
    PROVE  OfRun(program, Step(any, program))
<1> DEFINE after == Step(any, program)
<1>1. DOMAIN any = Fields /\ any.halted \in BOOLEAN /\ AtEnd(program, any)
  BY DEF OfRun
<1>2. DOMAIN after = Fields /\ after.halted \in BOOLEAN /\ AtEnd(program, after)
  BY <1>1, StepEffect, StepAtEnd
<1>3. after = [field \in DOMAIN after |-> after[field]]
  BY DEF Step
<1> HIDE DEF after
<1>4. QED
  BY <1>2, <1>3 DEF OfRun, after

(* On the run of a program, the machine is halted past its end only.        *)
LEMMA RunAtEnd ==
    ASSUME NEW program, NEW n \in 0..MaxCycles
    PROVE  LET any == After(program)[n]
           IN  /\ any = [field \in Fields |-> any[field]] /\ any.halted \in BOOLEAN
               /\ any.halted => any.pc >= Len(program)
<1> DEFINE after == After(program)
           S == {k \in 0..MaxCycles : OfRun(program, after[k])}
<1>1. MaxCycles \in Nat
  BY InterpreterAssumption
<1>2. 0 \in S
  <2>1. after[0] = Zeroed
    BY AfterIsRun
  <2>2. Zeroed = [field \in Fields |-> Zeroed[field]]
    BY DEF Zeroed, Fields
  <2>3. OfRun(program, Zeroed)
    <3>1. AtEnd(program, Zeroed) /\ Zeroed.halted \in BOOLEAN
      BY ZeroedFields, ZeroedAtEnd
    <3>2. QED
      BY <2>2, <3>1 DEF OfRun
  <2> HIDE DEF after
  <2>4. QED
    BY <1>1, <2>1, <2>3
<1>3. ASSUME NEW k \in 1..MaxCycles, k - 1 \in S PROVE k \in S
  <2>1. after[k] = Step(after[k - 1], program)
    BY AfterIsRun
  <2> HIDE DEF after
  <2>2. OfRun(program, after[k - 1])
    BY <1>3
  <2>3. OfRun(program, Step(after[k - 1], program))
    BY <2>2, StepOfRun
  <2>4. QED
    BY <1>3, <2>1, <2>3
<1> HIDE DEF after, S
<1>4. n \in S
  BY <1>1, <1>2, <1>3, FromZero
<1>5. QED
  BY <1>4 DEF S, after, AtEnd, OfRun

(* An instruction counts for one cycle.                                     *)
LEMMA StepCounts ==
    ASSUME NEW any, DOMAIN any = Fields, NEW program
    PROVE  Step(any, program).cycles =
               IF any.halted \/ any.pc >= Len(program) THEN any.cycles ELSE any.cycles + 1
<1> DEFINE i == program[any.pc + 1]
           effect == Effect(any, i)
           executed == Execute(any, i)
<1>1. DOMAIN effect = Fields
  BY EffectKeepsFields
<1>2. effect.cycles = any.cycles
  <2>1. \A reg, value : SetRegister(any, reg, value).cycles = any.cycles
    BY DEF SetRegister, Fields
  <2>2. \A address, value : SetCell(any, address, value).cycles = any.cycles
    BY DEF SetCell, Fields
  <2>3. \A reg : Pri(any, reg).cycles = any.cycles
    BY DEF Pri, Fields
  <2> HIDE DEF i
  <2>4. QED
    BY <2>1, <2>2, <2>3 DEF Effect, Afc, Cop, Not, Load, Store, LoadR, StoreR
<1>3. CASE any.halted \/ any.pc >= Len(program)
  BY <1>3 DEF Step, Fields
<1>4. CASE ~(any.halted \/ any.pc >= Len(program))
  <2>1. executed = [effect EXCEPT !.pc = NextPc(any, i), !.cycles = @ + 1]
    BY DEF Execute
  <2> HIDE DEF effect
  <2>2. DOMAIN executed = Fields /\ executed.cycles = any.cycles + 1
    BY <1>1, <1>2, <2>1 DEF Fields
  <2>3. Step(any, program) = [executed EXCEPT !.halted = executed.pc >= Len(program)]
    BY <1>4 DEF Step
  <2> HIDE DEF executed
  <2>4. QED
    BY <1>4, <2>2, <2>3 DEF Fields
<1>5. QED
  BY <1>3, <1>4

(* Replay of one program and one machine, with the bound on its cycles.     *)
OnRun(program, any) ==
    /\ any.cycles \in 0..MaxCycles
    /\ any = [After(program)[any.cycles] EXCEPT !.halted = any.halted]

ReplayInv == OnRun(instructions, cpu)

(* A program just loaded is at the start of its run.                       *)
LEMMA ZeroedOnRun == \A program : OnRun(program, Zeroed)
<1> SUFFICES ASSUME NEW program PROVE OnRun(program, Zeroed)
  OBVIOUS
<1>1. Zeroed.cycles = 0 /\ 0 \in 0..MaxCycles
  BY ZeroedFields, InterpreterAssumption
<1>2. After(program)[0] = Zeroed
  BY AfterIsRun
<1>3. Zeroed = [Zeroed EXCEPT !.halted = Zeroed.halted]
  BY DEF Zeroed
<1>4. QED
  BY <1>1, <1>2, <1>3 DEF OnRun

(* One more instruction is one more of the run, one past the end none.      *)
LEMMA ReplayStepped ==
    ASSUME MachineInv, ReplayInv, InBound,
           cpu' = Step(cpu, instructions), instructions' = instructions
    PROVE  ReplayInv'
<1> DEFINE n == cpu.cycles
           there == After(instructions)[n]
           over == cpu.halted \/ cpu.pc >= Len(instructions)
<1>1. /\ n \in 0..MaxCycles /\ cpu = [there EXCEPT !.halted = cpu.halted]
      /\ DOMAIN cpu = Fields /\ cpu.halted \in BOOLEAN
  BY DEF ReplayInv, OnRun, MachineInv
<1>2. /\ there = [field \in Fields |-> there[field]] /\ there.halted \in BOOLEAN
      /\ there.halted => there.pc >= Len(instructions)
  BY <1>1, RunAtEnd
<1>3. cpu'.cycles = IF over THEN n ELSE n + 1
  BY <1>1, StepCounts
<1>4. CASE over
  <2>1. cpu' = [cpu EXCEPT !.halted = TRUE]
    BY <1>4 DEF Step
  <2> HIDE DEF there
  <2>2. cpu' = [there EXCEPT !.halted = TRUE] /\ cpu'.halted = TRUE
    BY <1>1, <1>2, <2>1 DEF Fields
  <2>3. cpu' = [there EXCEPT !.halted = cpu'.halted] /\ cpu'.cycles = n
    BY <1>3, <1>4, <2>2
  <2>4. QED
    BY <1>1, <2>3 DEF ReplayInv, OnRun, there
<1>5. CASE ~over
  <2>1. n + 1 \in 1..MaxCycles /\ (n + 1) - 1 = n
    BY <1>1, <1>5, InterpreterAssumption DEF InBound
  <2>2. there.pc = cpu.pc
    <3> HIDE DEF there
    <3>1. QED
      BY <1>1, <1>2 DEF Fields
  <2>3. there.halted = FALSE /\ cpu.halted = FALSE
    BY <1>1, <1>2, <1>5, <2>2
  <2>4. cpu = there
    <3> HIDE DEF there
    <3>1. QED
      BY <1>1, <1>2, <2>3
  <2>5. After(instructions)[n + 1] = Step(there, instructions)
    BY <2>1, AfterIsRun
  <2>6. cpu' = After(instructions)[n + 1] /\ cpu'.cycles = n + 1
    BY <1>3, <1>5, <2>4, <2>5
  <2> DEFINE next == After(instructions)[n + 1]
  <2>7. next = [field \in Fields |-> next[field]]
    <3> DEFINE m == n + 1
    <3>1. m \in 0..MaxCycles
      BY <2>1
    <3> HIDE DEF m
    <3>2. After(instructions)[m] = [field \in Fields |-> After(instructions)[m][field]]
      BY <3>1, RunAtEnd
    <3>3. QED
      BY <3>2 DEF m
  <2> HIDE DEF next
  <2>8. next = [next EXCEPT !.halted = next.halted]
    BY <2>7
  <2>9. cpu' = [next EXCEPT !.halted = cpu'.halted]
    BY <2>6, <2>8 DEF next
  <2>10. QED
    BY <2>1, <2>6, <2>9 DEF ReplayInv, OnRun, next
<1>6. QED
  BY <1>4, <1>5

(* Every event of the page keeps the machine on the run of its program.    *)
LEMMA ReplayStep == ControlInv /\ ReplayInv /\ [Next]_vars => ReplayInv'
<1> SUFFICES ASSUME ControlInv, ReplayInv, [Next]_vars PROVE ReplayInv'
  OBVIOUS
<1>1. MachineInv
  BY DEF ControlInv, TypeOK, MachineInv
<1>2. ASSUME UNCHANGED <<instructions, cpu>> PROVE ReplayInv'
  BY <1>2 DEF ReplayInv
<1>3. ASSUME cpu' = Zeroed PROVE ReplayInv'
  BY <1>3, ZeroedOnRun DEF ReplayInv
<1>4. ASSUME NEW due, Tick(due), InBound, instructions' = instructions PROVE ReplayInv'
  BY <1>1, <1>2, <1>4, ReplayStepped DEF Tick
<1>5. CASE User
  <2>1. CASE ClickStep
    BY <1>1, <2>1, ReplayStepped DEF ClickStep
  <2>2. CASE ClickRun
    BY <1>4, <2>2 DEF ClickRun
  <2>3. CASE ClickReset \/ LoadTextFromEditor \/ LoadSample
    BY <1>3, <2>3 DEF ClickReset, LoadTextFromEditor, LoadSample, LoadProgram, ResetMachine
  <2>4. CASE ClickPause \/ Edit \/ \E file \in Files : ChooseFile(file)
    BY <1>2, <2>4 DEF ClickPause, Edit, ChooseFile, machine
  <2>5. QED
    BY <1>5, <2>1, <2>2, <2>3, <2>4 DEF User
<1>6. CASE TimerEvent
  BY <1>2, <1>4, <1>6 DEF TimerEvent, TimerFires
<1>7. CASE ReadEvent
  BY <1>2, <1>3, <1>7 DEF ReadEvent, BinaryArrives, TextArrives, ReadFails, machine,
                          LoadProgram, ResetMachine
<1>8. CASE UNCHANGED vars
  BY <1>2, <1>8 DEF vars
<1>9. QED
  BY <1>5, <1>6, <1>7, <1>8 DEF Next

(* However the program was stepped, run, paused, replaced or overtaken by a *)
(* file, the machine is where that many instructions of the loaded program, *)
(* executed from zero, lead.                                                *)
THEOREM Replays == Spec => []Replay
<1>1. Init => ReplayInv
  BY ZeroedOnRun DEF Init, ReplayInv
<1>2. ReplayInv => Replay
  BY DEF ReplayInv, OnRun, Replay
<1>3. ControlInv /\ [Next]_vars => ControlInv'
  BY ControlStep
<1>4. QED
  BY <1>1, <1>2, <1>3, ReplayStep, ControlInit, PTL DEF Spec

-----------------------------------------------------------------------------
(* Refinement of Execution *)

LEMMA ExecutionStep == [Next]_vars => [Machine!Next]_<<instructions, cpu>>
<1> SUFFICES ASSUME [Next]_vars PROVE Machine!Next \/ UNCHANGED <<instructions, cpu>>
  OBVIOUS
<1> USE DEF Machine!Next, Machine!Restart, Machine!ExecuteOne
<1>1. ASSUME NEW due, Tick(due), instructions' = instructions
      PROVE  Machine!Next \/ UNCHANGED <<instructions, cpu>>
  BY <1>1 DEF Tick
<1>2. ASSUME NEW program, LoadProgram(program) PROVE Machine!Next
  BY <1>2 DEF LoadProgram, ResetMachine
<1>3. CASE User
  <2>1. CASE ClickStep
    BY <2>1 DEF ClickStep
  <2>2. CASE ClickRun
    BY <1>1, <2>2 DEF ClickRun
  <2>3. CASE ClickReset
    BY <2>3 DEF ClickReset, ResetMachine
  <2>4. CASE LoadTextFromEditor \/ LoadSample
    BY <1>2, <2>4 DEF LoadTextFromEditor, LoadSample
  <2>5. CASE ClickPause \/ Edit \/ \E file \in Files : ChooseFile(file)
    BY <2>5 DEF ClickPause, Edit, ChooseFile, machine
  <2>6. QED
    BY <1>3, <2>1, <2>2, <2>3, <2>4, <2>5 DEF User
<1>4. CASE TimerEvent
  BY <1>1, <1>4 DEF TimerEvent, TimerFires
<1>5. CASE ReadEvent
  BY <1>2, <1>5 DEF ReadEvent, BinaryArrives, TextArrives, ReadFails, machine
<1>6. CASE UNCHANGED vars
  BY <1>6 DEF vars
<1>7. QED
  BY <1>3, <1>4, <1>5, <1>6 DEF Next

(* Step, run, pause, reset, the timer and the loads together do nothing to  *)
(* the machine but restart it and execute the loaded program one            *)
(* instruction at a time.                                                   *)
THEOREM PageImplementsExecution == Spec => ImplementsExecution
<1>1. Init => Machine!Init
  BY DEF Init, Machine!Init
<1>2. QED
  BY <1>1, ExecutionStep, PTL DEF Spec, ImplementsExecution, Machine!Spec
===============================================================================
