------------------------------ MODULE Interpreter ------------------------------
(***************************************************************************)
(* The control of web/app.js: the buttons, the editor, the timer of a run, *)
(* and files that are read while all of that goes on.  A handler runs to   *)
(* its end before the next event; a file handler is cut in two by its      *)
(* await.  What the browser does (timeouts, reads) is in two variables of  *)
(* its own.                                                                *)
(***************************************************************************)
EXTENDS Encoding

CONSTANTS
    Files,          \* files the user may choose: [format, lines]
    Texts,          \* what the user may type into the editor
    SAMPLE,         \* the text the page starts with
    TimerIds,       \* what setTimeout may return
    MaxReads,       \* bound: files being read at a time
    MaxCycles       \* bound: instructions executed since a restart

NoTimer == 0        \* null

LoadableText(lines) == \A k \in DOMAIN lines : Readable(lines[k])
LoadableBinary(records) ==
    \A k \in DOMAIN records : \E op \in DOMAIN OPCODES : OPCODES[op] = records[k].op

ASSUME InterpreterAssumption ==
    /\ \A file \in Files : file.format \in {"text", "binary"}
    /\ LoadableText(SAMPLE)
    /\ NoTimer \notin TimerIds
    /\ {MaxReads, MaxCycles} \subseteq Nat

VARIABLES
    instructions,   \* state.instructions
    cpu,            \* state.registers, memory, pc, cycles, output, halted
    running,        \* state.running
    timer,          \* state.timer
    editor,         \* el.input.value
    timeouts,       \* timeouts the browser has not fired
    reads           \* how often each file is being read

machine == <<instructions, cpu>>
control == <<running, timer, timeouts>>
vars == <<instructions, cpu, running, timer, editor, timeouts, reads>>

Pending == FoldFunction(+, 0, reads)

(* Mutant of Pause: the timeout is not cleared.                             *)
MutantTimeoutStays(due) == running' = FALSE /\ timer' = NoTimer /\ timeouts' = due

(* pause(), when the browser still has the timeouts in due.                 *)
Pause(due) == running' = FALSE /\ timer' = NoTimer /\ timeouts' = due \ {timer}

(* Mutant of ResetMachine: memory keeps what the last run stored.           *)
MutantKeepsMemory == Pause(timeouts) /\ cpu' = [Zeroed EXCEPT !.m = cpu.m]

ResetMachine == Pause(timeouts) /\ cpu' = Zeroed

(* Mutants of LoadProgram: the machine goes on; the run goes on.            *)
MutantLoadContinues(program) == instructions' = program /\ UNCHANGED <<cpu, control>>
MutantLoadKeepsRunning(program) == instructions' = program /\ cpu' = Zeroed /\ UNCHANGED control

LoadProgram(program) == instructions' = program /\ ResetMachine

SetTimeout(due) == \E id \in TimerIds \ due : timer' = id /\ timeouts' = due \cup {id}

InBound == cpu.halted \/ cpu.cycles < MaxCycles

(* Mutants of Tick: it does not look whether the program is over; it goes   *)
(* through the program twice as fast.                                       *)
MutantTicksOn(due) == cpu' = Step(cpu, instructions) /\ running' = TRUE /\ SetTimeout(due)
MutantTwoSteps(due) ==
    IF cpu.halted THEN Pause(due) /\ UNCHANGED cpu
    ELSE /\ cpu' = Step(Step(cpu, instructions), instructions)
         /\ running' = TRUE
         /\ SetTimeout(due)

(* tick() of a run that is on, its own timeout no longer in due.            *)
Tick(due) ==
    IF cpu.halted THEN Pause(due) /\ UNCHANGED cpu
    ELSE /\ cpu' = Step(cpu, instructions)
         /\ running' = TRUE
         /\ SetTimeout(due)

-----------------------------------------------------------------------------
(* The buttons and the editor *)

ClickStep ==
    /\ InBound
    /\ cpu' = Step(cpu, instructions)
    /\ UNCHANGED <<instructions, control, editor, reads>>

(* run(): the first tick is now.                                            *)
ClickRun ==
    /\ ~running /\ InBound
    /\ Tick(timeouts)
    /\ UNCHANGED <<instructions, editor, reads>>

ClickPause ==
    /\ Pause(timeouts)
    /\ UNCHANGED <<machine, editor, reads>>

ClickReset ==
    /\ ResetMachine
    /\ UNCHANGED <<instructions, editor, reads>>

Edit ==
    /\ editor' \in Texts
    /\ UNCHANGED <<machine, control, reads>>

(* What does not parse changes the message only.                            *)
LoadTextFromEditor ==
    /\ LoadableText(editor)
    /\ LoadProgram(ParseAssembly(editor))
    /\ UNCHANGED <<editor, reads>>

LoadSample ==
    /\ editor' = SAMPLE
    /\ LoadProgram(ParseAssembly(SAMPLE))
    /\ UNCHANGED reads

-----------------------------------------------------------------------------
(* The browser's events *)

TimerFires(id) ==
    /\ id \in timeouts /\ InBound
    /\ IF running THEN Tick(timeouts \ {id})
       ELSE timeouts' = timeouts \ {id} /\ UNCHANGED <<running, timer, cpu>>
    /\ UNCHANGED <<instructions, editor, reads>>

(* The file handler up to its await.                                        *)
ChooseFile(file) ==
    /\ Pending < MaxReads
    /\ reads' = [reads EXCEPT ![file] = @ + 1]
    /\ UNCHANGED <<machine, control, editor>>

(* Mutant of Arrives: an answer is handled again.                           *)
MutantArrivesAgain(file) == reads' = [reads EXCEPT ![file] = @ - 1]

Arrives(file) ==
    /\ reads[file] > 0
    /\ reads' = [reads EXCEPT ![file] = @ - 1]

(* The rest of it: the bytes first become the program, then the editor's    *)
(* text; a text is in the editor before it is parsed.                       *)
BinaryArrives(file) ==
    /\ file.format = "binary" /\ LoadableBinary(file.lines)
    /\ Arrives(file)
    /\ LoadProgram(DecodeBinary(file.lines))
    /\ editor' = Each(FormatInstruction, DecodeBinary(file.lines))

TextArrives(file) ==
    /\ file.format = "text"
    /\ Arrives(file)
    /\ editor' = file.lines
    /\ IF LoadableText(file.lines) THEN LoadProgram(ParseAssembly(file.lines))
                                   ELSE UNCHANGED <<machine, control>>

(* The browser cannot read it, or decodeBinary throws: a message only.      *)
ReadFails(file) ==
    /\ Arrives(file)
    /\ UNCHANGED <<machine, control, editor>>

-----------------------------------------------------------------------------
(* The page's last line loads the sample.                                   *)
Init ==
    /\ instructions = ParseAssembly(SAMPLE) /\ cpu = Zeroed
    /\ running = FALSE /\ timer = NoTimer /\ timeouts = {}
    /\ editor = SAMPLE
    /\ reads = [file \in Files |-> 0]

User ==
    \/ ClickStep \/ ClickRun \/ ClickPause \/ ClickReset
    \/ Edit \/ LoadTextFromEditor \/ LoadSample
    \/ \E file \in Files : ChooseFile(file)

TimerEvent == \E id \in timeouts : TimerFires(id)
ReadEvent == \E file \in Files : BinaryArrives(file) \/ TextArrives(file) \/ ReadFails(file)

Next == User \/ TimerEvent \/ ReadEvent

(* The browser fires a timeout that stays set; the user owes nothing.       *)
Spec == Init /\ [][Next]_vars /\ WF_vars(TimerEvent)

-----------------------------------------------------------------------------
(* Type invariant; how a decoded program looks is Encoding's business.      *)
TypeOK ==
    /\ running \in BOOLEAN
    /\ timer \in TimerIds \cup {NoTimer}
    /\ timeouts \subseteq TimerIds
    /\ reads \in [Files -> Nat]
    /\ cpu.halted \in BOOLEAN

(* A run has exactly one timeout, the one pause() will clear, and no run    *)
(* has none: no order of clicks, ticks and loads starts a second chain of   *)
(* ticks or leaves one behind that nobody can stop.                         *)
OneTimer ==
    IF running THEN timer # NoTimer /\ timeouts = {timer}
               ELSE timer = NoTimer /\ timeouts = {}

(* The page says halted only with pc past the end of the loaded program,    *)
(* and always says so once an instruction has gone there.                   *)
HaltedAtEnd ==
    LET over == cpu.pc >= Len(instructions)
    IN  (cpu.halted => over) /\ (over /\ cpu.cycles > 0 => cpu.halted)

After(program) ==
    LET after[n \in 0..MaxCycles] == IF n = 0 THEN Zeroed ELSE Step(after[n - 1], program)
    IN  after

(* Registers, memory, pc and output are those of the loaded program after   *)
(* the number of instructions the page shows, however it was stepped, run,  *)
(* paused, reloaded or overtaken by a file: nothing of an earlier program   *)
(* or run is left.                                                          *)
Replay == cpu = [After(instructions)[cpu.cycles] EXCEPT !.halted = cpu.halted]

(* Loading another program, also by a file that was chosen long before,     *)
(* ends a run: no tick that was under way executes the new program.         *)
LoadEndsRun == [][instructions' # instructions => ~running' /\ timeouts' = {}]_vars

Machine == INSTANCE Execution WITH program <- instructions

(* Step, run and load together implement Execution.                         *)
ImplementsExecution == Machine!Spec

(* A run goes on or ends; it never hangs, nor ticks on over a program that  *)
(* is over.                                                                 *)
Progress ==
    \A n \in 0..(MaxCycles - 1) :
        (running /\ cpu.cycles = n) ~> (~running \/ cpu.cycles # n)
===============================================================================
