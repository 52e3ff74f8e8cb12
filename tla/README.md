# Verification of the RISVCompiler

TLA+ models of the compiler in `src/` and of the machine its output runs on
(`web/app.js`), checked with TLC on small instances and, where it matters most,
proved with TLAPS for every value of the constants.

The program is a one-pass compiler from a small language (globals, functions,
`main`, blocks, `if`/`else`, `while`, pointers, one-byte integers) to a register
machine with 16 registers and 256 cells of memory. It is sequential. What makes
it hard is that it keeps beliefs about the program it writes (which register
still holds which variable, where `sp` is, how long a block will be) and is
right only as long as every one of some thirty `code_*` functions, called in an
order the grammar decides, keeps those beliefs true.

## 1. Inventory

| Component | Source | State | Operations | Correct when |
|---|---|---|---|---|
| Register descriptors | `src/c/registers.c` | `registers[16]`: in use, bound address, temporary | init, find, alloc, free, bind, forget, mark temporary | a register in use belongs to one value; a binding served again agrees with memory |
| Symbol table | `src/c/symbol.c` | entries, next global address | add global, add local, newest-first get, restore | a name means its newest visible declaration; live locals share no slot |
| Function table | `src/c/functions.c` | 256 entries: name, entry, parameter count | add, get entry, get count | a call goes to the definition newest when it was compiled |
| Scopes | `src/c/scope.c` | a chain of scopes: instruction list, count, two bases | init, init child, add, flush, resolve | order of emission survives the flushes; jumps resolve to what the source means |
| Expressions, variables | `src/c/code/code_expressions.c` | uses the tables | literal, load, address, pointer load/store, binary, unary, declare, assign, print, discard | each value is what the source says at that moment |
| Functions, calls | `src/c/code/code_functions.c` | parameter list, stack of argument lists | begin/end definition, return, begin arguments, add argument, call | arguments arrive in order; held values survive; `sp`, `fp`, `ra` come back |
| Blocks, main, program | `src/c/code/code_core.c` | current scope, `inside_function`, `next_local_offset`, `main_jump` | begin/end block, begin/end main, program start | `sp` is `next_local_offset` below `fp`; program addresses are final |
| Jumps | `src/c/code/code_jumps.c` | none | placeholders, patches | a jump lands where the statement ends or starts |
| Parser | `src/yacc.y` | the parser's value stack | semantic actions in the grammar's order | n/a: it decides the order of everything above |
| Lexer | `src/lexer.l` | none | tokens | |
| Instructions, encodings | `src/c/instruction.c`, constructors in `code_core.c` | the two output files | constructors, text and binary output | both files are the program the generator asked for |
| Interpreter machine | `web/app.js` | registers, memory, pc, cycles, output, halted | `step` | each opcode computes what its comment says; halts at the end |
| Readers, editor text | `web/app.js` | none | `parseAssembly`, `decodeBinary`, `formatInstruction` | a file means the same whichever way it comes in |
| Interpreter control | `web/app.js` | program, running, timer, editor; timeouts and file reads in the browser | run, pause, step, reset, edit, load | one timer per run; nothing of an earlier program or run is left |
| Web page | `web/index.html`, `web/styles.css` | none | | |
| Build files, samples, report | `Makefile`, `test/`, `report/` | none | | |

Components talk by direct calls only. The parser's actions call `code_*`; those
call the tables and the register descriptors and append instructions to the
innermost scope; at the end `scope_resolve_references` turns references into
addresses, and the output is read by the interpreter. There is no concurrency,
no persistence and no message between components of the compiler. In the page
the asynchronous actors are the browser's timeouts and the files it reads: both
come back between any two clicks.

The hard behaviours, listed line by line under `hazards` in `PROJECT.json`:

* cached copies of globals that a store, a call, a pointer or a jump makes stale;
* registers that leak over a statement or are handed out twice, above all when
  calls nest in the arguments of calls;
* the frame protocol (pushes, prefix, parameter copies, suffix, pops), spread
  over functions that agree only by arithmetic;
* the two stacks of bases (symbols, offsets) that every block restores;
* jump distances computed from counts of instructions that do not exist yet;
* limits: 11 registers, 16 arguments, 16 nested calls, 256 symbols, one byte;
* two encodings, with operand slots that depend on the opcode, cut to a byte in
  different places, read back by two readers;
* a tick, a click and a file that finishes loading, in any order.

## 2. Modules

```
Registers ── Machine ─┬─ CodeGen ─┬─ MCCodeGen
                      │           ├─ (INSTANCE) SourceSemantics
                      │           └─ CodeGenProofs ── SourceProofs
                      │              (MachineProofs)
                      ├─ Frames ─┬─ MCFrames
                      │          ├─ (INSTANCE) Activations
                      │          └─ FramesProofs (MachineProofs)
                      └─ WebMachine ── Encoding ─┬─ Outputs ─┬─ MCOutputs
                                                 │           └─ OutputsProofs
                                                 └─ Interpreter ─┬─ MCInterpreter
                                                                 ├─ (INSTANCE) Execution
                                                                 └─ InterpreterProofs
Layout ── LayoutProofs ── JumpProofs
```

**Registers** is `registers.c` as operators on one descriptor table. The names
follow the C functions (`RegisterAlloc`, `RegisterBindMemory`, ...). "Lowest
register that ..." stands for the ascending scans.

**Machine** is the arithmetic of `step()` in `web/app.js`: one operator per
instruction over a record of registers and memory, and the fixed sequences
of `code_core.c`/`code_functions.c` built from them (`StackPush`,
`ComputeLocalAddress`, `FunctionPrefix`, `FunctionSuffix`).

**CodeGen** is the code generator. Each action is one `code_*` call, whole: what
it does to descriptors, tables, bases and argument lists, *and* what the
instructions it emits do to a machine `cpu` that executes them as they are
emitted. So the compiler's beliefs and the machine's facts stand side by side in
every state.

| Variable | Code |
|---|---|
| `phase` | where the parser is in `Program`; `inside_function` is derived from it |
| `registers` | `registers[]` of `registers.c` |
| `symbols`, `next_global_address`, `next_local_offset` | the symbol table and the offset counter |
| `scopes` | the open scopes' `symbol_table_base` and `local_offset_base` |
| `functions` | the function table |
| `operands` | the registers in the parser's `$$` values not yet consumed |
| `calls` | `function_call_arguments[]`: how many operands lie below each list, and its count. The recorded registers are the `count` operands above `base` |
| `cpu` | the machine, after the instructions emitted so far |
| `event` | the source operation compiled last, with what its code showed (printed value, arguments as the callee will find them, what a return gives back) |
| `frame_base` | history: symbols in the table when the function began |

Where emitted code is entered from somewhere else than the line above (a join of
branches, the head of a loop, a function's entry, the return of a callee), the
machine's state comes from `RegisterFiles` and `Memories`: whatever another path
may have left. `sp` and `fp` are kept at joins inside one activation. A false
condition is an execution that is elsewhere.

The callee of a call is any code that gives back `sp` and `fp` and does not
overwrite, through a pointer, the cells in which the caller saved its registers.
For programs whose pointers point to live variables, `Frames` shows that callees
are like that; the language's pointer arithmetic can break it.

**SourceSemantics** is the promise to the programmer: names, cells and values,
no registers, no frames. `CodeGen` refines it (`ImplementsSource`) under this
mapping: a value is the content of the register the parser holds; a name is the
cell its newest symbol is stored in (address, or `fp` minus offset); a block's
hidden names are the environment of the table below its base.

**Frames** is the callee that CodeGen leaves out: a program at run time, with any
depth of recursive activations on the machine's own stack. A call is every
instruction from the caller's first push to the first statement of the callee
(pushes, return address, prefix, the loop that copies parameters); a return is
every instruction from the suffix to the caller's result register. `callers` is
what the code behind each pending call was compiled with (its offset, block bases
and the registers it saved); it holds no run-time value. Everything else is read
back from memory: `FramePointer` follows the chain of saved `fp`. The loops that emit
code (pushes of arguments and saved registers, copies of parameters, pops) are
executed turn by turn by `Loop`, a recursive function, so that they can be proved about.

**Activations** is what `Frames` implements: locals with a cell each that no other
live local has, callers that are suspended and resumed unchanged except through
pointers. The mapping takes a suspended caller's locals, held values and return
address from where the chain of frame pointers says they are.

**Layout** is the other half: instruction lists, counts, jump placeholders,
patches and the final resolution, in the grammar's order, with instructions
reduced to their number and, for a jump, their target. `goal` is a history field
with the instruction the source means. CodeGen and Layout are two projections of
the same calls: data and control.

**WebMachine** is the whole of `step()` on decoded instructions: the operators of
`Machine`, the instructions the compiler never writes, `PRI`, the program counter
with its cuts to a byte, the count of cycles and halting.

**Encoding** is the way of an instruction out of the compiler and into the page:
the constructors of `code_core.c`, which slot an operand goes to, the line of text
and the bytes `instruction.c` writes, and the readers of `app.js` with the text
that `formatInstruction` shows. A line is a mnemonic and its tokens.

**Outputs** writes a program both ways, loads each file in a page of its own and
runs them side by side with a machine that does what the code generator asked for.

| Variable | Code |
|---|---|
| `phase` | before and after `main` in `yacc.y` writes the files |
| `requests` | the calls `code_add_*_operand_instruction(...)`, jumps resolved |
| `text`, `binary` | `build/out.s`, `build/out.bin` |
| `textCpu`, `binaryCpu` | `state` of `app.js` in the two pages |
| `intended` | a machine after the same number of requests, by the comments in `instruction.h` |

**Interpreter** is the control of the page. A handler is one action; the file
handler is two, before and after its `await`.

| Variable | Code |
|---|---|
| `instructions` | `state.instructions` |
| `cpu` | `state.registers`, `memory`, `pc`, `cycles`, `output`, `halted` |
| `running`, `timer` | `state.running`, `state.timer` |
| `editor` | `el.input.value` |
| `timeouts` | the browser: timeouts set, not cleared, not fired |
| `reads` | the browser: how often each file is being read |

**Execution** is what `Interpreter` implements: a machine that restarts from zero,
always when its program is replaced, or executes the instruction at `pc`.

**MachineProofs**, **CodeGenProofs**, **SourceProofs**, **FramesProofs**,
**LayoutProofs**, **JumpProofs**, **OutputsProofs**, **InterpreterProofs** hold
the proofs.

Abstractions of data: identifiers are strings of a small set; numbers of
registers and of values of a word are constants (11 and 256 in the code); error
messages and comments of instructions are left out. A diagnosed limit
ends the compiler (`Exit`), as `exit(1)` does. Operators named `Mutant...` are
plausible mistakes in the definition below them. No specification uses one; each
is substituted for that definition to see that a property notices.

## 3. Runs

| Run | Question | Bounds |
|---|---|---|
| `codegen_main` | does the cache ever serve a stale global; does straight-line and branching code in `main` compute what the source says | 2 registers, words 0..2, two names, one nested block |
| `codegen_calls` | do registers leak or get shared; what of a global does a callee leave in the cache; do functions, returns, calls and nested, shadowing blocks keep names, offsets, `sp` and `fp` together | 2 registers, words 0..2, one name; a function and expressions over one symbol and one block, or three symbols and two nested blocks |
| `codegen_arguments` | are two arguments found by the callee in order | two parameters, words 0..5 |
| `codegen_nested` | do outer arguments survive a call in an inner one | three registers, call depth 2 |
| `frames_calls` | is every activation resumed as it was, at its return address, `sp` where the code believes, the frames without gaps; do parameters arrive in order at any depth | two registers, 8 cells; two call sites and nested blocks with one local and parameter, or one call site and one block with two of each |
| `codegen_parameters` | do only globals outlive a function (violated: finding) | one function, one parameter |
| `layout_jumps` | do all jumps but two kinds land right; does order survive flushing; are return addresses right | up to 7 instructions before closing, depth 4, one local per block, one function |
| `layout_else_if`, `layout_first_loop` | the two kinds that do not (violated: findings) | 6 and 4 instructions |
| `outputs_both` | do the two files run alike, and as asked; does the editor show a program that loads back | registers 0 and 1, words 0..5, all kinds of instruction in programs of three, jumps alone in programs of seven, 4 steps |
| `outputs_documented` | does the page accept the documented forms (violated: finding) | programs of two instructions |
| `interpreter_page` | clicks, ticks and files in any order: one timer, no trace of an earlier run, and a run ends or goes on | two registers, two files being read at a time, 5 cycles, two timer numbers |

Why these bounds are enough to be interesting:

* Two registers are the smallest file on which a value is held while another is
  loaded, a copy is reused, and the allocator runs out; the third in
  `codegen_nested` makes a saved register, an argument and a result coexist.
* Words of 3 to 6 values make `sp` wrap and collide with globals, so nothing holds
  because memory is large. `CodeGenAssumption` keeps a frame and its arguments
  from overlapping themselves (`2 * parameters + 2 <= WordSize`), as 256 cells do
  with 16 parameters.
* `FlatRegisters` (all 0) and `FlatMemories` (all 1) differ in every cell: a
  binding that outlives a join, a loop head or a call is seen as stale at once,
  instead of agreeing by chance.
* `MaxSymbols`, `MaxScopes`, `MAX_*` bound the tables. The code's own limits
  (`MAX_FUNCTIONS`, `MAX_FUNCTION_PARAMETERS`, `MAX_CALL_DEPTH`) keep their names,
  and hitting them is one of the cases. The symbol table has no check in the
  code; `MaxSymbols` stands below its 256.
* `BlocksOrFunctions` (`codegen_calls`) and `BlocksOrParameters` (`frames_calls`)
  stop exploring where two things grow at once: many blocks *and* a function with
  expressions, two call sites *and* two parameters. Each grows alone to where it
  is interesting; steps out of explored states are still checked.
* In `outputs_both` a word has six values and a program up to seven instructions,
  so a target, a `pc` and a constant of `EdgeLiterals` (one past the word, one
  negative) reach both sides of the cut. Only long programs reach it with `pc`:
  `LongProgramsOnlyJump` leaves just jumps in those.
* In `interpreter_page` the files are one that loads, one that loops for ever, and
  a bad one of each format. The sample stores and another program reads the cell,
  so what a restart forgets is seen. Five cycles are more than the sample's length
  and two rounds of the loop.
* `OneFunctionFewWrites` (in `codegen_arguments` and `codegen_nested`) stops at
  `main` and explores only memories that differ in at most two cells from one at
  which code is reached from elsewhere. Every step out of an explored state is
  still checked.
* In `Layout`, `MaxInstructions` stops new code and new statements, not the jumps
  and pops that closing them adds, so every started statement can be finished and
  resolved. Seven are enough for a loop or an if within an else within a block
  after other code.
* `Frames` keeps the stack above `StackLimit`, here the lowest cell, so it never
  wraps: eight cells hold a call with a saved register, an argument and its copy,
  and another call inside it. `LiveState`, the `VIEW` of its runs, drops only
  memory the stack has given back, registers no value is held in, and the last
  event: none is read again before it is written. TLC checks the refinement on
  every step it generates, also into a state it has seen.
* Deadlock is checked in `CodeGen` and `Layout`, where `Finished` is the only rest
  state, in `Outputs`, and in `Interpreter`, but not in `Frames`: there a program ends with `main`, runs out of
  registers where the compiler would have stopped, or meets the stack's limit.

Fairness is assumed of one action, `WF_vars(TimerEvent)` in `Interpreter`: a timeout
that stays set is fired, as browsers do. It is weak: a user who clears and sets
timeouts for ever, by Pause and Run, owes it nothing. Nothing is assumed of the
user, nor of a file read, which may never be answered. The compiler has none: its only
progress is its input, and nothing promises when that ends.

### What the properties say

* `CacheSound`: every register `register_find_memory` may hand out again equals
  memory now. `TopIsFresh` is why: a held register is freed only from the top.
* `RegisterDiscipline`: marked in use is exactly what the parser still holds.
* `StackBelowLocals`: `sp = fp - next_local_offset` at every point of a function,
  over declarations, blocks, calls and joins. `Frames` checks it again over whole
  recursive calls, with nothing assumed of the callee.
* `ImplementsActivations`: no call or return, from whatever depth of blocks,
  changes a caller's locals or held values, and each returns to its own call.
* `FramesAbut`: the frames found along the saved `fp`s fill the stack without gaps, each
  as large as the locals, saved registers and arguments of its call plus `ra` and `fp`:
  what prefix, parameter copies, suffix and pops agree on only by arithmetic.
* `SlotsOwned`, `BasesAgree`: the symbols of the function own the slots below
  `next_local_offset` in order, and what blocks restore belongs together.
* `ListsNest`: argument lists are a stack over the operands.
* `ImplementsSource`: the refinement of `SourceSemantics`: every read, however it
  is served, gives the current value; arguments arrive in order; values survive.
* `EmissionOrder`, `ProgramAddressExact`: the open lists end to end are the
  instructions in order, so an address computed early is final.
* `ConditionsExact`, `ElseJumpsExact`, `LaterLoopsExact`, `CallsExact`: each class
  of jump resolves to the instruction the source means.

* `SameExecution`: the page accepts every line of the text file, and runs it exactly
  as it runs the binary, although slots and cuts differ.
* `ExecutesAsAsked`: that run does what each requested instruction says. `Fits`, its
  premise, asks jump targets to fit a byte; with a longer program `J` cuts its
  target, though `pc` counts on past it, and nothing else is lost.
* `EditorKeepsBinary`: what the editor shows of a binary loads back as the same program.
* `OneTimer`: a run has exactly one timeout, the one Pause clears; no run has none.
* `Replay`: the machine is what the loaded program computes in as many steps as the page
  shows; `HaltedAtEnd` adds when it says it is over.
* `LoadEndsRun`: no tick under way executes a program that was loaded meanwhile.
* `ImplementsExecution`: all handlers together implement `Execution`.
* `Progress`: under the fairness above a run executes another instruction or ends.

Each property of a passing run has a mutant of a modelled definition that TLC
must find it violated by (`mutants` in `PROJECT.json`).

## 4. Findings

1. **A taken branch before `else if` jumps too short** (`layout_else_if`,
   `yacc.y:129`). The size of the else-if leaves out its condition and its `JMF`,
   so the jump lands inside the chain instead of behind it.
2. **A loop that is the first code of its block restarts the program**
   (`layout_first_loop`, `yacc.y:148`). `scope()->last` is NULL there, the
   successor of NULL is NULL, and NULL resolves to address 0.
3. **Parameters stay visible after their function** (`codegen_parameters`,
   `code_functions.c:47`). They enter the symbol table before the body's block
   and nothing removes them, so they hide globals in later functions and in main.
4. **The documented assembly is not the page's** (`outputs_documented`,
   `app.js:119`). `INSTRUCTION_SET.md:8` has `SUB`; the compiler writes `SOU` and
   the page refuses `SUB`. With `SUB` left out the run stops at the next ones: the
   documented forms of `STI`, `JI` and `PRI` start with `_`, which the page reads as
   register 0 (`app.js:88`). The forms of `J` and `JF` are refused.

The other properties of `layout_jumps` say that the jumps of every other kind are
right, and `codegen_*` that leaked parameters break no slot of the function being compiled
(`SlotsOwned` counts from `frame_base`).

## 5. Proofs

All theorems hold for every number of registers, word size, set of names and
limits allowed by the named assumptions (`LastGeneralAssumption`,
`WordSizeAssumption`, `CodeGenAssumption`, `FramesAssumption`, `EncodingAssumption`, `LayoutAssumption`,
`OutputsAssumption`, `InterpreterAssumption`), and for programs of any length below them.

`CodeGenProofs` proves four invariants at once, since none is inductive alone:

    ShapeInv == TypeOK /\ ListsNest /\ SlotsOwned /\ BasesAgree

* `TypeOK` needs `ListsNest`: a call cuts `operands` at its list's base, which is
  a prefix only if the base is within bounds.
* `BasesAgree` and `SlotsOwned` need each other: `EndBlock` restores both counts
  from a scope, and the slots stay owned only if the two bases belong together.

`ShapeInit` and `ShapeStep` (one step per action) give `TypeCorrect`,
`ListsAlwaysNest`, `LocalsOwnSlots`, `ScopesAgree`.

Its second part proves `StackStaysBelowLocals`. With `sp` and `next_local_offset`
written as one equation modulo the word, a declaration moves both by one, a block's
end pops the difference of two offsets (so `BasesAgree` is needed: the offset it
restores is one the block started from), calls give `sp` and `fp` back, and a join keeps
them. The arithmetic is `ByteOfSum`.

Its third part proves `RegistersDisciplined` from

    RegisterInv == RegisterDiscipline /\ NothingHeld

relative to `ShapeInv`; `NothingHeld` (no operand while the parser is outside
expressions) is what makes `registers_init` at a function's begin and end harmless.

Its last part proves `CacheIsSound` and `TopStaysFresh` from

    CacheInv == AddressesFit /\ CacheSound /\ TopIsFresh

relative to both invariants above. `CacheSound` alone is not inductive: a binary
expression, a print or an assignment makes a bound register available that was in
use, and only `TopIsFresh` says that its copy is no older than memory. It is not
for the values further down, which a call inside the expression may have made
stale; they are overwritten (`Binary` marks the left operand temporary) before
they can be freed. `AddressesFit` says that globals have addresses below
`next_global_address`, itself at most `MaxSymbols`, so below the word size: two
addresses are then the same cell only if they are equal, which is what
`register_forget_memory` compares. The argument does not use `RegisterDiscipline`,
only `NothingHeld`. Steps fall in five kinds, one lemma each: reset
(`CacheReset`), push (`CachePush`), overwrite (`CacheOverwrite`), free of the top
(`CacheFree`), store of a global (`CacheStore`).

`SourceProofs` proves the refinement `CodeImplementsSource`: under the mapping `CodeGen`
states (the values are the registers of the operands, a name stands for the cell of its
newest symbol, hidden names for those of the symbols below a block's base), the initial
states are initial states of `SourceSemantics` and every step is one of its steps, or
none. It needs all of

    SourceInv == ShapeInv /\ RegisterInv /\ CacheInv

and is where the parts above earn their keep:

* A read served from a register gives what memory has because of `CacheSound`.
* A value pushed, or a result written, changes no other value because no two operands
  share a register (`RegisterDiscipline`); the same makes the operands below an argument
  list exactly registers the call saves (`HeldIsSaved`).
* Saved registers and arguments together are no more than the general registers, fewer
  than a word has values, so the cells of their pushes are all different, wherever the
  stack wraps (`PushesFit`, `CellsApart`, `PushesKept`): each saved register comes back
  from its own cell, and the callee finds argument `i`, at an offset computed from its
  parameter count, where the caller pushed it (`ArgumentFound`).
* A block gives back exactly the names it hid because the bases of the open blocks never
  descend (`ScopesAscend`, from `BasesAgree` and `SlotsOwned`), so cutting the symbol table
  to the last base, or adding behind it, leaves every symbol the others keep
  (`HiddenSame`, `HiddenKept`).
* A declaration changes the cell of its own name only (`EnvironmentDeclares`); that a
  visible name has one newest symbol is a well-founded argument (`NewestExists`).

Each step of the source is restated over the mapping (the lemmas `As...`), and one lemma
an action shows it taken (`ReadLocalStep`, `BlockCloses`, `CallStep`, ...). What the
abstraction leaves open stays open in the theorem: a callee and any code reached by a
jump may leave any memory, except that a callee does not write the caller's saved
registers through a pointer (`CallReturns`); `Frames` runs the callee.

`MachineProofs` has the lemmas about the frame sequences: `StackPushEffect`,
`ComputeLocalAddressEffect` and arithmetic modulo the word (`ByteOfSum`).

`FramesProofs` proves `TypeCorrect`, `StackBelowLocalsAlways`, `FramesAbutAlways` and the
refinement `FramesImplementActivations`, for any word size, number of registers,
parameters, locals and depth of recursion:

    FramesInv == cpu and callers typed /\ Compiled(...) of the running code and of every caller
                 /\ \E F : Stacked(cpu, callers, next_local_offset, F)

Nothing less is inductive. A return loads `sp`, `fp` and the saved registers from cells,
so it must be known that those cells still hold what the call stored, through all that
the callee, its callees and pointers did since. `Stacked` says where they are: the frame
pointers `F` go down from the top of memory in steps of exactly
`next_local_offset + saved registers + arguments + 2`, and the cell over each holds the
next one up. `Compiled` keeps the bases of blocks ordered and the operands' registers
distinct. The argument goes in five layers:

* The loops. Each is a function of the number of its turn, defined by recursion; `TurnsRun`
  shows by a well-founded argument that such a function exists, and one lemma a loop
  (`PopsRun`, `PushAllRun`, `SaveRun`, `ParametersRun`, `RestoreRun`) that the emitted
  code is a run of it.
* The sequences. One lemma each says which registers and cells change: `PrefixEffect`,
  `SuffixEffect`, `SaveRegistersEffect` (each register `SavedBefore` cells down), and the
  whole of a call and a return: `CallEffect`, `ReturnEffect`. A return takes up from
  memory what a call left there.
* The view. The chain of saved `fp`s has one reading (`ChainIsUnique`), so `FramePointer`
  finds `F`, and the refinement mapping is a function of memory, `F` and `callers`
  (`ViewFound`).
* Disjointness. Locals and saved registers of all frames lie in cells apart (`LocalsLie`,
  `SavedLie`), so a store to a live local, also through a pointer from a callee, is seen
  as one local's new value and nothing else (`StoreSeen`), and what a call or return
  writes below the running frame is seen by no caller (`SuspendedAgree`).
* The steps. One lemma each: the invariant again, and an action of `Activations`
  (`LiteralStep` ... `CallStep`, `ReturnStep`, `EndOfBodyStep`).

The premise of these theorems is in the model, not in the proofs: a declaration or call
that would take the stack under `StackLimit` is not followed, and pointers followed point to
live locals. The code checks neither.

`LayoutProofs` proves three theorems about lists of any length and nesting of any
depth. A list is a run of consecutive numbers, so the lists together are described
by the sequence `ends` of their last numbers (`Runs`). Every step of `Layout` adds
an instruction, opens a list, flushes one, or rewrites targets without moving
anything.

    LayoutInv == ListsInv /\ BlocksInv
    CallsInv  == LayoutInv /\ what frames, jumps and return addresses owe each other

* `OrderIsKept` and `AddressIsFinal` follow from `LayoutInv`: there is a list more than
  there are open blocks, each flush appends a list to the one its numbers continue, and
  `ProgramAddress`, which adds the lengths of the lists below, is the instruction's
  number, which never changes.
* `CallsAreExact` needs to know that patches touch nothing else: a jump still without
  a target is owned by an open statement, which will patch that one and no call. A call's
  return address is then right when it is computed (`ProgramAddressExact`) and for
  ever, and at the end all is one list, in which an instruction is at the address one
  below its number.

`JumpProofs` proves `ConditionsAreExact`, `ElseJumpsAreExact`, `LaterLoopsAreExact` and
`LayoutTyped` from

    JumpsInv == CallsInv /\ Standing(...) /\ ClosedIn(...) /\ TargetsIn(...) /\ Exact(...)

A jump is patched long after it was emitted, by a size added up from counts of blocks
that are gone by then; that this is the distance is a fact about where the open
statements stand in between. `Standing` says it, frame by frame:

* `Top`: of the innermost statement, nothing is emitted between its jump and its block,
  and when its block is complete, jump and size together are the last instruction;
* `Under`: of every other one, the block above it began right behind its jump, where the
  list of that block starts (`Ends[Depth(...)]`), or it is an else whose `if` is being
  parsed, and its jump is no plain else's any more (`Marked`);
* `Sits`: a loop that remembers an instruction does so of one in the same list, directly
  in front of its condition, so the `next` pointer leads to the condition.

`ClosedIn` says that a jump of a statement has the right distance or is owned by a frame
still open; at the end no frame is. A step changes the innermost frames and the last
list only, so one lemma (`Kept`) reduces each of the twelve statement actions to what it
does there, in five shapes: code, push, swap, pop, completion (`Emits`, `Pushes`,
`Swaps`, `Pops`, `Completes`). The two exceptions the findings name are where the code
fails: `elseif` jumps and `first_loop`s are in no clause.

`OutputsProofs` proves that the two files run alike (`FilesAgree`), as asked
(`ProgramsAreExecuted`), and that the editor keeps the program
(`EditorShowsTheProgram`), for every set of opcodes, literals and targets:

    Inv == FilesWritten /\ Together

`FilesWritten` says that what the files hold are the forms of `requests`; `Together`
that the three machines are equal while `Fits`, the two pages always. For each kind of
request one lemma says that line and bytes decode to the same instruction (`Arrives...`),
one that executing it is what was asked for (`Means...`), one that the editor's line
reads back (`Editable...`).

`InterpreterProofs` proves `ControlTyped`, `OneTimerPerRun`, `HaltedExactlyAtEnd`,
`LoadsEndRuns`, `Replays` and `PageImplementsExecution`. `OneTimer` is inductive: whatever
fires is the one timeout, every handler that sets one has just lost it. `HaltedAtEnd` needs
only that `Step` halts when `pc` leaves the program. The refinement is
step simulation: each handler restarts, executes one instruction or stutters.
`Replays` compares the machine with the run `After(instructions)`. That a run of every
length exists, and that a machine on it is halted only past the end of the program, is
shown from the least number for which it would fail (`FromZero`, `RunExists`,
`RunAtEnd`); then each handler is one more step of the run, none, or its start. `halted` is
left out of the comparison because a `Step` past the end sets it and counts no cycle.

Only model-checked: `Progress`. Liveness and `ENABLED` are out of the prover's reach. All
other properties of the passing runs, the three refinements among them, are theorems.

## 6. Not modelled, and the plan

Not modelled:

* The lexer and the LR automaton; the order of the semantic actions is.
* The files written after a syntax error: `main` ignores the result of `yyparse` and
  writes the innermost scope that is left. No document says what they should hold.
* A `return` in `main`, further than its event. `main` has no prefix, so the suffix
  pops above address 255 and jumps to whatever `ra` holds: no statement of the source
  language says what should happen then.
* Writes past the C arrays (functions, arguments and nested calls over their limits
  are diagnosed, a 257th symbol is not): undefined, and outside the models.
* That globals, growing up, and the stack, growing down, stay apart is checked nowhere in
  the code. The source semantics leaves cells to the compiler, so an overlap is visible
  as aliasing, not as a violation.
* Cutting lines into tokens, comments, operands that are no register (only in files the
  compiler did not write), and what the page draws.
* Data and control in one model: `CodeGen` executes each instruction as it is emitted,
  `Layout` places instructions, `Outputs` runs placed ones. A model with all of that would
  compile whole syntax trees, recursively, and repeat the grammar; instead the three share
  the same calls, and each takes from the others only what it states as its own
  environment (joins in `CodeGen`, resolved targets in `Outputs`).

Order of the work:

1. `Registers`, `Machine`, `SourceSemantics`, `CodeGen`, `MCCodeGen`: done.
2. `Layout`: done. `Frames`, `Activations`: done.
3. `MachineProofs`, `CodeGenProofs`, `SourceProofs`, `FramesProofs`: done; every property of
   `CodeGen` and `Frames` that a passing run checks is proved.
4. `LayoutProofs`, `JumpProofs`: done; every invariant of `Layout` that a passing run
   checks is proved.
5. `WebMachine`, `Encoding`, `Outputs`, `OutputsProofs`: done.
6. `Interpreter`, `Execution`, `InterpreterProofs`: done.
