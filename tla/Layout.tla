-------------------------------- MODULE Layout --------------------------------
(***************************************************************************)
(* Where the emitted instructions end up and where their jumps go: the     *)
(* per-block instruction lists of src/c/scope.c, the jump placeholders and *)
(* patches of src/c/code/code_jumps.c and code_core.c, in the order in     *)
(* which the grammar of src/yacc.y calls them, and the final resolution of *)
(* references to addresses.                                                *)
(*                                                                         *)
(* An instruction is known by its number in order of emission.  What it    *)
(* computes is CodeGen's business: here it is a jump, the load of a return *)
(* address, or plain code.  NULL is 0.                                     *)
(***************************************************************************)
EXTENDS Integers, Sequences, SequencesExt

CONSTANTS
    FunctionNames,
    MaxInstructions,    \* bound: code and openings of statements stop here
    MaxDepth,           \* bound: nested statements and blocks
    MaxLocals           \* bound: locals a block frees at its end

ASSUME LayoutAssumption ==
    /\ {MaxInstructions, MaxDepth, MaxLocals} \subseteq Nat

NULL == 0

VARIABLES
    phase,          \* where the parser is in Program
    instructions,   \* every instruction made, by number
    lists,          \* instruction_list of the open scopes, outermost first
    counts,         \* their instruction_count
    control,        \* the statements and blocks being parsed, outermost first
    functions       \* the function table: name and entry of each, oldest first

vars == <<phase, instructions, lists, counts, control, functions>>

Opcode(role) ==
    CASE role \in {"if", "while"} -> "JMF"
      [] role \in {"start", "call", "else", "elseif", "loop", "first_loop"} -> "JMP"
      [] OTHER -> "other"

(* role says which code made it; goal is the number of the instruction the  *)
(* source means it to go to (history, NULL until the parser has got there). *)
Instruction(role, relative, value, target, goal) ==
    [role |-> role, relative |-> relative, value |-> value, target |-> target, goal |-> goal]

Plain == Instruction("code", FALSE, 0, NULL, NULL)
Numbers == DOMAIN instructions
NextNumber == Len(instructions) + 1
Room == Len(instructions) < MaxInstructions

(* Mutant of Add: the instructions are numbered when they are already in.   *)
MutantNumberedLate(new) ==
    /\ instructions' = instructions \o new
    /\ lists' = [lists EXCEPT ![Len(lists)] = @ \o [i \in DOMAIN new |-> Len(instructions') + i]]
    /\ counts' = [counts EXCEPT ![Len(counts)] = @ + Len(new)]

(* scope_add_instruction, for each of some new instructions in turn.        *)
Add(new) ==
    /\ instructions' = instructions \o new
    /\ lists' = [lists EXCEPT ![Len(lists)] = @ \o [i \in DOMAIN new |-> Len(instructions) + i]]
    /\ counts' = [counts EXCEPT ![Len(counts)] = @ + Len(new)]

(* Mutant of ProgramAddress: the enclosing scopes are left out.             *)
MutantInnermostCount == Last(counts)

(* current_program_address: the chain of scopes, their counts added up.     *)
ProgramAddress ==
    LET upTo[k \in DOMAIN counts] == IF k = 1 THEN counts[1] ELSE upTo[k - 1] + counts[k]
    IN  upTo[Len(counts)]

(* current_last_instruction: NULL in a scope that has none yet.             *)
LastInstruction == IF Last(lists) = <<>> THEN NULL ELSE Last(Last(lists))

(* Mutant of FirstAfter: the instruction itself.                            *)
MutantLastBefore(number) == number

(* first_instruction_after: the next pointer.                               *)
FirstAfter(number) ==
    IF number = NULL THEN NULL
    ELSE LET list == Last(lists)
             at == CHOOSE i \in DOMAIN list : list[i] = number
         IN  IF at < Len(list) THEN list[at + 1] ELSE NULL

-----------------------------------------------------------------------------
(* The parser: a frame for each if, else, while and block not yet reduced.  *)

Frame(kind, stage, jump) ==
    [kind |-> kind, stage |-> stage, jump |-> jump, size |-> 0, taken |-> 0,
     before |-> NULL, first |-> NULL]

Innermost(kind, stage) ==
    control # <<>> /\ Last(control).kind = kind /\ Last(control).stage = stage
Replace(frame) == control' = Append(Front(control), frame)

InBlock == Innermost("block", "body")
InCondition == \E kind \in {"if", "while"} : Innermost(kind, "condition")
Emitting == InBlock \/ InCondition \/ phase = "globals"
StatementStart == InBlock /\ Len(control) < MaxDepth /\ Room

(* Any instruction of an expression or a simple statement.                  *)
Code ==
    /\ Emitting /\ Room
    /\ Add(<<Plain>>)
    /\ UNCHANGED <<phase, control, functions>>

(* if ( *)
If ==
    /\ StatementStart
    /\ control' = Append(control, Frame("if", "condition", NULL))
    /\ UNCHANGED <<phase, instructions, lists, counts, functions>>

(* The condition is complete: code_add_conditional_jump_placeholder.        *)
ConditionalJumpPlaceholder ==
    /\ InCondition
    /\ Add(<<Instruction(Last(control).kind, TRUE, 0, NULL, NULL)>>)
    /\ Replace([Last(control) EXCEPT !.stage = "body", !.jump = NextNumber])
    /\ UNCHANGED <<phase, functions>>

(* while ( : remembers the last instruction before the condition.           *)
While ==
    /\ StatementStart
    /\ control' = Append(control, [Frame("while", "condition", NULL) EXCEPT
                                      !.before = LastInstruction, !.first = NextNumber])
    /\ UNCHANGED <<phase, instructions, lists, counts, functions>>

(* begin_block: as a statement, or the body of what is being parsed.        *)
BeginBlock ==
    /\ \/ StatementStart
       \/ \E kind \in {"if", "else", "while"} : Innermost(kind, "body")
       \/ control = <<>> /\ phase \in {"function_head", "main_head"}
    /\ lists' = Append(lists, <<>>)
    /\ counts' = Append(counts, 0)
    /\ control' = Append(control, Frame("block", "body", NULL))
    /\ phase' = CASE phase = "function_head" -> "function_body"
                  [] phase = "main_head" -> "main_body"
                  [] OTHER -> phase
    /\ UNCHANGED <<instructions, functions>>

(* Mutants of the next two: the pops are not counted; the block goes in     *)
(* front of what its parent has.                                            *)
MutantPopsNotCounted(pops) == Last(counts)
MutantFlushInFront(list) == [Front(lists) EXCEPT ![Len(lists) - 1] = list \o @]

(* The instruction count end_block returns, and the chain after scope_flush. *)
BlockSize(pops) == Last(counts) + Len(pops)
Flushed(list) == [Front(lists) EXCEPT ![Len(lists) - 1] = @ \o list]

(* end_block: the pops of the locals, the count, and scope_flush.           *)
EndBlock ==
    /\ InBlock
    /\ \E locals \in 0..MaxLocals :
        LET pops == [i \in 1..(2 * locals) |-> Plain]
            list == Last(lists) \o [i \in DOMAIN pops |-> Len(instructions) + i]
            size == BlockSize(pops)
            outer == Front(control)
        IN  /\ instructions' = instructions \o pops
            /\ lists' = Flushed(list)
            /\ counts' = [Front(counts) EXCEPT ![Len(counts) - 1] = @ + Last(counts) + Len(pops)]
            /\ control' = IF outer # <<>> /\ Last(outer).stage = "body" /\ Last(outer).kind # "block"
                          THEN Append(Front(outer),
                                      [Last(outer) EXCEPT !.stage = "parsed", !.size = size])
                          ELSE outer
    /\ phase' = IF Len(control) > 1 THEN phase
                ELSE IF phase = "function_body" THEN "function_tail" ELSE "main_tail"
    /\ UNCHANGED functions

(* Mutant of Patch: the jump itself is not counted.                         *)
MutantPatchOneShort(number, offset, goal) ==
    [instructions EXCEPT ![number].value = offset - 1, ![number].goal = goal]

Patch(number, offset, goal) ==
    [instructions EXCEPT ![number].value = offset, ![number].goal = goal]

(* An IfStatement of that size is reduced: it may be the else-if of another. *)
Reduced(outer, size) ==
    control' = IF outer # <<>> /\ Last(outer).kind = "else"
               THEN Append(Front(outer), [Last(outer) EXCEPT !.stage = "parsed", !.size = size])
               ELSE outer

(* No else follows.                                                         *)
SingleIfStatement ==
    /\ Innermost("if", "parsed")
    /\ instructions' = Patch(Last(control).jump, Last(control).size + 1, NextNumber)
    /\ Reduced(Front(control), Last(control).size + 1)
    /\ UNCHANGED <<phase, lists, counts, functions>>

(* An else follows: the patch that skips the jump to come, then that jump.  *)
TakenIfStatement ==
    /\ Innermost("if", "parsed")
    /\ instructions' = Append(Patch(Last(control).jump, Last(control).size + 2, NextNumber + 1),
                              Instruction("else", TRUE, 0, NULL, NULL))
    /\ lists' = [lists EXCEPT ![Len(lists)] = Append(@, NextNumber)]
    /\ counts' = [counts EXCEPT ![Len(counts)] = @ + 1]
    /\ Replace([Frame("else", "body", NextNumber) EXCEPT !.taken = Last(control).size + 1])
    /\ UNCHANGED <<phase, functions>>

(* ... else if ( : its condition is emitted here, its block later.          *)
ElseIf ==
    /\ Innermost("else", "body")
    /\ Len(control) < MaxDepth /\ Room
    /\ instructions' = [instructions EXCEPT ![Last(control).jump].role = "elseif"]
    /\ control' = Append(control, Frame("if", "condition", NULL))
    /\ UNCHANGED <<phase, lists, counts, functions>>

(* The else part, block or if statement, is complete.                       *)
IfElseStatement ==
    /\ Innermost("else", "parsed")
    /\ instructions' = Patch(Last(control).jump, Last(control).size + 1, NextNumber)
    /\ Reduced(Front(control), Last(control).taken + Last(control).size + 1)
    /\ UNCHANGED <<phase, lists, counts, functions>>

WhileStatement ==
    /\ Innermost("while", "parsed")
    /\ LET frame == Last(control)
           role == IF frame.before = NULL THEN "first_loop" ELSE "loop"
           back == Instruction(role, FALSE, 0, FirstAfter(frame.before), frame.first)
       IN  instructions' = Append(Patch(frame.jump, frame.size + 2, NextNumber + 1), back)
    /\ lists' = [lists EXCEPT ![Len(lists)] = Append(@, NextNumber)]
    /\ counts' = [counts EXCEPT ![Len(counts)] = @ + 1]
    /\ control' = Front(control)
    /\ UNCHANGED <<phase, functions>>

-----------------------------------------------------------------------------
(* Functions, calls and main *)

IsEntry(f, entry) ==
    \E i \in DOMAIN functions :
        /\ functions[i] = [name |-> f, entry |-> entry]
        /\ \A j \in DOMAIN functions : functions[j].name = f => j <= i

(* The return address is a number computed now; the entry is a pointer.     *)
FunctionCall(f) ==
    /\ Emitting /\ Room
    /\ \E entry \in Numbers :
        /\ IsEntry(f, entry)
        /\ Add(<<Instruction("return_address", FALSE, ProgramAddress + 2, NULL, NextNumber + 2),
                 Instruction("call", FALSE, 0, entry, entry)>>)
    /\ UNCHANGED <<phase, control, functions>>

ProgramStart ==
    /\ phase = "globals"
    /\ phase' = "toplevel"
    /\ Add(<<Instruction("start", FALSE, 0, NULL, NULL)>>)
    /\ UNCHANGED <<control, functions>>

(* The label and, as one, the prefix with the copies of the parameters.     *)
BeginFunctionDefinition(f) ==
    /\ phase = "toplevel" /\ Room
    /\ phase' = "function_head"
    /\ Add(<<Plain, Plain>>)
    /\ functions' = Append(functions, [name |-> f, entry |-> NextNumber])
    /\ UNCHANGED control

EndFunctionDefinition ==
    /\ phase = "function_tail"
    /\ phase' = "toplevel"
    /\ Add(<<Plain>>)
    /\ UNCHANGED <<control, functions>>

(* main_jump is the instruction program_start made.                         *)
BeginMainMethod ==
    /\ phase = "toplevel"
    /\ phase' = "main_head"
    /\ instructions' =
           [i \in Numbers |-> IF instructions[i].role = "start"
                              THEN [instructions[i] EXCEPT !.target = NextNumber, !.goal = NextNumber]
                              ELSE instructions[i]] \o <<Plain, Plain>>
    /\ lists' = [lists EXCEPT ![Len(lists)] = @ \o <<NextNumber, NextNumber + 1>>]
    /\ counts' = [counts EXCEPT ![Len(counts)] = @ + 2]
    /\ UNCHANGED <<control, functions>>

EndMainMethod ==
    /\ phase = "main_tail"
    /\ phase' = "parsed"
    /\ UNCHANGED <<instructions, lists, counts, control, functions>>

(* Mutant of Address: the first instruction gets address 1.                 *)
MutantAddressFromOne(number) ==
    IF number = NULL THEN 0 ELSE CHOOSE i \in DOMAIN lists[1] : lists[1][i] = number

(* scope_resolve_references: addresses along the root list, then every jump *)
(* gets one in place of its offset or pointer.                              *)
Address(number) ==
    IF number = NULL THEN 0 ELSE (CHOOSE i \in DOMAIN lists[1] : lists[1][i] = number) - 1

ResolveReferences ==
    /\ phase = "parsed"
    /\ phase' = "resolved"
    /\ instructions' =
           [i \in Numbers |->
               IF Opcode(instructions[i].role) = "other" THEN instructions[i]
               ELSE [instructions[i] EXCEPT !.value = IF instructions[i].relative
                                                      THEN Address(i) + @
                                                      ELSE Address(instructions[i].target)]]
    /\ UNCHANGED <<lists, counts, control, functions>>

-----------------------------------------------------------------------------
Init ==
    /\ phase = "globals"
    /\ instructions = <<>> /\ lists = <<<<>>>> /\ counts = <<0>>
    /\ control = <<>> /\ functions = <<>>

Statements ==
    \/ Code \/ If \/ While \/ ConditionalJumpPlaceholder \/ BeginBlock \/ EndBlock
    \/ SingleIfStatement \/ TakenIfStatement \/ ElseIf \/ IfElseStatement \/ WhileStatement
    \/ \E f \in FunctionNames : FunctionCall(f)

TopLevel ==
    \/ ProgramStart
    \/ \E f \in FunctionNames : BeginFunctionDefinition(f)
    \/ EndFunctionDefinition
    \/ BeginMainMethod
    \/ EndMainMethod
    \/ ResolveReferences

Finished == phase = "resolved" /\ UNCHANGED vars

Next == Statements \/ TopLevel \/ Finished

Spec == Init /\ [][Next]_vars

-----------------------------------------------------------------------------
Kinds == {"if", "else", "while", "block"}
Frames ==
    [kind : Kinds, stage : {"condition", "body", "parsed"}, jump : Nat, size : Nat, taken : Nat,
     before : Nat, first : Nat]

(* Type invariant. *)
TypeOK ==
    /\ phase \in {"globals", "toplevel", "function_head", "function_body", "function_tail",
                  "main_head", "main_body", "main_tail", "parsed", "resolved"}
    /\ \A i \in Numbers :
        /\ instructions[i].role \in {"code", "start", "call", "return_address", "if", "else",
                                     "elseif", "while", "loop", "first_loop"}
        /\ {instructions[i].target, instructions[i].goal} \subseteq Nat
    /\ \A i \in DOMAIN lists : lists[i] \in Seq(Numbers)
    /\ Len(counts) = Len(lists)
    /\ \A i \in DOMAIN control : control[i] \in Frames
    /\ \A i \in DOMAIN functions : functions[i].entry \in Numbers

(* However blocks nest and flush, the open lists laid end to end are every  *)
(* instruction in the order it was emitted, each once.                      *)
EmissionOrder == FlattenSeq(lists) = [i \in Numbers |-> i]

(* The address the next instruction will have is known while its scopes are *)
(* still open: calls compute their return address from it.                  *)
ProgramAddressExact == ProgramAddress = Len(instructions)

Exact(roles) ==
    phase = "resolved" =>
        \A i \in Numbers : instructions[i].role \in roles =>
            instructions[i].value = instructions[i].goal - 1

(* A false condition goes to the else part or just past the statement,      *)
(* whatever was nested in the block it skips.                               *)
ConditionsExact == Exact({"if", "while"})

(* The jump that ends a taken branch skips exactly a plain else block.      *)
ElseJumpsExact == Exact({"else"})

(* The program starts at main, calls go to the entry that was newest when   *)
(* they were compiled, and return just behind the call.                     *)
CallsExact == Exact({"start", "call", "return_address"})

(* A loop goes back to the first instruction of its condition, unless it is *)
(* the first code of its block (first_loop).                                *)
LaterLoopsExact == Exact({"loop"})

(* code_jumps.c patches a jump "once we know how far it should jump": the   *)
(* jump that ends a taken branch skips the else-if that follows.            *)
ElseIfJumpsExact == Exact({"elseif"})

(* The report's "final J that goes back to the condition", of a loop that   *)
(* is the first code of its block.                                          *)
FirstLoopsExact == Exact({"first_loop"})
===============================================================================
