---------------------------- MODULE MCInterpreter ----------------------------
(***************************************************************************)
(* Programs for Interpreter: a sample that stores and prints, a text file  *)
(* that reads the cell before writing it, a binary that loops for ever,    *)
(* and a text and a binary that do not load.                               *)
(***************************************************************************)
EXTENDS Interpreter

Lines(program) == Each(InstructionWrite, program)

SampleText ==
    Lines(<<TwoOperandInstruction("AFC", 1, 3), TwoOperandInstruction("STORE", 0, 1),
            OneOperandInstruction("PRI", 1)>>)
ReadingText ==
    Lines(<<TwoOperandInstruction("LOAD", 1, 0), OneOperandInstruction("PRI", 1)>>)
BadText == <<[op |-> "SUB", operands |-> <<RegisterToken(1), RegisterToken(1), RegisterToken(1)>>]>>
LoopBinary ==
    Each(BinaryBytes, <<OneOperandInstruction("PRI", 1), OneOperandInstruction("JMP", 0)>>)
BadBinary == <<[op |-> 255, a |-> 0, b |-> 0, c |-> 0]>>

AllFiles ==
    {[format |-> "text", lines |-> ReadingText], [format |-> "text", lines |-> BadText],
     [format |-> "binary", lines |-> LoopBinary], [format |-> "binary", lines |-> BadBinary]}
AllTexts == {SampleText, <<>>, BadText}
==============================================================================
