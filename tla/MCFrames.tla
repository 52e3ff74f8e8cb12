------------------------------- MODULE MCFrames -------------------------------
(***************************************************************************)
(* A view for model-checking Frames: states that differ only in what is    *)
(* overwritten before it is read (cells the stack has given back,          *)
(* registers that hold no value) and in the last event are explored once.  *)
(* TLC still checks every step it generates against the refinement.        *)
(***************************************************************************)
EXTENDS Frames

LiveState ==
    [memory |-> [a \in Word |-> IF a > cpu.r[REG_SP] THEN cpu.m[a] ELSE 0],
     pointers |-> <<cpu.r[REG_SP], cpu.r[REG_FP]>>,
     values |-> [i \in DOMAIN operands |-> cpu.r[operands[i]]],
     code |-> <<next_local_offset, bases, operands, callers>>]
(* Bounds of the run: two call sites and nested blocks in functions of one  *)
(* parameter and one local, or one call site and one block in functions of  *)
(* two.                                                                     *)
Bounded(sizes, bound) == \A n \in sizes : n <= bound

BlocksOrParameters ==
    LET below == DOMAIN callers
    IN  \/ Bounded({LocalCount(k) : k \in 1..Depth} \cup {callers[k].argument_count : k \in below}, 1)
        \/ /\ Bounded({Len(bases)} \cup {Len(callers[k].bases) : k \in below}, 1)
           /\ Cardinality({cpu.m[Byte(FramePointer[k + 1] + 2)] : k \in below}) <= 1
==============================================================================
