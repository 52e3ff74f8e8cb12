------------------------------- MODULE MCOutputs -------------------------------
(* Values and a bound for model-checking Outputs. *)
EXTENDS Outputs

(* Numbers a configuration file cannot write: one inside a word, one past   *)
(* it and one below 0, as atoi gives for a long literal.                    *)
EdgeLiterals == {3, WordSize + 1, -1}

(* Bound of the run: a program longer than three instructions has only      *)
(* jumps, over one register.                                                *)
LongProgramsOnlyJump ==
    \/ Len(requests) <= 3
    \/ \A k \in DOMAIN requests : requests[k].opcode \in {"NOP", "JMP"} \/
                                  (requests[k].opcode = "JMF" /\ requests[k].operands[1] = 1)
===============================================================================
