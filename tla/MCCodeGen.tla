------------------------------ MODULE MCCodeGen ------------------------------
(***************************************************************************)
(* Values for model-checking CodeGen.                                      *)
(***************************************************************************)
EXTENDS CodeGen

(* Where code is reached from elsewhere no register has what is in memory,  *)
(* so a binding that outlives such a point is seen to be stale at once.     *)
FlatRegisters == {[reg \in Registers |-> 0]}
FlatMemories == {[a \in Word |-> 1]}

NoParameters == {<<>>}
OneParameter == {<<"p">>}
TwoParameters == {<<"p", "q">>}

(* Bounds of the run with two arguments: it stops at main, and the memories *)
(* it explores differ in two cells, those the prefix saves ra and fp in at  *)
(* first, from those of a point reached from elsewhere; every step out of   *)
(* such a state is checked.                                                 *)
OneFunctionFewWrites ==
    /\ phase \notin {"main_head", "main_body", "main_tail"}
    /\ \E m \in Memories : Cardinality({a \in Word : cpu.m[a] # m[a]}) <= 2

(* The run of blocks and functions has functions and expressions over one   *)
(* symbol and one nested block, or many symbols and blocks without them.    *)
BlocksOrFunctions ==
    \/ Len(symbols) <= 1 /\ Len(scopes) <= 1
    \/ functions = <<>> /\ event.kind # "binary"
==============================================================================
