------------------------------- MODULE Execution -------------------------------
(***************************************************************************)
(* What the page promises of the machine it shows, whatever buttons,       *)
(* timers and files do: it restarts from zero, always when the program is  *)
(* replaced, or it executes the instruction at pc, one at a time.          *)
(***************************************************************************)
CONSTANTS
    Zeroed,             \* the machine after a restart
    Step(_, _)          \* a machine after one instruction of a program

VARIABLES program, cpu

Init == cpu = Zeroed

Restart == cpu' = Zeroed

ExecuteOne ==
    /\ cpu' = Step(cpu, program)
    /\ UNCHANGED program

Next == Restart \/ ExecuteOne

Spec == Init /\ [][Next]_<<program, cpu>>
===============================================================================
