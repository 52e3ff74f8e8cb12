------------------------------ MODULE Registers ------------------------------
(***************************************************************************)
(* The register descriptors of the compiler (src/c/registers.c): what the  *)
(* code generator believes each general register holds while it emits      *)
(* instructions.  Pure operators over one descriptor table; the variable   *)
(* that holds the table belongs to the module that uses them.              *)
(*                                                                         *)
(* The file is scaled: LastGeneral general registers stand for r1..r11,    *)
(* the four reserved registers follow them as r12..r15 do in the code.     *)
(* Every function of registers.c leaves the descriptors of the reserved    *)
(* registers alone (register_is_general), so the table has none for them.  *)
(***************************************************************************)
EXTENDS Integers

CONSTANT LastGeneral     \* number of the last general register, 11 in the code

ASSUME LastGeneralAssumption == LastGeneral \in Nat \ {0}

REG_RETURN        == 0
REG_FIRST_GENERAL == 1
REG_LAST_GENERAL  == LastGeneral
REG_TMP           == LastGeneral + 1
REG_SP            == LastGeneral + 2
REG_FP            == LastGeneral + 3
REG_RA            == LastGeneral + 4
REG_NO_MEMORY     == -1

Registers == 0..REG_RA
General   == REG_FIRST_GENERAL..REG_LAST_GENERAL

Descriptors(Addresses) ==
    [in_use : BOOLEAN, memory_address : Addresses \cup {REG_NO_MEMORY}, temporary : BOOLEAN]

(* registers_init: every general register becomes available and forgets.   *)
RegistersInit ==
    [reg \in General |-> [in_use |-> FALSE, memory_address |-> REG_NO_MEMORY, temporary |-> FALSE]]

(* The ascending scans of registers.c return the lowest candidate.          *)
IsLowest(reg, candidates) ==
    /\ reg \in candidates
    /\ \A other \in candidates : reg <= other

Available(table) == {reg \in General : ~table[reg].in_use}

InUse(table) == {reg \in General : table[reg].in_use}

(* Mutant of CleanCopies: a register in use is handed out a second time.    *)
MutantCopiesInUse(table, memory_address) ==
    {reg \in General : table[reg].memory_address = memory_address /\ ~table[reg].temporary}

(* The registers register_find_memory may hand out again for this address. *)
CleanCopies(table, memory_address) ==
    {reg \in Available(table) : /\ table[reg].memory_address = memory_address
                                /\ ~table[reg].temporary}

RegisterUse(table, reg) == [table EXCEPT ![reg].in_use = TRUE]

RegisterAlloc(table, reg) ==
    [table EXCEPT ![reg] = [in_use |-> TRUE, memory_address |-> REG_NO_MEMORY, temporary |-> FALSE]]

RegisterFree(table, reg) == [table EXCEPT ![reg].in_use = FALSE]

RegisterBindMemory(table, reg, memory_address) ==
    [table EXCEPT ![reg].memory_address = memory_address, ![reg].temporary = FALSE]

(* Mutant of RegisterMarkTemporary: the overwritten register stays bound.   *)
MutantStaysBound(table, reg) == table

RegisterMarkTemporary(table, reg) ==
    [table EXCEPT ![reg].memory_address = REG_NO_MEMORY, ![reg].temporary = TRUE]

Forget(table, forgotten) ==
    [reg \in General |->
        IF reg \in forgotten
        THEN [table[reg] EXCEPT !.memory_address = REG_NO_MEMORY, !.temporary = FALSE]
        ELSE table[reg]]

(* Mutant of RegisterForgetMemory: the other copies stay.                   *)
MutantForgetsNothing(table, memory_address) == table

(* Used or not, every register bound to the address loses the binding.      *)
RegisterForgetMemory(table, memory_address) ==
    Forget(table, {reg \in General : table[reg].memory_address = memory_address})

(* Mutant of RegisterForgetAvailable: a call forgets nothing.               *)
MutantForgetsNoCopies(table) == table

(* Only the registers the current expression does not hold are forgotten.  *)
RegisterForgetAvailable(table) == Forget(table, Available(table))
==============================================================================
