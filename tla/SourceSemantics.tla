--------------------------- MODULE SourceSemantics ---------------------------
(***************************************************************************)
(* What a compiled program promises its author, with no registers, frames  *)
(* or instructions: a name stands for a memory cell, reading a variable    *)
(* gives what its cell holds now, an intermediate value stays what it was  *)
(* when it was computed, and a block gives back the names it hid.          *)
(*                                                                         *)
(* A call, and any point reached by a jump, may find another memory; no    *)
(* intermediate value changes.                                             *)
(***************************************************************************)
EXTENDS Integers, Sequences

CONSTANTS Names, FunctionNames, Literals, BinaryOps, WordSize,
          Nothing,          \* the subject of an operation that has none
          Apply(_, _, _)    \* the value of a binary operation

VARIABLES
    values,         \* intermediate values, oldest first
    lists,          \* how many values lie below each open argument list
    memory,
    env,            \* the cell each visible name stands for
    hidden,         \* the environments the open blocks give back
    event           \* the operation just done and what it showed

source == <<values, lists, memory, env, hidden, event>>

Cell == 0..(WordSize - 1)
Memory == [Cell -> Cell]

Last(list) == list[Len(list)]
Front(list) == SubSeq(list, 1, Len(list) - 1)
Done(kind, subject, shown) ==
    event' = [kind |-> kind, subject |-> subject, values |-> shown]

Init ==
    /\ values = <<>> /\ lists = <<>> /\ hidden = <<>>
    /\ memory \in Memory
    /\ env = [x \in {} |-> 0]
    /\ event = [kind |-> "start", subject |-> Nothing, values |-> <<>>]

Compute(result) ==
    /\ values' = result
    /\ UNCHANGED <<lists, memory, env, hidden>>

Literal ==
    \E v \in Literals :
        /\ Compute(Append(values, v % WordSize))
        /\ Done("literal", Nothing, <<v>>)

(* A name nobody declared reads as 0, and has no address to speak of.       *)
Read ==
    \E x \in Names :
        /\ Compute(Append(values, IF x \in DOMAIN env THEN memory[env[x]] ELSE 0))
        /\ Done("read", x, <<>>)

AddressOf ==
    \E x \in Names, address \in Cell :
        /\ x \in DOMAIN env => address = env[x]
        /\ Compute(Append(values, address))
        /\ Done("address", x, <<>>)

Combine ==
    /\ Len(values) >= 2
    /\ \E op \in BinaryOps :
        /\ Compute(Append(Front(Front(values)),
                          Apply(op, Last(Front(values)), Last(values)) % WordSize))
        /\ Done("binary", op, <<>>)

Negate ==
    /\ values # <<>>
    /\ Compute(Append(Front(values), IF Last(values) = 0 THEN 1 ELSE 0))
    /\ Done("not", Nothing, <<>>)

Follow ==
    /\ values # <<>>
    /\ Compute(Append(Front(values), memory[Last(values)]))
    /\ Done("follow", Nothing, <<>>)

(* A declaration gives the name a cell and the cell the value.              *)
Declare ==
    /\ \E x \in Names, cell \in Cell, v \in Cell :
        /\ values = <<v>> \/ (values = <<>> /\ v = 0)
        /\ memory' = [memory EXCEPT ![cell] = v]
        /\ env' = [y \in DOMAIN env \cup {x} |-> IF y = x THEN cell ELSE env[y]]
        /\ Done("declare", x, <<>>)
    /\ values' = <<>>
    /\ UNCHANGED <<lists, hidden>>

Assign ==
    /\ Len(values) = 1
    /\ \E x \in Names :
        /\ memory' = IF x \in DOMAIN env THEN [memory EXCEPT ![env[x]] = values[1]] ELSE memory
        /\ Done("assign", x, <<>>)
    /\ values' = <<>>
    /\ UNCHANGED <<lists, env, hidden>>

StoreThrough ==
    /\ Len(values) = 2
    /\ memory' = [memory EXCEPT ![values[1]] = values[2]]
    /\ Done("store", Nothing, <<>>)
    /\ values' = <<>>
    /\ UNCHANGED <<lists, env, hidden>>

ShowValue ==
    /\ Len(values) = 1
    /\ Done("print", Nothing, values)
    /\ values' = <<>>
    /\ UNCHANGED <<lists, memory, env, hidden>>

Discard ==
    /\ Len(values) = 1
    /\ Done("discard", Nothing, <<>>)
    /\ values' = <<>>
    /\ UNCHANGED <<lists, memory, env, hidden>>

(* The code after a branch is what runs when its condition holds.           *)
Branch ==
    /\ Len(values) = 1
    /\ Done("branch", Nothing, values)
    /\ memory' \in IF values[1] # 0 THEN {memory} ELSE Memory
    /\ values' = <<>>
    /\ UNCHANGED <<lists, env, hidden>>

(* The value goes back, with the caller's stack, frame and return address.  *)
Return ==
    /\ Len(values) = 1
    /\ \E sp, fp, ra \in Cell : Done("return", Nothing, <<values[1], sp, fp, ra>>)
    /\ memory' \in Memory
    /\ values' = <<>>
    /\ UNCHANGED <<lists, env, hidden>>

Reached ==
    /\ values = <<>>
    /\ memory' \in Memory
    /\ Done("join", Nothing, <<>>)
    /\ UNCHANGED <<values, lists, env, hidden>>

OpenBlock ==
    /\ hidden' = Append(hidden, env)
    /\ Done("open", Nothing, <<>>)
    /\ UNCHANGED <<values, lists, memory, env>>

CloseBlock ==
    /\ hidden # <<>>
    /\ env' = Last(hidden)
    /\ hidden' = Front(hidden)
    /\ Done("close", Nothing, <<>>)
    /\ UNCHANGED <<values, lists, memory>>

OpenList ==
    /\ lists' = Append(lists, [base |-> Len(values), count |-> 0])
    /\ Done("list", Nothing, <<>>)
    /\ UNCHANGED <<values, memory, env, hidden>>

PassArgument ==
    /\ lists # <<>>
    /\ lists' = [lists EXCEPT ![Len(lists)].count = @ + 1]
    /\ Done("argument", Nothing, <<>>)
    /\ UNCHANGED <<values, memory, env, hidden>>

(* The callee is given the values of the list; the others survive the call. *)
Call ==
    /\ lists # <<>>
    /\ Len(values) = Last(lists).base + Last(lists).count
    /\ \E f \in FunctionNames :
        Done("call", f, SubSeq(values, Last(lists).base + 1, Len(values)))
    /\ \E result \in Cell : values' = Append(SubSeq(values, 1, Last(lists).base), result)
    /\ lists' = Front(lists)
    /\ memory' \in Memory
    /\ UNCHANGED <<env, hidden>>

(* Between the functions the names mean what the next frame makes of them.  *)
NewFrame ==
    /\ values = <<>> /\ hidden = <<>>
    /\ memory' \in Memory
    /\ DOMAIN env' \subseteq Names /\ \A x \in DOMAIN env' : env'[x] \in Cell
    /\ event'.kind = "frame"
    /\ UNCHANGED <<values, lists, hidden>>

Abandoned ==
    /\ Done("exit", Nothing, <<>>)
    /\ UNCHANGED <<values, lists, memory, env, hidden>>

Next ==
    \/ Literal \/ Read \/ AddressOf \/ Combine \/ Negate \/ Follow
    \/ Declare \/ Assign \/ StoreThrough \/ ShowValue \/ Discard \/ Branch \/ Return
    \/ Reached \/ OpenBlock \/ CloseBlock \/ OpenList \/ PassArgument \/ Call
    \/ NewFrame \/ Abandoned

Spec == Init /\ [][Next]_source
==============================================================================
