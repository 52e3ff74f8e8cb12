------------------------------ MODULE Activations ------------------------------
(***************************************************************************)
(* What a running program may take for granted of its function calls, with *)
(* no stack pointer, frame or saved register: every activation has locals  *)
(* of its own, each in a cell no other live local has; a call suspends the *)
(* caller as it is, and a return takes it up again as it was, except for   *)
(* what was written through a pointer to one of its locals.                *)
(***************************************************************************)
EXTENDS Integers, Sequences

CONSTANTS Cell,             \* addresses, and all other values
          Literals, ReturnAddresses

VARIABLES
    locals,         \* of the running activation, oldest first: cell and value
    held,           \* its intermediate values, oldest first
    suspended,      \* the activations below it: locals, held, return_address
    event

activations == <<locals, held, suspended, event>>

Last(list) == list[Len(list)]
Front(list) == SubSeq(list, 1, Len(list) - 1)

Live == {locals[i].cell : i \in DOMAIN locals}
        \cup UNION {{suspended[k].locals[i].cell : i \in DOMAIN suspended[k].locals} :
                       k \in DOMAIN suspended}

Init == locals = <<>> /\ held = <<>> /\ suspended = <<>> /\ event = <<"start">>

Compute(values) == held' = values /\ UNCHANGED <<locals, suspended>>

Literal == \E v \in Literals : Compute(Append(held, v)) /\ event' = <<"literal", v>>
Read == \E i \in DOMAIN locals : Compute(Append(held, locals[i].value)) /\ event' = <<"read", i>>
Address == \E i \in DOMAIN locals : Compute(Append(held, locals[i].cell)) /\ event' = <<"address", i>>

(* The local a pointer points to, of whichever activation.                  *)
Follow ==
    /\ held # <<>> /\ Last(held) \in Live
    /\ \E list \in {locals} \cup {suspended[k].locals : k \in DOMAIN suspended} :
        \E i \in DOMAIN list :
            list[i].cell = Last(held) /\ Compute(Append(Front(held), list[i].value))
    /\ event' = <<"follow">>

Written(list, cell, v) ==
    [i \in DOMAIN list |-> IF list[i].cell = cell THEN [list[i] EXCEPT !.value = v] ELSE list[i]]

StoreThrough ==
    /\ Len(held) = 2 /\ held[1] \in Live
    /\ locals' = Written(locals, held[1], held[2])
    /\ suspended' = [k \in DOMAIN suspended |->
                        [suspended[k] EXCEPT !.locals = Written(@, held[1], held[2])]]
    /\ held' = <<>>
    /\ event' = <<"store">>

Assign ==
    /\ Len(held) = 1
    /\ \E i \in DOMAIN locals :
        locals' = [locals EXCEPT ![i].value = held[1]] /\ event' = <<"assign", i>>
    /\ held' = <<>>
    /\ UNCHANGED suspended

Declare ==
    /\ Len(held) = 1
    /\ \E cell \in Cell \ Live : locals' = Append(locals, [cell |-> cell, value |-> held[1]])
    /\ held' = <<>>
    /\ event' = <<"declare">>
    /\ UNCHANGED suspended

OpenBlock == event' = <<"open">> /\ UNCHANGED <<locals, held, suspended>>

CloseBlock ==
    /\ held = <<>>
    /\ \E n \in 0..Len(locals) : locals' = SubSeq(locals, 1, n)
    /\ event' = <<"close">>
    /\ UNCHANGED <<held, suspended>>

(* The last values are the arguments, in order; they are the first locals.  *)
Call ==
    \E n \in 0..Len(held), at \in ReturnAddresses :
        LET arguments == SubSeq(held, Len(held) - n + 1, Len(held))
        IN  /\ suspended' = Append(suspended,
                   [locals |-> locals, held |-> SubSeq(held, 1, Len(held) - n),
                    return_address |-> at])
            /\ Len(locals') = n
            /\ \A i \in 1..n : /\ locals'[i].value = arguments[i]
                               /\ locals'[i].cell \in Cell \ Live
                               /\ \A j \in 1..n : locals'[j].cell = locals'[i].cell => i = j
            /\ held' = <<>>
            /\ event' = <<"call", n>>

Resume(v) ==
    LET caller == Last(suspended)
    IN  /\ suspended # <<>>
        /\ locals' = caller.locals
        /\ held' = Append(caller.held, v)
        /\ suspended' = Front(suspended)
        /\ event' = <<"return", caller.return_address>>

Return == (Len(held) = 1 /\ Resume(held[1])) \/ (held = <<>> /\ Resume(0))

Next ==
    \/ Literal \/ Read \/ Address \/ Follow \/ StoreThrough \/ Assign \/ Declare
    \/ OpenBlock \/ CloseBlock \/ Call \/ Return

Spec == Init /\ [][Next]_activations
==============================================================================
