-------------------------------- MODULE Fifo --------------------------------
(***************************************************************************)
(* What ts_queue promises its clients: a sequence, to which each call does *)
(* one thing at one moment.                                                *)
(***************************************************************************)
EXTENDS Sequences

CONSTANTS Clients, Elements

VARIABLES
    fifo,       \* the elements pushed and not yet taken, oldest first
    element,    \* client -> what its last top copied out
    size        \* client -> what its last size answered

vars == <<fifo, element, size>>

Init == fifo = <<>> /\ element = [c \in Clients |-> 0] /\ size = [c \in Clients |-> 0]

Push(e) == fifo' = Append(fifo, e) /\ UNCHANGED <<element, size>>

Pop == fifo # <<>> /\ fifo' = Tail(fifo) /\ UNCHANGED <<element, size>>

Top(c) ==
    /\ fifo # <<>>
    /\ fifo' = Tail(fifo)
    /\ element' = [element EXCEPT ![c] = Head(fifo)]
    /\ UNCHANGED size

Size(c) == size' = [size EXCEPT ![c] = Len(fifo)] /\ UNCHANGED <<fifo, element>>

\* The client is done with its answers.
Forget(c) ==
    /\ element' = [element EXCEPT ![c] = 0]
    /\ size' = size \/ size' = [size EXCEPT ![c] = 0]
    /\ UNCHANGED fifo

Next ==
    \/ \E e \in Elements : Push(e)
    \/ Pop
    \/ \E c \in Clients : Top(c) \/ Size(c) \/ Forget(c)

Spec == Init /\ [][Next]_vars
=============================================================================
