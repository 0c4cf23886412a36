-------------------------------- MODULE List --------------------------------
(***************************************************************************)
(* The singly linked list of list.c, with its nodes from a heap.  A list   *)
(* is used by one thread at a time, so an operation is one action.         *)
(* Indices count from 0; a caller inserts and erases where the list is.    *)
(***************************************************************************)
EXTENDS Integers, Sequences, FiniteSets

CONSTANTS
    Elements,
    Nodes,      \* bound: the addresses malloc can answer
    Meta, NULL  \* &l->meta, and the null pointer

\* Addresses are finitely many, and the meta node is none of malloc's.
ASSUME ListAssumption == IsFiniteSet(Nodes) /\ Meta \notin Nodes /\ NULL \notin Nodes \cup {Meta}

VARIABLES
    next,       \* node -> its next
    buffer,     \* node -> its element
    allocated,  \* the nodes malloc has given out
    tail,
    len,
    called,     \* the last call, <<"clear">> while list_clear is in its loop
    end         \* history: "behind" once list_push_front has put the first
                \* element in and left tail behind it, "lost" once
                \* list_push_back has then overwritten what follows tail

list == <<next, buffer, allocated, tail, len>>
vars == <<list, called, end>>

list_init ==
    /\ next = [n \in Nodes \cup {Meta} |-> NULL]
    /\ buffer \in [Nodes -> {NULL}]
    /\ allocated = {}
    /\ tail = Meta /\ len = 0
    /\ called = <<"init">> /\ end = "kept"

-----------------------------------------------------------------------------
(* The node before the element of an index: 0 is head's; NULL where no     *)
(* node is.                                                                *)
Before(index) ==
    LET walk[i \in Nat] ==
            IF i = 0 THEN Meta ELSE IF walk[i - 1] = NULL THEN NULL ELSE next[walk[i - 1]]
    IN  walk[index]

(* A new node n with element e between the node p and what is after.       *)
Linked(n, p, after, e) ==
    /\ next' = [next EXCEPT ![n] = after, ![p] = n]
    /\ buffer' = [buffer EXCEPT ![n] = e]
    /\ allocated' = allocated \cup {n}
    /\ len' = len + 1

list_push_back(n, e) ==
    /\ tail \in allocated \cup {Meta}
    /\ Linked(n, tail, NULL, e) /\ tail' = n
    /\ end' = IF end = "kept" THEN "kept" ELSE "lost"

\* Does not look whether n is the last node too.
list_push_front(n, e) ==
    /\ Linked(n, Meta, next[Meta], e) /\ UNCHANGED tail
    /\ end' = IF len = 0 /\ end = "kept" THEN "behind" ELSE end

list_insert(index, n, e) ==
    \/ index = 0 /\ list_push_front(n, e)
    \/ index # 0 /\ index = len /\ list_push_back(n, e)
    \/ /\ index # 0 /\ index # len /\ Before(index) # NULL
       /\ Linked(n, Before(index), next[Before(index)], e) /\ UNCHANGED <<tail, end>>

\* Faulty: tail stays when the last element goes.
list_erase_any(index) ==
    LET p == Before(index)
        c == Before(index + 1)
    IN  IF c = NULL THEN UNCHANGED <<list, end>>
        ELSE /\ end' = IF index = len - 1 /\ end = "behind" THEN "kept" ELSE end
             /\ next' = [next EXCEPT ![p] = next[c]]
             /\ allocated' = allocated \ {c}
             /\ len' = len - 1
             /\ UNCHANGED <<buffer, tail>>

\* Where len says that there is an element and there is none, nothing happens.
list_erase(index) ==
    LET p == Before(index)
        c == Before(index + 1)
    IN  IF c = NULL THEN UNCHANGED <<list, end>>
        ELSE /\ tail' = IF index = len - 1 THEN p ELSE tail
             /\ end' = IF index = len - 1 /\ end = "behind" THEN "kept" ELSE end
             /\ next' = [next EXCEPT ![p] = next[c]]
             /\ allocated' = allocated \ {c}
             /\ len' = len - 1
             /\ UNCHANGED buffer

\* What list_index_of answers where no element is: an offset from NULL, which
\* is not NULL.
Nothing == [buffer_of |-> NULL]

list_index_of(index) ==
    LET c == Before(index + 1) IN IF index < len /\ c # NULL THEN buffer[c] ELSE Nothing

-----------------------------------------------------------------------------
(* The calls *)

Clearing == called = <<"clear">>
Undefined == called = <<"undefined">>

Call(name, index, e) == ~Clearing /\ ~Undefined /\ called' = <<name, index, e>>

PushBack ==
    \E n \in Nodes \ allocated, e \in Elements :
        Call("insert", len, e) /\ list_push_back(n, e)

PushFront ==
    \E n \in Nodes \ allocated, e \in Elements :
        Call("insert", 0, e) /\ list_push_front(n, e)

Insert ==
    \E index \in 0..len, n \in Nodes \ allocated, e \in Elements :
        Call("insert", index, e) /\ list_insert(index, n, e)

\* list_push_back writes to a tail that was freed, or list_insert to the node
\* NULL; what follows is anything.
Misstep ==
    /\ ~Clearing /\ ~Undefined /\ Nodes # allocated
    /\ tail \notin allocated \cup {Meta} \/ \E index \in 1..(len - 1) : Before(index) = NULL
    /\ called' = <<"undefined">> /\ UNCHANGED <<list, end>>

\* malloc fails, and the list stays as it is; or nothing more is known.
NoMemory == ~Clearing /\ UNCHANGED vars

Erase ==
    \E index \in 0..(len - 1) :
        /\ ~Clearing /\ ~Undefined /\ called' = <<"erase", index>>
        /\ list_erase(index)

\* At an index that is there, or one past the end.
IndexOf ==
    \E index \in 0..len :
        Call("index_of", index, list_index_of(index)) /\ UNCHANGED <<list, end>>

Clear == ~Clearing /\ ~Undefined /\ called' = <<"clear">> /\ UNCHANGED <<list, end>>

(* list_clear, and list_destroy, which is the same. *)
ClearLoop ==
    /\ Clearing
    /\ \/ len # 0 /\ list_erase(0) /\ UNCHANGED called
       \/ len = 0 /\ called' = <<"cleared">> /\ UNCHANGED <<list, end>>

Next == PushBack \/ PushFront \/ Insert \/ Misstep \/ NoMemory \/ Erase \/ IndexOf \/ Clear \/ ClearLoop

Spec == list_init /\ [][Next]_vars /\ WF_vars(ClearLoop)

-----------------------------------------------------------------------------
(* The nodes from list_first to list_end, as far as there are nodes.       *)
Chain == LET met == {i \in 1..Cardinality(Nodes) : Before(i) # NULL}
         IN  [i \in met |-> Before(i)]

Abstract == INSTANCE AbstractList WITH
    elements <- [i \in DOMAIN Chain |-> buffer[Chain[i]]],
    size <- len,
    blocks <- Cardinality(allocated)

\* list.c: whatever is pushed, inserted, erased, looked up and cleared, in
\* any order, an iteration meets the elements of a sequence treated alike,
\* list_size is its length and no block is lost: until list_push_back follows
\* a list_push_front that put the first element in, with no erasure of the
\* last element between them.
SequenceUnlessLost == Abstract!Init /\ [][Abstract!Next \/ end' = "lost"]_(Abstract!vars)

\* And list_clear, until then, comes to its end.
ListSpec == SequenceUnlessLost /\ (Clearing ~> ~Clearing \/ end = "lost")
=============================================================================
