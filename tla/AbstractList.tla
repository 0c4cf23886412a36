---------------------------- MODULE AbstractList ----------------------------
(***************************************************************************)
(* What a list of list.h is to its users: a sequence that elements are put *)
(* into, taken out of and looked up at any index (from 0), that knows its  *)
(* length, holds one block of memory for each element, and that can be     *)
(* emptied.                                                                *)
(***************************************************************************)
EXTENDS Integers, Sequences, SequencesExt

CONSTANTS
    Elements,
    Nothing     \* the answer where no element is

VARIABLES
    elements,   \* what an iteration from list_first to list_end meets
    size,       \* list_size
    blocks,     \* the blocks it holds
    called      \* the last call, with the index and the element it was about

vars == <<elements, size, blocks, called>>

Init == elements = <<>> /\ size = 0 /\ blocks = 0 /\ called = <<"init">>

Becomes(s) == elements' = s /\ size' = Len(s) /\ blocks' = Len(s)

Clearing == called = <<"clear">>

Insert(index, e) ==
    /\ called' = <<"insert", index, e>>
    /\ Becomes(InsertAt(elements, index + 1, e))

Erase(index) ==
    /\ called' = <<"erase", index>>
    /\ Becomes(RemoveAt(elements, index + 1))

IndexOf(index) ==
    /\ called' = <<"index_of", index,
                   IF index < Len(elements) THEN elements[index + 1] ELSE Nothing>>
    /\ UNCHANGED <<elements, size, blocks>>

Clear == called' = <<"clear">> /\ UNCHANGED <<elements, size, blocks>>

ClearFirst == elements # <<>> /\ Becomes(Tail(elements)) /\ UNCHANGED called

Cleared == elements = <<>> /\ called' = <<"cleared">> /\ UNCHANGED <<elements, size, blocks>>

Next ==
    \/ /\ ~Clearing
       /\ \/ \E index \in 0..Len(elements), e \in Elements : Insert(index, e)
          \/ \E index \in 0..(Len(elements) - 1) : Erase(index)
          \/ \E index \in 0..Len(elements) : IndexOf(index)
          \/ Clear
    \/ Clearing /\ (ClearFirst \/ Cleared)

Spec == Init /\ [][Next]_vars
=============================================================================
