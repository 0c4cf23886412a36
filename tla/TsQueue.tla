------------------------------- MODULE TsQueue ------------------------------
(***************************************************************************)
(* The thread-safe queue (ts_queue.c over queue.c): nodes of the heap in a *)
(* list behind the meta node, changed statement by statement under a       *)
(* mutex, by the clients the program has: producers that push and post a   *)
(* semaphore, consumers that take one element a token (the pool's          *)
(* threads), one checker that asks the size before it takes (do_work) and  *)
(* may clear the queue, and readers that only look; and its destruction    *)
(* once they are all gone.                                                 *)
(***************************************************************************)
EXTENDS Integers, FiniteSets, Sequences

CONSTANTS
    Producers, Consumers, Checkers, Readers,
    Uses,           \* the sets of clients a queue may have
    Elements,       \* what is pushed
    Nodes,          \* bound: the addresses malloc can answer
    Meta, NULL,     \* &q->meta, and the null pointer
    MaxItems,       \* bound: the tokens the semaphore can hold
    AllocFails      \* whether malloc may return NULL

Clients == Producers \cup Consumers \cup Checkers \cup Readers

(* The discipline of the clients.  Nothing in the queue makes up for it: a *)
(* second taker may empty the queue between a checker's size and its top,  *)
(* and a consumer takes a token's word for it that the push succeeded.     *)
ASSUME ClientsAssumption ==
    /\ Uses \subseteq SUBSET Clients
    /\ \A use \in Uses : \/ use \cap Checkers = {}
                         \/ use \cap Consumers = {} /\ \A c, d \in use \cap Checkers : c = d
    /\ Producers \cap (Consumers \cup Checkers) = {}
    /\ IsFiniteSet(Clients) /\ IsFiniteSet(Nodes)
    /\ Meta \notin Nodes /\ NULL \notin Clients \cup Nodes \cup {Meta}
    /\ 0 \notin Elements

VARIABLES
    clients,        \* who uses the queue
    mutex_lock,     \* the client inside, or NULL
    next, buffer,   \* node -> its next, its element
    allocated,      \* the nodes malloc has given and free not taken back
    tail, len,      \* q->tail and q->meta.len; q->head is always &q->meta
    pc, op,         \* client -> where it is, in a call of what
    elem,           \* client -> _n_elem, or _p_elem
    element,        \* client -> the element it pushes, or took
    size, front,    \* client -> what ts_queue_size, ts_queue_front answered
    items           \* the semaphore beside the queue (job_sem, work_sem)

list == <<next, buffer, allocated, tail, len>>
answers == <<element, size, front>>
vars == <<clients, mutex_lock, list, pc, op, elem, answers, items>>

Init ==
    /\ clients \in Uses
    /\ mutex_lock = NULL
    /\ next = [n \in Nodes \cup {Meta} |-> NULL] /\ buffer = [n \in Nodes |-> 0]
    /\ allocated = {}
    /\ tail = Meta /\ len = 0
    /\ pc = [c \in Clients |-> IF c \in clients THEN "idle" ELSE "gone"]
    /\ op = [c \in Clients |-> "none"]
    /\ elem = [c \in Clients |-> NULL]
    /\ element = [c \in Clients |-> 0] /\ size = [c \in Clients |-> 0]
    /\ front = [c \in Clients |-> NULL]
    /\ items = 0

Goto(c, from, to) == pc[c] = from /\ pc' = [pc EXCEPT ![c] = to]

Call(c, from, what) == Goto(c, from, "lock") /\ op' = [op EXCEPT ![c] = what]

-----------------------------------------------------------------------------
(* What the clients do between calls. *)

Pushing == {p \in Producers : pc[p] \notin {"idle", "gone"}}

\* There is room for one more node and one more token (bounds).
Room ==
    /\ Cardinality(allocated) + Cardinality(Pushing) < Cardinality(Nodes)
    /\ items + Cardinality(Pushing) < MaxItems

\* Faulty: posts before it pushes.
PushPosted(p) ==
    /\ Room
    /\ Call(p, "idle", "push")
    /\ \E e \in Elements : element' = [element EXCEPT ![p] = e]
    /\ items' = items + 1
    /\ UNCHANGED <<mutex_lock, list, elem, size, front>>

Push(p) ==
    /\ Room
    /\ Call(p, "idle", "push")
    /\ \E e \in Elements : element' = [element EXCEPT ![p] = e]
    /\ UNCHANGED <<mutex_lock, list, elem, size, front, items>>

Post(p) ==
    /\ Goto(p, "post", "idle")
    /\ items' = items + 1
    /\ UNCHANGED <<mutex_lock, list, op, elem, answers>>

\* work_sem is also posted for jobs that pushed nothing.
PostSpare(p) ==
    /\ clients \cap Checkers # {} /\ Room /\ pc[p] = "idle"
    /\ items' = items + 1
    /\ UNCHANGED <<mutex_lock, list, pc, op, elem, answers>>

Consume(c) ==
    /\ items > 0
    /\ items' = items - 1
    /\ \E what \in {"top", "pop"} : Call(c, "idle", what)
    /\ UNCHANGED <<mutex_lock, list, elem, answers>>

AskSize(c) ==
    /\ items > 0
    /\ items' = items - 1
    /\ Call(c, "idle", "size")
    /\ UNCHANGED <<mutex_lock, list, elem, answers>>

TakeIfAny(c) ==
    /\ IF size[c] > 0 THEN Call(c, "judge", "top")
                      ELSE Goto(c, "judge", "idle") /\ UNCHANGED op
    /\ size' = [size EXCEPT ![c] = 0]
    /\ UNCHANGED <<mutex_lock, list, elem, element, front, items>>

\* The checker empties the queue: tokens that are left find nothing.
ClearAll(c) ==
    /\ Call(c, "idle", "clear")
    /\ UNCHANGED <<mutex_lock, list, elem, answers, items>>

Look(r) ==
    /\ \E what \in {"size", "front"} : Call(r, "idle", what)
    /\ UNCHANGED <<mutex_lock, list, elem, answers, items>>

Leave(c) ==
    /\ Goto(c, "idle", "gone")
    /\ UNCHANGED <<mutex_lock, list, op, elem, answers, items>>

-----------------------------------------------------------------------------
(* The calls, each between _queue_lock and _queue_unlock. *)

Entry(what) ==
    CASE what = "push" -> "malloc"
      [] what = "top"  -> "copy"
      [] what = "pop"  -> "unlink"
      [] what = "clear" -> "more"
      [] OTHER         -> "read"

\* Faulty: another client may be inside.
LockUnasked(c) ==
    /\ Goto(c, "lock", Entry(op[c]))
    /\ mutex_lock' = c
    /\ UNCHANGED <<list, op, elem, answers, items>>

Lock(c) ==
    /\ mutex_lock = NULL
    /\ Goto(c, "lock", Entry(op[c]))
    /\ mutex_lock' = c
    /\ UNCHANGED <<list, op, elem, answers, items>>

Return(c) ==
    CASE op[c] = "push"                     -> "post"
      [] op[c] = "size" /\ c \in Checkers   -> "judge"
      [] OTHER                              -> "idle"

\* The call's variables go out of scope; but a checker looks at its size.
Unlock(c) ==
    /\ Goto(c, "unlock", Return(c))
    /\ mutex_lock' = NULL
    /\ op' = [op EXCEPT ![c] = "none"] /\ elem' = [elem EXCEPT ![c] = NULL]
    /\ element' = [element EXCEPT ![c] = 0] /\ front' = [front EXCEPT ![c] = NULL]
    /\ size' = IF Return(c) = "judge" THEN size ELSE [size EXCEPT ![c] = 0]
    /\ UNCHANGED <<list, items>>

(* queue_push *)

Malloc(c) ==
    /\ Goto(c, "malloc", "link")
    /\ \E n \in Nodes \ allocated :
          /\ allocated' = allocated \cup {n}
          /\ buffer' = [buffer EXCEPT ![n] = element[c]]
          /\ next' = [next EXCEPT ![n] = NULL]
          /\ elem' = [elem EXCEPT ![c] = n]
    /\ UNCHANGED <<mutex_lock, tail, len, op, answers, items>>

MallocFails(c) ==
    /\ AllocFails /\ clients \cap Consumers = {}
    /\ Goto(c, "malloc", "unlock")
    /\ UNCHANGED <<mutex_lock, list, op, elem, answers, items>>

Link(c) ==
    /\ Goto(c, "link", "advance")
    /\ next' = [next EXCEPT ![tail] = elem[c]]
    /\ UNCHANGED <<mutex_lock, buffer, allocated, tail, len, op, elem, answers, items>>

Advance(c) ==
    /\ Goto(c, "advance", "count")
    /\ tail' = next[tail]
    /\ UNCHANGED <<mutex_lock, next, buffer, allocated, len, op, elem, answers, items>>

Count(c) ==
    /\ Goto(c, "count", "unlock")
    /\ len' = len + 1
    /\ UNCHANGED <<mutex_lock, next, buffer, allocated, tail, op, elem, answers, items>>

(* queue_clear's loop *)
More(c) ==
    /\ Goto(c, "more", IF next[Meta] = NULL THEN "unlock" ELSE "unlink")
    /\ UNCHANGED <<mutex_lock, list, op, elem, answers, items>>

(* queue_top and queue_pop: there is nothing at next[Meta] of an empty     *)
(* list to copy or to unlink.                                              *)

Copy(c) ==
    /\ Goto(c, "copy", "unlink")
    /\ next[Meta] # NULL
    /\ element' = [element EXCEPT ![c] = buffer[next[Meta]]]
    /\ UNCHANGED <<mutex_lock, list, op, elem, size, front, items>>

Unlink(c) ==
    /\ Goto(c, "unlink", "free")
    /\ next[Meta] # NULL
    /\ elem' = [elem EXCEPT ![c] = next[Meta]]
    /\ next' = [next EXCEPT ![Meta] = next[next[Meta]]]
    /\ UNCHANGED <<mutex_lock, buffer, allocated, tail, len, op, answers, items>>

Free(c) ==
    /\ Goto(c, "free", "discount")
    /\ allocated' = allocated \ {elem[c]}
    /\ UNCHANGED <<mutex_lock, next, buffer, tail, len, op, elem, answers, items>>

\* queue_pop returns to queue_clear, or with it.
Popped(c) == IF op[c] = "clear" THEN "more" ELSE "unlock"

\* Faulty: tail stays at the node that was freed.
DiscountOnly(c) ==
    /\ Goto(c, "discount", Popped(c))
    /\ len' = len - 1
    /\ UNCHANGED <<mutex_lock, next, buffer, allocated, tail, op, elem, answers, items>>

Discount(c) ==
    /\ Goto(c, "discount", Popped(c))
    /\ len' = len - 1
    /\ tail' = IF len' = 0 THEN Meta ELSE tail
    /\ UNCHANGED <<mutex_lock, next, buffer, allocated, op, elem, answers, items>>

(* queue_size and queue_front: what is an offset from the node's address   *)
(* is not NULL, not even for the node NULL.                                *)

BufferOf(n) == [buffer_of |-> n]

ReadSize(c) ==
    /\ op[c] = "size" /\ Goto(c, "read", "unlock")
    /\ size' = [size EXCEPT ![c] = len]
    /\ UNCHANGED <<mutex_lock, list, op, elem, element, front, items>>

ReadFront(c) ==
    /\ op[c] = "front" /\ Goto(c, "read", "unlock")
    /\ front' = [front EXCEPT ![c] = BufferOf(next[Meta])]
    /\ UNCHANGED <<mutex_lock, list, op, elem, element, size, items>>

-----------------------------------------------------------------------------
(* ts_queue_destroy, when the threads have been joined: queue_clear, one   *)
(* queue_pop at a time, and without the mutex.                             *)

AllGone == \A c \in Clients : pc[c] = "gone"

Clear ==
    /\ AllGone
    /\ next[Meta] # NULL
    /\ allocated' = allocated \ {next[Meta]}
    /\ next' = [next EXCEPT ![Meta] = next[next[Meta]]]
    /\ len' = len - 1
    /\ tail' = IF len' = 0 THEN Meta ELSE tail
    /\ UNCHANGED <<mutex_lock, buffer, pc, op, elem, answers, items>>

Destroyed == AllGone /\ next[Meta] = NULL /\ UNCHANGED vars

-----------------------------------------------------------------------------
Inside(c) ==
    \/ Lock(c) \/ Unlock(c)
    \/ Malloc(c) \/ MallocFails(c) \/ Link(c) \/ Advance(c) \/ Count(c)
    \/ Copy(c) \/ More(c) \/ Unlink(c) \/ Free(c) \/ Discount(c)
    \/ ReadSize(c) \/ ReadFront(c)

Step ==
    \/ \E c \in Clients : Inside(c) \/ Leave(c)
    \/ \E p \in Producers : Push(p) \/ Post(p) \/ PostSpare(p)
    \/ \E c \in Consumers : Consume(c)
    \/ \E c \in Checkers : AskSize(c) \/ TakeIfAny(c) \/ ClearAll(c)
    \/ \E r \in Readers : Look(r)
    \/ Clear \/ Destroyed

Next == Step /\ UNCHANGED clients

Spec == Init /\ [][Next]_vars

-----------------------------------------------------------------------------
(* Properties. *)

\* The variables hold what the code can store in them.
TypeOK ==
    /\ clients \in Uses
    /\ mutex_lock \in Clients \cup {NULL}
    /\ next \in [Nodes \cup {Meta} -> Nodes \cup {NULL}]
    /\ buffer \in [Nodes -> Elements \cup {0}]
    /\ allocated \subseteq Nodes
    /\ tail \in Nodes \cup {Meta}
    /\ len \in Nat /\ items \in Nat
    /\ pc \in [Clients -> {"idle", "gone", "lock", "malloc", "link", "advance", "count",
                           "copy", "more", "unlink", "free", "discount", "read", "unlock",
                           "post", "judge"}]
    /\ op \in [Clients -> {"none", "push", "top", "pop", "clear", "size", "front"}]
    /\ elem \in [Clients -> Nodes \cup {NULL}]
    /\ element \in [Clients -> Elements \cup {0}]
    /\ size \in [Clients -> Nat]
    /\ front \in [Clients -> {NULL} \cup {BufferOf(n) : n \in Nodes \cup {NULL}}]

\* The k-th node behind meta, or NULL past the end of the list.
Nth[k \in Nat] ==
    IF k = 0 THEN Meta
    ELSE IF Nth[k - 1] = NULL THEN NULL ELSE next[Nth[k - 1]]

Length == CHOOSE k \in 0..Cardinality(Nodes) : Nth[k] # NULL /\ Nth[k + 1] = NULL

Contents == [k \in 1..Length |-> buffer[Nth[k]]]

\* queue.c: between calls the list ends at tail, is as long as len says, and
\* consists of the nodes malloc has given: none is lost, and none is free.
Linked ==
    /\ TypeOK
    /\ mutex_lock = NULL =>
        /\ \E k \in 0..Cardinality(Nodes) : Nth[k] # NULL /\ Nth[k + 1] = NULL
        /\ len = Length
        /\ tail = Nth[Length]
        /\ allocated = {Nth[k] : k \in 1..Length}

\* queue.c: a call reads, writes and frees only nodes that are allocated; in
\* particular nobody takes from an empty list, which only the clients'
\* semaphore and ts_queue_size see to.
LiveNodes ==
    \A c \in Clients :
        /\ pc[c] \in {"copy", "unlink"} => next[Meta] \in allocated
        /\ pc[c] \in {"link", "advance"} => tail \in allocated \cup {Meta}
        /\ pc[c] \in {"link", "advance", "count", "free"} => elem[c] \in allocated

\* ts_queue.c: to its clients the queue is Fifo.  A top takes its element when
\* it has copied it.
Taking == \E c \in Clients : pc[c] = "unlink" /\ op[c] = "top"
Promise == INSTANCE Fifo WITH
    fifo <- IF Taking THEN Tail(Contents) ELSE Contents,
    element <- [c \in Clients |-> IF c \in Producers THEN 0 ELSE element[c]]
FifoSpec == Promise!Spec
=============================================================================
