-------------------------------- MODULE Dict --------------------------------
(***************************************************************************)
(* The dictionary of dict.c: an array of buckets, each the head of a chain *)
(* of elements on the heap.  One thread (do_work) inserts, and removes,    *)
(* with no lock, one store a step: the program is built without            *)
(* optimisation, and stores are seen in their order.  The readers are the  *)
(* threads of the pool, whose do_crawler looks its URL up meanwhile.       *)
(***************************************************************************)
EXTENDS Integers, FiniteSets

CONSTANTS
    Keys, Values, Readers,
    Size, hash_func,    \* the number of buckets, and a hash of every key
    Nodes,              \* bound: the addresses malloc can answer
    MaxSize,            \* bound: what a bucket may be counted up to
    AllocFails,         \* whether malloc may return NULL
    NULL, Absent, None, \* no address, no value, no call
    Free, Raw           \* memory that is not allocated, or not written

Buckets == 0..(Size - 1)

\* A bucket_elem_t, and the variables of a call that changes the table or reads it.
Elem == [key : Keys, value : Values, next : Nodes \cup {NULL, Raw}]
WriterCall ==
    [pc : {"malloc", "walk", "free", "fill", "link", "head", "size"},
     key : Keys, value : Values \cup {Absent}, bucket : Buckets,
     elem : Nodes \cup {NULL}, c : Nodes \cup {NULL}, p : Nodes \cup {NULL}]
ReaderCall ==
    [pc : {"walk", "found"}, key : Keys, c : Nodes \cup {NULL}, value : Values \cup {Absent}]

\* Those calls as their callers see them.
Requests == [key : Keys, value : Values \cup {Absent}, done : BOOLEAN]
Replies == [key : Keys, value : Values \cup {Absent}]

\* Addresses are finitely many, and what is named is told apart.
ASSUME DictAssumption ==
    /\ Size \in Nat \ {0} /\ hash_func \in [Keys -> Nat]
    /\ IsFiniteSet(Nodes) /\ NULL \notin Nodes /\ Raw \notin Nodes
    /\ Absent \notin Values
    /\ Free # Raw /\ {Free, Raw} \cap Elem = {} /\ None \notin WriterCall \cup ReaderCall
ASSUME CallsAssumption == None \notin Requests \cup Replies

VARIABLES
    mem,        \* node -> Free, Raw, or the fields of a bucket_elem_t
    table,      \* bucket -> its size and its next
    writer,     \* the call that changes the table, with its variables
    reader,     \* reader -> its call of dict_find
    shared,     \* whether readers look keys up during other calls
    destroyed   \* whether dict_destroy has been called

mode == <<shared, destroyed>>
vars == <<mem, table, writer, reader, mode>>

_dict_index(k) == hash_func[k] % Size

dict_init ==
    /\ mem = [n \in Nodes |-> Free]
    /\ table = [b \in Buckets |-> [size |-> 0, next |-> NULL]]
    /\ writer = None
    /\ reader = [r \in Readers |-> None]
    /\ shared \in BOOLEAN
    /\ destroyed = FALSE

-----------------------------------------------------------------------------
(* Chains, as one would read them at this moment. *)

Filled == {n \in Nodes : mem[n] \notin {Free, Raw}}

\* The i-th address from n along the chain; NULL after its end.
At(n, i) ==
    LET at[j \in Nat] == IF j = 0 THEN n
                         ELSE IF at[j - 1] \in Filled THEN mem[at[j - 1]].next ELSE NULL
    IN  at[i]

Chain(n) == {At(n, i) : i \in 0..Cardinality(Nodes)} \ {NULL}

\* What a walk along the chain from n would find for k.
Lookup(n, k) ==
    IF \E e \in Chain(n) \cap Filled : mem[e].key = k
    THEN mem[CHOOSE e \in Chain(n) \cap Filled : mem[e].key = k].value
    ELSE Absent

Has(k) == Lookup(table[_dict_index(k)].next, k) # Absent

Quiet == writer = None /\ \A r \in Readers : reader[r] = None

-----------------------------------------------------------------------------
(* dict_insert and dict_remove.  elem is the new element; c and p are the  *)
(* _c_elem and _p_elem of _bucket_remove, the first of them kept to tell   *)
(* whether the key was found.                                              *)

Begin(k, v, pc) ==
    /\ ~destroyed /\ writer = None
    /\ shared \/ Quiet
    /\ writer' = [pc |-> pc, key |-> k, value |-> v, bucket |-> _dict_index(k), elem |-> NULL,
                  c |-> IF pc = "walk" THEN table[_dict_index(k)].next ELSE NULL, p |-> NULL]
    /\ UNCHANGED <<mem, table, reader, mode>>

\* The graph inserts a URL once (WebGraph looks it up first).
dict_insert(k, v) ==
    /\ table[_dict_index(k)].size < MaxSize
    /\ shared => ~Has(k)
    /\ Begin(k, v, "malloc")

\* Not called by the crawl.
dict_remove(k) == ~shared /\ Begin(k, Absent, "walk")

Goto(from, to) == writer # None /\ writer.pc = from /\ writer' = [writer EXCEPT !.pc = to]

Malloc ==
    /\ writer # None /\ writer.pc = "malloc"
    /\ \E n \in Nodes :
          /\ mem[n] = Free
          /\ mem' = [mem EXCEPT ![n] = Raw]
          /\ writer' = [writer EXCEPT !.pc = "walk", !.elem = n, !.c = table[writer.bucket].next]
    /\ UNCHANGED <<table, reader, mode>>

MallocFails ==
    /\ AllocFails \/ Free \notin {mem[n] : n \in Nodes}
    /\ writer # None /\ writer.pc = "malloc"
    /\ writer' = None
    /\ UNCHANGED <<mem, table, reader, mode>>

(* _bucket_remove *)

Found == mem[writer.c].key = writer.key

WalkOn ==
    /\ writer # None /\ writer.pc = "walk"
    /\ writer.c # NULL /\ ~Found
    /\ writer' = [writer EXCEPT !.p = writer.c, !.c = mem[writer.c].next]
    /\ UNCHANGED <<mem, table, reader, mode>>

\* Faulty: takes the first element of the chain out whichever it found.
UnlinkFirst ==
    /\ Goto("walk", "free")
    /\ writer.c # NULL /\ Found
    /\ table' = [table EXCEPT ![writer.bucket].next = mem[writer.c].next]
    /\ UNCHANGED <<mem, reader, mode>>

\* Faulty: the first element is not told from the others.
UnlinkFromPrevious ==
    /\ Goto("walk", "free")
    /\ writer.c # NULL /\ Found
    /\ mem' = IF writer.p = NULL THEN mem ELSE [mem EXCEPT ![writer.p].next = mem[writer.c].next]
    /\ UNCHANGED <<table, reader, mode>>

Unlink ==
    /\ Goto("walk", "free")
    /\ writer.c # NULL /\ Found
    /\ IF writer.c = table[writer.bucket].next
       THEN table' = [table EXCEPT ![writer.bucket].next = mem[writer.c].next] /\ UNCHANGED mem
       ELSE mem' = [mem EXCEPT ![writer.p].next = mem[writer.c].next] /\ UNCHANGED table
    /\ UNCHANGED <<reader, mode>>

\* The bucket's size is not lowered.
Unlinked ==
    /\ writer # None /\ writer.pc = "free"
    /\ mem' = [mem EXCEPT ![writer.c] = Free]
    /\ writer' = IF writer.value = Absent THEN None ELSE [writer EXCEPT !.pc = "fill"]
    /\ UNCHANGED <<table, reader, mode>>

NotThere ==
    /\ writer # None /\ writer.pc = "walk" /\ writer.c = NULL
    /\ writer' = IF writer.value = Absent THEN None ELSE [writer EXCEPT !.pc = "fill"]
    /\ UNCHANGED <<mem, table, reader, mode>>

(* the rest of _bucket_insert *)

\* Nobody else has the address of the element yet.
Fill ==
    /\ Goto("fill", "link")
    /\ mem' = [mem EXCEPT ![writer.elem] = [key |-> writer.key, value |-> writer.value, next |-> Raw]]
    /\ UNCHANGED <<table, reader, mode>>

\* Faulty: the element is put at the head first, and linked to the chain after.
LinkPublished ==
    /\ Goto("link", "head")
    /\ table' = [table EXCEPT ![writer.bucket].next = writer.elem]
    /\ UNCHANGED <<mem, reader, mode>>

Link ==
    /\ Goto("link", "head")
    /\ mem' = [mem EXCEPT ![writer.elem].next = table[writer.bucket].next]
    /\ UNCHANGED <<table, reader, mode>>

Publish ==
    /\ Goto("head", "size")
    /\ table' = [table EXCEPT ![writer.bucket].next = writer.elem]
    /\ UNCHANGED <<mem, reader, mode>>

\* Faulty: the bucket is not counted up.
CountForgotten ==
    /\ writer # None /\ writer.pc = "size"
    /\ writer' = None
    /\ UNCHANGED <<mem, table, reader, mode>>

Count ==
    /\ writer # None /\ writer.pc = "size"
    /\ table' = [table EXCEPT ![writer.bucket].size = @ + 1]
    /\ writer' = None
    /\ UNCHANGED <<mem, reader, mode>>

Write ==
    \/ \E k \in Keys : dict_remove(k) \/ \E v \in Values : dict_insert(k, v)
    \/ Malloc \/ MallocFails
    \/ WalkOn \/ Unlink \/ Unlinked \/ NotThere
    \/ Fill \/ Link \/ Publish \/ Count

-----------------------------------------------------------------------------
(* dict_find *)

\* Reads bucket->next, and is at the first element of the chain.
dict_find(r, k) ==
    /\ ~destroyed
    /\ reader[r] = None /\ (shared \/ Quiet)
    /\ reader' = [reader EXCEPT ![r] =
                    [pc |-> "walk", key |-> k, c |-> table[_dict_index(k)].next, value |-> Absent]]
    /\ UNCHANGED <<mem, table, writer, mode>>

Hit(r) == mem[reader[r].c].key = reader[r].key

_bucket_find(r) ==
    /\ reader[r] # None /\ reader[r].pc = "walk"
    /\ reader[r].c = NULL \/ reader[r].c \in Filled
    /\ IF reader[r].c = NULL
       THEN reader' = [reader EXCEPT ![r].pc = "found"]
       ELSE IF Hit(r)
            THEN reader' = [reader EXCEPT ![r].pc = "found", ![r].value = mem[reader[r].c].value]
            ELSE reader' = [reader EXCEPT ![r].c = mem[reader[r].c].next]
    /\ UNCHANGED <<mem, table, writer, mode>>

FindReturns(r) ==
    /\ reader[r] # None /\ reader[r].pc = "found"
    /\ reader' = [reader EXCEPT ![r] = None]
    /\ UNCHANGED <<mem, table, writer, mode>>

Read(r) == (\E k \in Keys : dict_find(r, k)) \/ _bucket_find(r) \/ FindReturns(r)

-----------------------------------------------------------------------------
(* dict_destroy, when the other threads have been joined. *)

dict_destroy ==
    /\ Quiet /\ ~destroyed
    /\ destroyed' = TRUE
    /\ UNCHANGED <<mem, table, writer, reader, shared>>

\* A round of its inner loop, bucket after bucket: the bucket counts down along with its chain.
FreeFirst(b) ==
    /\ destroyed
    /\ table[b].next # NULL /\ table[b].size > 0
    /\ \A d \in 0..(b - 1) : table[d].next = NULL \/ table[d].size = 0
    /\ table' = [table EXCEPT ![b] = [size |-> @.size - 1, next |-> mem[@.next].next]]
    /\ mem' = [mem EXCEPT ![table[b].next] = Free]
    /\ UNCHANGED <<writer, reader, mode>>

Emptied == destroyed /\ \A b \in Buckets : table[b].next = NULL \/ table[b].size = 0

Done == Emptied /\ UNCHANGED vars

Next ==
    \/ Write
    \/ \E r \in Readers : Read(r)
    \/ dict_destroy \/ \E b \in Buckets : FreeFirst(b)
    \/ Done

Spec == dict_init /\ [][Next]_vars

-----------------------------------------------------------------------------
(* The fields of the table, the elements and the calls have their types.   *)
TypeOK ==
    /\ mem \in [Nodes -> Elem \cup {Free, Raw}]
    /\ table \in [Buckets -> [size : Nat, next : Nodes \cup {NULL}]]
    /\ writer \in WriterCall \cup {None}
    /\ reader \in [Readers -> ReaderCall \cup {None}]
    /\ shared \in BOOLEAN /\ destroyed \in BOOLEAN

Ends(n) == At(n, Cardinality(Nodes)) = NULL /\ Chain(n) \subseteq Filled

(* At every moment, in the middle of a call too, each bucket's chain is    *)
(* one that can be walked to its end, over elements that are allocated and *)
(* filled in, that belong to the bucket, and whose keys differ.            *)
ChainsSound ==
    /\ TypeOK
    /\ \A b \in Buckets :
        /\ Ends(table[b].next)
        /\ \A m, n \in Chain(table[b].next) :
              /\ _dict_index(mem[n].key) = b
              /\ mem[m].key = mem[n].key => m = n

(* do_crawler's unsynchronised find_vertex (worker.c:156) never stands on  *)
(* an element that was freed or is not written yet, and its walk ends,     *)
(* whatever do_work inserts meanwhile.                                     *)
NoStrayRead ==
    \A r \in Readers : reader[r] # None /\ reader[r].pc = "walk" => Ends(reader[r].c)

(* Every element that is allocated is in a chain or in the hands of a call *)
(* that goes on; so nothing is left when dict_destroy is through, although *)
(* it stops at a size of 0 and _bucket_remove does not keep the size.      *)
NothingLost ==
    /\ \A n \in Nodes : mem[n] # Free =>
          \/ \E b \in Buckets : n \in Chain(table[b].next)
          \/ writer # None /\ (n = writer.elem \/ (n = writer.c /\ writer.pc = "free"))
    /\ Emptied => \A n \in Nodes : mem[n] = Free

(* The table is a function from keys to values.  An insertion changes it   *)
(* when its element is at the head, or, replacing one, when the old is     *)
(* taken out; a look-up is settled when it has read the head.              *)
Replaced == writer # None /\ writer.value # Absent /\ writer.c # NULL
            /\ writer.pc \in {"free", "fill", "link", "head"}

Content ==
    [k \in Keys |-> CASE destroyed -> Absent
                      [] ~destroyed /\ Replaced /\ k = writer.key -> writer.value
                      [] OTHER -> Lookup(table[_dict_index(k)].next, k)]

Request ==
    IF writer = None THEN None
    ELSE [key |-> writer.key, value |-> writer.value,
          done |-> Replaced \/ writer.pc = "size" \/ (writer.value = Absent /\ writer.pc = "free")]

Answer(r) ==
    IF reader[r] = None THEN None
    ELSE [key |-> reader[r].key,
          value |-> IF reader[r].pc = "found" THEN reader[r].value
                    ELSE Lookup(reader[r].c, reader[r].key)]

KV == INSTANCE KeyValue
        WITH content <- Content, request <- Request, answer <- [r \in Readers |-> Answer(r)]

(* dict.c implements KeyValue: a look-up finds a key that was there when   *)
(* it began, never half an element, and replacing is one change.           *)
KeyValueSpec == KV!Spec
=============================================================================
