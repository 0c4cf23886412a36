--------------------------- MODULE TsQueueProofs ---------------------------
(***************************************************************************)
(* What TLAPS proves of TsQueue, for any clients that keep the discipline, *)
(* any elements and any memory: the calls exclude each other, between them *)
(* the list is whole, no call touches a node that is not allocated, and    *)
(* what the clients see is a Fifo.                                         *)
(***************************************************************************)
EXTENDS TsQueue, SequenceTheorems, FiniteSetTheorems, WellFoundedInduction, TLAPS

USE DEF list, answers

-----------------------------------------------------------------------------
(* Where a client can be, and who is inside. *)

InCall ==
    {"malloc", "link", "advance", "count", "copy", "more", "unlink", "free", "discount", "read",
     "unlock"}

\* The mutex is held by the client inside a call, and by nobody else.
Exclusive == \A c \in Clients : mutex_lock = c <=> pc[c] \in InCall

\* Each client makes the calls it may make, and is where such a call goes.
Disciplined ==
    \A c \in Clients :
        /\ pc[c] \in {"idle", "gone", "post", "judge"} <=> op[c] = "none"
        /\ pc[c] \in {"malloc", "link", "advance", "count"} => op[c] = "push"
        /\ pc[c] = "copy" => op[c] = "top"
        /\ pc[c] \in {"unlink", "free", "discount"} => op[c] \in {"top", "pop", "clear"}
        /\ pc[c] = "more" => op[c] = "clear"
        /\ pc[c] = "read" => op[c] \in {"size", "front"}
        /\ pc[c] # "gone" => c \in clients
        /\ op[c] = "push" \/ pc[c] = "post" => c \in Producers
        /\ op[c] \in {"top", "pop"} => c \in Consumers \cup Checkers
        /\ op[c] = "clear" \/ pc[c] = "judge" => c \in Checkers

\* What a client holds belongs to the call it is in.
OwnAnswers ==
    \A c \in Clients :
        /\ op[c] = "push" => element[c] \in Elements
        /\ element[c] # 0 => op[c] \in {"push", "top"}
        /\ size[c] > 0 => pc[c] = "judge" \/ (pc[c] = "unlock" /\ op[c] = "size")

Control == Exclusive /\ Disciplined /\ OwnAnswers

-----------------------------------------------------------------------------
(* The list. *)

EndOf(s) == IF s = <<>> THEN Meta ELSE s[Len(s)]

\* The nodes behind meta are those of s, in its order.
ChainOf(s) ==
    /\ s \in Seq(Nodes)
    /\ \A i, j \in 1..Len(s) : s[i] = s[j] => i = j
    /\ next[Meta] = IF s = <<>> THEN NULL ELSE s[1]
    /\ \A i \in 1..Len(s) : next[s[i]] = IF i = Len(s) THEN NULL ELSE s[i + 1]

\* What len, tail and the nodes allocated are when the client inside is at l
\* with the node n.  A tail behind an empty list is a node on its way out.
Row(l, n, s) ==
    /\ allocated = Range(s) \cup IF l \in {"link", "free"} THEN {n} ELSE {}
    /\ len = CASE l \in {"advance", "count"} -> Len(s) - 1
               [] l \in {"free", "discount"} -> Len(s) + 1
               [] OTHER -> Len(s)
    /\ l \in {"link", "free"} => n \in Nodes \ Range(s)
    /\ l = "link" => next[n] = NULL
    /\ l \in {"advance", "count"} => s # <<>> /\ n = EndOf(s)
    /\ l = "advance" => tail = IF Len(s) = 1 THEN Meta ELSE s[Len(s) - 1]
    /\ l # "advance" => tail = EndOf(s) \/ (l \in {"free", "discount"} /\ s = <<>>)

\* The list, whoever is inside.
Shape(s) ==
    /\ ChainOf(s)
    /\ mutex_lock = NULL => Row("unlock", NULL, s)
    /\ \A c \in Clients : pc[c] \in InCall => Row(pc[c], elem[c], s)

\* The node to be linked holds the element pushed.
Filled == \A c \in Clients : pc[c] = "link" => buffer[elem[c]] = element[c]

-----------------------------------------------------------------------------
(* Who takes finds something. *)

\* The clients that have what they need to take an element.
Takers ==
    {c \in Clients : pc[c] = "copy" \/ (pc[c] \in {"lock", "unlink"} /\ op[c] \in {"top", "pop"})}

\* The producers that have linked an element and not yet posted for it.
Unposted ==
    {c \in Clients : pc[c] \in {"advance", "count", "post"} \/ (pc[c] = "unlock" /\ op[c] = "push")}

\* An element is spoken for by its taker, or by its producer until it posts.
Owed == Takers \cup Unposted

\* With consumers, each token, and each that has been taken, is for an element.
TokensFor(s) ==
    clients \cap Consumers # {} /\ ~AllGone => items + Cardinality(Owed) <= Len(s)

\* A checker takes, and goes to take, what nobody else does.
CheckedFor(s) ==
    \A c \in Clients \cap Checkers : size[c] > 0 \/ c \in Takers => s # <<>>

\* queue_clear pops what it saw.
ClearingFor(s) == \A c \in Clients : pc[c] = "unlink" => s # <<>>

QueueInv(s) == Shape(s) /\ Filled /\ TokensFor(s) /\ CheckedFor(s) /\ ClearingFor(s)

Inv == TypeOK /\ Control /\ \E s \in Seq(Nodes) : QueueInv(s)

-----------------------------------------------------------------------------
(* The discipline. *)

\* The types of what a client changes at its own index.
LEMMA ClientTypes ==
    ASSUME TypeOK
    PROVE  /\ DOMAIN pc = Clients /\ DOMAIN op = Clients /\ DOMAIN elem = Clients
           /\ DOMAIN element = Clients /\ DOMAIN size = Clients /\ DOMAIN front = Clients
  BY DEF TypeOK

\* A step of one client leaves the others where they are.
LEMMA GotoMoves ==
    ASSUME TypeOK, NEW c \in Clients, NEW from, NEW to, Goto(c, from, to)
    PROVE  /\ pc[c] = from /\ pc'[c] = to
           /\ \A d \in Clients : d # c => pc'[d] = pc[d]
           /\ DOMAIN pc' = Clients
  BY DEF TypeOK, Goto

\* All clients start between calls, with nothing.
LEMMA ControlInit == Init => Control
  <1> SUFFICES ASSUME Init PROVE Control
    OBVIOUS
  <1>1. \A c \in Clients : /\ pc[c] = IF c \in clients THEN "idle" ELSE "gone"
                           /\ op[c] = "none" /\ element[c] = 0 /\ size[c] = 0
    BY DEF Init
  <1>2. \A c \in Clients : mutex_lock # c
    BY ClientsAssumption DEF Init
  <1> QED  BY <1>1, <1>2 DEF Control, Exclusive, Disciplined, OwnAnswers, InCall

\* What a client does between its calls, the calls it begins included.
Outside ==
    \/ \E p \in Producers : Push(p) \/ Post(p) \/ PostSpare(p)
    \/ \E c \in Consumers : Consume(c)
    \/ \E c \in Checkers : AskSize(c) \/ TakeIfAny(c) \/ ClearAll(c)
    \/ \E r \in Readers : Look(r)
    \/ \E c \in Clients : Leave(c)

\* None of it is inside a call.
LEMMA ControlOutside ==
    ASSUME TypeOK, Control, UNCHANGED clients, Outside
    PROVE  Control'
  <1> USE DEF Control, InCall
  <1>1. ASSUME NEW c \in Clients, NEW from \in {"idle", "judge", "post"}, NEW to \in {"idle", "lock", "gone"},
               Goto(c, from, to), mutex_lock' = mutex_lock
        PROVE  Exclusive'
    BY <1>1, GotoMoves DEF Exclusive
  <1>2. ASSUME NEW p \in Producers, Push(p) \/ Post(p) \/ PostSpare(p)
        PROVE  Control'
    <2>1. p \in Clients
      BY DEF Clients
    <2>2. CASE Push(p)
      <3>1. /\ Goto(p, "idle", "lock") /\ op' = [op EXCEPT ![p] = "push"]
            /\ UNCHANGED <<mutex_lock, size>>
        BY <2>2 DEF Push, Call
      <3>2. PICK e \in Elements : element' = [element EXCEPT ![p] = e]
        BY <2>2 DEF Push
      <3>3. Exclusive'
        BY <1>1, <2>1, <3>1
      <3>4. Disciplined' /\ OwnAnswers'
        BY <2>1, <3>1, <3>2, GotoMoves, ClientTypes DEF Disciplined, OwnAnswers
      <3> QED  BY <3>3, <3>4
    <2>3. CASE Post(p)
      BY <1>1, <2>1, <2>3, GotoMoves DEF Post, Disciplined, OwnAnswers
    <2>4. CASE PostSpare(p)
      BY <2>4 DEF PostSpare, Exclusive, Disciplined, OwnAnswers
    <2> QED  BY <1>2, <2>2, <2>3, <2>4
  <1>3. ASSUME NEW c \in Clients, NEW from \in {"idle", "judge"},
               NEW what \in {"top", "pop", "clear", "size", "front"}, Call(c, from, what),
               what \in {"top", "pop"} => c \in Consumers \cup Checkers,
               what = "clear" => c \in Checkers,
               UNCHANGED <<mutex_lock, element>>,
               size' = size \/ size' = [size EXCEPT ![c] = 0], from = "judge" => size'[c] = 0
        PROVE  Control'
    <2>1. Goto(c, from, "lock") /\ op' = [op EXCEPT ![c] = what]
      BY <1>3 DEF Call
    <2>2. Exclusive'
      BY <1>1, <1>3, <2>1
    <2>3. Disciplined'
      BY <1>3, <2>1, GotoMoves, ClientTypes DEF Disciplined
    <2>4. OwnAnswers'
      BY <1>3, <2>1, GotoMoves, ClientTypes DEF Disciplined, OwnAnswers
    <2> QED  BY <2>2, <2>3, <2>4
  <1>4. ASSUME NEW c \in Consumers, Consume(c)
        PROVE  Control'
    BY <1>3, <1>4 DEF Consume, Clients
  <1>5. ASSUME NEW c \in Checkers, AskSize(c) \/ TakeIfAny(c) \/ ClearAll(c)
        PROVE  Control'
    <2>1. c \in Clients
      BY DEF Clients
    <2>2. CASE AskSize(c) \/ ClearAll(c)
      BY <1>3, <2>1, <2>2 DEF AskSize, ClearAll
    <2>3. CASE TakeIfAny(c) /\ size[c] > 0
      BY <1>3, <2>1, <2>3, ClientTypes DEF TakeIfAny
    <2>4. CASE TakeIfAny(c) /\ ~(size[c] > 0)
      <3>1. Goto(c, "judge", "idle") /\ UNCHANGED <<op, mutex_lock, element>> /\ size' = [size EXCEPT ![c] = 0]
        BY <2>4 DEF TakeIfAny
      <3>2. Exclusive'
        BY <1>1, <2>1, <3>1
      <3> QED  BY <2>1, <3>1, <3>2, GotoMoves, ClientTypes DEF Disciplined, OwnAnswers
    <2> QED  BY <1>5, <2>2, <2>3, <2>4
  <1>6. ASSUME NEW r \in Readers, Look(r)
        PROVE  Control'
    BY <1>3, <1>6 DEF Look, Clients
  <1>7. ASSUME NEW c \in Clients, Leave(c)
        PROVE  Control'
    BY <1>1, <1>7, GotoMoves DEF Leave, Disciplined, OwnAnswers
  <1> QED  BY <1>2, <1>4, <1>5, <1>6, <1>7 DEF Outside

\* From call to call: nobody enters while somebody is inside.
LEMMA ControlLock ==
    ASSUME TypeOK, Control, UNCHANGED clients, NEW c \in Clients, Lock(c)
    PROVE  Control'
  <1> USE DEF Control, InCall
  <1>1. /\ mutex_lock = NULL /\ mutex_lock' = c
        /\ Goto(c, "lock", Entry(op[c])) /\ UNCHANGED <<op, element, size>>
    BY DEF Lock
  <1>2. /\ op[c] = "push" => Entry(op[c]) = "malloc"
        /\ op[c] = "top" => Entry(op[c]) = "copy"
        /\ op[c] = "pop" => Entry(op[c]) = "unlink"
        /\ op[c] = "clear" => Entry(op[c]) = "more"
        /\ op[c] \notin {"push", "top", "pop", "clear"} => Entry(op[c]) = "read"
    BY DEF Entry
  <1>3. op[c] \in {"push", "top", "pop", "clear", "size", "front"}
    BY <1>1, GotoMoves DEF Disciplined, TypeOK
  <1>4. \A d \in Clients : pc[d] \notin InCall
    BY <1>1, ClientsAssumption DEF Exclusive
  <1> HIDE DEF InCall
  <1>5. Entry(op[c]) \in InCall
    BY <1>2, <1>3 DEF InCall
  <1>6. Exclusive'
    BY <1>1, <1>4, <1>5, GotoMoves DEF Exclusive
  <1>7. Disciplined'
    BY <1>1, <1>2, <1>3, GotoMoves DEF Disciplined
  <1>8. OwnAnswers'
    <2>1. pc[c] = "lock" /\ \A d \in Clients : d # c => pc'[d] = pc[d]
      BY <1>1, GotoMoves
    <2> QED  BY <1>1, <2>1 DEF OwnAnswers
  <1> QED  BY <1>6, <1>7, <1>8

\* Leaving, a client gives up the mutex and what it holds, except for a
\* checker its size.
LEMMA ControlUnlock ==
    ASSUME TypeOK, Control, UNCHANGED clients, NEW c \in Clients, Unlock(c)
    PROVE  Control'
  <1> USE DEF Control
  <1>1. /\ Goto(c, "unlock", Return(c)) /\ mutex_lock' = NULL
        /\ op' = [op EXCEPT ![c] = "none"] /\ element' = [element EXCEPT ![c] = 0]
        /\ size' = IF Return(c) = "judge" THEN size ELSE [size EXCEPT ![c] = 0]
    BY DEF Unlock
  <1>2. /\ op[c] = "push" => Return(c) = "post"
        /\ op[c] = "size" /\ c \in Checkers => Return(c) = "judge"
        /\ op[c] # "push" /\ ~(op[c] = "size" /\ c \in Checkers) => Return(c) = "idle"
    BY DEF Return
  <1>3. mutex_lock = c /\ \A d \in Clients : d # c => pc[d] \notin InCall
    BY <1>1, GotoMoves DEF Exclusive, InCall
  <1>4. Exclusive'
    BY <1>1, <1>2, <1>3, GotoMoves, ClientsAssumption DEF Exclusive, InCall
  <1>5. Disciplined'
    BY <1>1, <1>2, GotoMoves, ClientTypes DEF Disciplined
  <1>6. OwnAnswers'
    BY <1>1, <1>2, GotoMoves, ClientTypes DEF OwnAnswers, Disciplined
  <1> QED  BY <1>4, <1>5, <1>6

\* The steps inside a call, after which the client is still inside.
Working(c) ==
    \/ Malloc(c) \/ MallocFails(c) \/ Link(c) \/ Advance(c) \/ Count(c)
    \/ Copy(c) \/ More(c) \/ Unlink(c) \/ Free(c) \/ Discount(c)
    \/ ReadSize(c) \/ ReadFront(c)

\* Inside, it goes on with its call.
LEMMA ControlWorking ==
    ASSUME TypeOK, Control, UNCHANGED clients, NEW c \in Clients, Working(c)
    PROVE  Control'
  <1> USE DEF Control
  <1>1. /\ pc[c] \in InCall \ {"unlock"} /\ pc'[c] \in InCall
        /\ \A d \in Clients : d # c => pc'[d] = pc[d]
        /\ UNCHANGED <<mutex_lock, op>>
    BY GotoMoves DEF Working, Malloc, MallocFails, Link, Advance, Count, Copy, More, Unlink, Free, Discount,
       Popped, ReadSize, ReadFront, InCall
  <1>2. Exclusive'
    BY <1>1 DEF Exclusive
  <1>3. Disciplined'
    <2>1. Disciplined /\ op' = op /\ clients' = clients
      BY <1>1
    <2>2. /\ pc[c] = "malloc" => pc'[c] \in {"link", "unlock"}
          /\ pc[c] = "link" => pc'[c] = "advance"
          /\ pc[c] = "advance" => pc'[c] = "count"
          /\ pc[c] = "copy" => pc'[c] = "unlink"
          /\ pc[c] = "more" => pc'[c] \in {"unlock", "unlink"}
          /\ pc[c] = "unlink" => pc'[c] = "free"
          /\ pc[c] = "free" => pc'[c] = "discount"
          /\ pc[c] = "discount" => pc'[c] \in {"more", "unlock"} /\ (pc'[c] = "more" => op[c] = "clear")
          /\ pc[c] \in {"count", "read"} => pc'[c] = "unlock"
      BY GotoMoves DEF Working, Malloc, MallocFails, Link, Advance, Count, Copy, More, Unlink, Free, Discount,
         Popped, ReadSize, ReadFront
    <2> QED  BY <1>1, <2>1, <2>2 DEF Disciplined, InCall
  <1>4. OwnAnswers'
    <2>1. CASE ~Copy(c) /\ ~ReadSize(c)
      <3>1. UNCHANGED <<element, size>>
        BY <2>1 DEF Working, Malloc, MallocFails, Link, Advance, Count, More, Unlink, Free, Discount, ReadFront
      <3> QED  BY <1>1, <3>1 DEF OwnAnswers, InCall
    <2>2. CASE Copy(c)
      <3>1. /\ pc[c] = "copy" /\ op[c] = "top" /\ size' = size
            /\ \A d \in Clients : d # c => element'[d] = element[d]
        BY <2>2, GotoMoves DEF Copy, Disciplined
      <3> QED  BY <1>1, <3>1 DEF OwnAnswers
    <2>3. CASE ReadSize(c)
      <3>1. /\ pc'[c] = "unlock" /\ op[c] = "size" /\ element' = element
            /\ \A d \in Clients : d # c => size'[d] = size[d]
        BY <2>3, GotoMoves DEF ReadSize
      <3> QED  BY <1>1, <3>1 DEF OwnAnswers
    <2> QED  BY <2>1, <2>2, <2>3
  <1> QED  BY <1>2, <1>3, <1>4

\* The discipline is kept by every step.
LEMMA ControlStep == TypeOK /\ Control /\ [Next]_vars => Control'
  <1> SUFFICES ASSUME TypeOK, Control, [Next]_vars PROVE Control'
    OBVIOUS
  <1>1. CASE Clear \/ UNCHANGED vars
    BY <1>1 DEF Clear, vars, Control, Exclusive, Disciplined, OwnAnswers, Next
  <1>2. ASSUME NEW c \in Clients, Inside(c), UNCHANGED clients
        PROVE  Control'
    BY <1>2, ControlLock, ControlUnlock, ControlWorking DEF Inside, Working
  <1> QED  BY <1>1, <1>2, ControlOutside DEF Next, Step, Destroyed, Outside

-----------------------------------------------------------------------------
(* The chain of nodes. *)

\* The numbers that the steps at the end of a list count with.
LEMMA LastIndexes ==
    ASSUME NEW k \in Nat, k # 0
    PROVE  /\ 1 \in 1..k /\ k \in 1..k
           /\ k # 1 => k - 1 \in 1..k /\ k - 1 # k /\ (k - 1) + 1 \in 1..k /\ (k - 1) + 1 = k /\ 1 \in 1..(k - 1)
  <1>1. 1 \in 1..k /\ k \in 1..k
    OBVIOUS
  <1>2. ASSUME k # 1
        PROVE  k - 1 \in 1..k /\ k - 1 # k /\ (k - 1) + 1 = k /\ 1 \in 1..(k - 1)
    BY <1>2
  <1> QED  BY <1>1, <1>2

\* The ends of a chain.
LEMMA ChainEnds ==
    ASSUME TypeOK, NEW s, ChainOf(s)
    PROVE  /\ s \in Seq(Nodes) /\ Len(s) \in Nat /\ DOMAIN s = 1..Len(s)
           /\ \A i \in 1..Len(s) : s[i] \in Nodes /\ s[i] \in Range(s)
           /\ Range(s) \subseteq Nodes
           /\ s = <<>> <=> Len(s) = 0
           /\ s = <<>> <=> next[Meta] = NULL
           /\ s # <<>> => /\ next[Meta] = s[1] /\ s[1] \in Nodes
                          /\ EndOf(s) = s[Len(s)] /\ EndOf(s) \in Nodes
           /\ s = <<>> => EndOf(s) = Meta /\ Range(s) = {}
           /\ Meta \notin Range(s) /\ NULL \notin Range(s)
  <1>1. s \in Seq(Nodes)
    BY DEF ChainOf
  <1>2. Len(s) \in Nat /\ DOMAIN s = 1..Len(s) /\ (s = <<>> <=> Len(s) = 0)
    BY <1>1, LenProperties, EmptySeq
  <1>3. \A i \in 1..Len(s) : s[i] \in Nodes /\ s[i] \in Range(s)
    BY <1>1, <1>2, ElementOfSeq DEF Range
  <1>4. Range(s) \subseteq Nodes
    BY <1>2, <1>3 DEF Range
  <1>5. s # <<>> => 1 \in 1..Len(s) /\ Len(s) \in 1..Len(s)
    BY <1>2
  <1>6. s = <<>> => Range(s) = {}
    BY <1>2 DEF Range
  <1>7. Meta \notin Nodes /\ NULL \notin Nodes
    BY ClientsAssumption
  <1>8. s # <<>> => /\ next[Meta] = s[1] /\ s[1] \in Nodes /\ next[Meta] # NULL
                    /\ EndOf(s) = s[Len(s)] /\ EndOf(s) \in Nodes
    BY <1>3, <1>5, <1>7 DEF ChainOf, EndOf
  <1>9. s = <<>> => next[Meta] = NULL /\ EndOf(s) = Meta
    BY DEF ChainOf, EndOf
  <1>10. Meta \notin Range(s) /\ NULL \notin Range(s)
    BY <1>4, <1>7
  <1> QED  BY <1>1, <1>2, <1>3, <1>4, <1>6, <1>8, <1>9, <1>10

\* A change of pointers that are not the chain's.
LEMMA ChainSame ==
    ASSUME TypeOK, NEW s, ChainOf(s), \A n \in Range(s) \cup {Meta} : next'[n] = next[n]
    PROVE  ChainOf(s)'
  BY ChainEnds DEF ChainOf

\* A node linked behind the last one is the last.
LEMMA ChainLink ==
    ASSUME TypeOK, NEW s, ChainOf(s), NEW n \in Nodes \ Range(s), next[n] = NULL,
           next' = [next EXCEPT ![EndOf(s)] = n]
    PROVE  /\ ChainOf(Append(s, n))'
           /\ Len(Append(s, n)) = Len(s) + 1 /\ Append(s, n) # <<>>
           /\ EndOf(Append(s, n)) = n
           /\ \A i \in 1..Len(s) : Append(s, n)[i] = s[i]
           /\ Range(Append(s, n)) = Range(s) \cup {n}
  <1> DEFINE t == Append(s, n)
  <1>1. /\ s \in Seq(Nodes) /\ Len(s) \in Nat
        /\ \A i \in 1..Len(s) : s[i] \in Nodes /\ s[i] \in Range(s)
        /\ s = <<>> <=> Len(s) = 0
        /\ s # <<>> => EndOf(s) = s[Len(s)]
        /\ s = <<>> => EndOf(s) = Meta
        /\ EndOf(s) \in Nodes \cup {Meta}
        /\ Meta \notin Nodes
    BY ChainEnds, ClientsAssumption
  <1>2. /\ t \in Seq(Nodes) /\ Len(t) = Len(s) + 1
        /\ \A i \in 1..Len(s) : t[i] = s[i]
        /\ t[Len(s) + 1] = n
    BY <1>1, AppendProperties
  <1>3. \A m \in Nodes \cup {Meta} : next'[m] = IF m = EndOf(s) THEN n ELSE next[m]
    BY <1>1 DEF TypeOK
  <1>4. t # <<>> /\ EndOf(t) = n
    BY <1>1, <1>2, EmptySeq DEF EndOf
  <1> HIDE DEF t
  <1>5. Range(t) = Range(s) \cup {n}
    <2>1. DOMAIN t = 1..(Len(s) + 1) /\ DOMAIN s = 1..Len(s)
      BY <1>1, <1>2, LenProperties
    <2>2. \A i \in 1..(Len(s) + 1) : i \in 1..Len(s) \/ i = Len(s) + 1
      BY <1>1
    <2>3. \A i \in 1..Len(s) : i \in 1..(Len(s) + 1)
      BY <1>1
    <2>4. Len(s) + 1 \in 1..(Len(s) + 1)
      BY <1>1
    <2>5. \A i \in DOMAIN t : t[i] \in Range(s) \cup {n}
      BY <1>2, <2>1, <2>2 DEF Range
    <2>6. \A i \in DOMAIN s : s[i] \in Range(t)
      <3> TAKE i \in DOMAIN s
      <3>1. t[i] = s[i] /\ i \in DOMAIN t
        BY <1>2, <2>1, <2>3
      <3> QED  BY <3>1 DEF Range
    <2>7. n \in Range(t)
      BY <1>2, <2>1, <2>4 DEF Range
    <2> QED  BY <2>5, <2>6, <2>7 DEF Range
  <1>6. next'[Meta] = t[1]
    BY <1>1, <1>2, <1>3 DEF ChainOf
  <1>7. \A i, j \in 1..Len(t) : t[i] = t[j] => i = j
    BY <1>1, <1>2 DEF ChainOf
  <1>8. ASSUME NEW i \in 1..Len(t)
        PROVE  next'[t[i]] = IF i = Len(t) THEN NULL ELSE t[i + 1]
    <2>1. CASE i = Len(t)
      <3>1. t[i] = n /\ n # EndOf(s)
        BY <1>1, <1>2, <2>1
      <3> QED  BY <1>3, <2>1, <3>1
    <2>2. CASE i = Len(s)
      <3>1. t[i] = EndOf(s) /\ s # <<>> /\ EndOf(s) \in Nodes
        BY <1>1, <1>2, <2>2
      <3> QED  BY <1>1, <1>2, <1>3, <2>2, <3>1
    <2>3. CASE i \in 1..(Len(s) - 1)
      <3>1. t[i] = s[i] /\ t[i + 1] = s[i + 1] /\ s[i] # EndOf(s) /\ s[i] \in Nodes /\ i # Len(t)
        BY <1>1, <1>2, <2>3 DEF ChainOf
      <3>2. next[s[i]] = s[i + 1]
        BY <1>1, <2>3 DEF ChainOf
      <3> QED  BY <1>3, <3>1, <3>2
    <2> QED  BY <1>1, <1>2, <2>1, <2>2, <2>3
  <1>9. ChainOf(t)'
    BY <1>2, <1>4, <1>6, <1>7, <1>8 DEF ChainOf
  <1> QED  BY <1>2, <1>4, <1>5, <1>9 DEF t

\* The first node unlinked, the second is the first.
LEMMA ChainUnlink ==
    ASSUME TypeOK, NEW s, ChainOf(s), s # <<>>,
           next' = [next EXCEPT ![Meta] = next[next[Meta]]]
    PROVE  /\ ChainOf(Tail(s))'
           /\ Tail(s) \in Seq(Nodes) /\ Len(Tail(s)) = Len(s) - 1
           /\ Tail(s) = <<>> <=> Len(s) = 1
           /\ \A i \in 1..(Len(s) - 1) : Tail(s)[i] = s[i + 1]
           /\ Tail(s) # <<>> => EndOf(Tail(s)) = EndOf(s)
           /\ s[1] \in Nodes \ Range(Tail(s)) /\ Range(s) = Range(Tail(s)) \cup {s[1]}
  <1> DEFINE t == Tail(s)
  <1>1. /\ s \in Seq(Nodes) /\ Len(s) \in Nat /\ Len(s) # 0
        /\ \A i \in 1..Len(s) : s[i] \in Nodes
        /\ next[Meta] = s[1] /\ EndOf(s) = s[Len(s)]
        /\ Meta \notin Nodes
    BY ChainEnds, ClientsAssumption
  <1>2. t \in Seq(Nodes) /\ Len(t) = Len(s) - 1 /\ \A i \in 1..(Len(s) - 1) : t[i] = s[i + 1]
    BY <1>1, HeadTailProperties
  <1> HIDE DEF t
  <1>3. t = <<>> <=> Len(s) = 1
    BY <1>1, <1>2, EmptySeq
  <1>4. t # <<>> => EndOf(t) = EndOf(s)
    BY <1>1, <1>2, <1>3 DEF EndOf
  <1>5. \A m \in Nodes \cup {Meta} : next'[m] = IF m = Meta THEN next[s[1]] ELSE next[m]
    BY <1>1 DEF TypeOK
  <1>6. next[s[1]] = IF Len(s) = 1 THEN NULL ELSE s[2]
    <2>1. 1 \in 1..Len(s)
      BY <1>1
    <2>2. next[s[1]] = IF 1 = Len(s) THEN NULL ELSE s[1 + 1]
      BY <2>1 DEF ChainOf
    <2> QED  BY <2>2
  <1>7. next'[Meta] = IF t = <<>> THEN NULL ELSE t[1]
    <2>1. next'[Meta] = IF Len(s) = 1 THEN NULL ELSE s[2]
      BY <1>5, <1>6
    <2>2. Len(s) # 1 => t[1] = s[2]
      <3> SUFFICES ASSUME Len(s) # 1 PROVE t[1] = s[1 + 1]
        OBVIOUS
      <3>1. 1 \in 1..(Len(s) - 1)
        BY <1>1, LastIndexes
      <3> QED  BY <1>2, <3>1
    <2> QED  BY <1>3, <2>1, <2>2
  <1>8. \A i, j \in 1..Len(t) : t[i] = t[j] => i = j
    <2>1. ASSUME NEW i \in 1..(Len(s) - 1), NEW j \in 1..(Len(s) - 1), s[i + 1] = s[j + 1]
          PROVE  i + 1 = j + 1
      <3>1. i + 1 \in 1..Len(s) /\ j + 1 \in 1..Len(s)
        BY <1>1
      <3> QED  BY <2>1, <3>1 DEF ChainOf
    <2> QED  BY <1>1, <1>2, <2>1
  <1>9. ASSUME NEW i \in 1..Len(t)
        PROVE  next'[t[i]] = IF i = Len(t) THEN NULL ELSE t[i + 1]
    <2>1. i + 1 \in 1..Len(s) /\ t[i] = s[i + 1] /\ (i = Len(t) <=> i + 1 = Len(s))
      BY <1>1, <1>2
    <2>2. next'[t[i]] = next[s[i + 1]]
      BY <1>1, <1>5, <2>1
    <2>3. next[s[i + 1]] = IF i + 1 = Len(s) THEN NULL ELSE s[(i + 1) + 1]
      BY <2>1 DEF ChainOf
    <2>4. i # Len(t) => t[i + 1] = s[(i + 1) + 1]
      BY <1>1, <1>2
    <2> QED  BY <2>1, <2>2, <2>3, <2>4
  <1>10. ChainOf(t)'
    BY <1>2, <1>7, <1>8, <1>9 DEF ChainOf
  <1>11. s[1] \in Nodes \ Range(t)
    <2>1. \A i \in 1..Len(t) : t[i] # s[1]
      <3>1. \A i \in 1..(Len(s) - 1) : s[i + 1] = s[1] => i + 1 = 1
        BY <1>1 DEF ChainOf
      <3> QED  BY <1>1, <1>2, <3>1
    <2>2. DOMAIN t = 1..Len(t)
      BY <1>2, LenProperties
    <2> QED  BY <1>1, <2>1, <2>2 DEF Range
  <1>12. Range(s) = Range(t) \cup {s[1]}
    <2>1. DOMAIN t = 1..(Len(s) - 1) /\ DOMAIN s = 1..Len(s)
      BY <1>1, <1>2, LenProperties
    <2>2. ASSUME NEW x \in Range(s) PROVE x \in Range(t) \cup {s[1]}
      <3>1. PICK i \in 1..Len(s) : x = s[i]
        BY <2>1 DEF Range
      <3>2. CASE i = 1
        BY <3>1, <3>2
      <3>3. CASE i # 1
        <4>1. i - 1 \in 1..(Len(s) - 1) /\ t[i - 1] = s[(i - 1) + 1] /\ (i - 1) + 1 = i
          BY <1>1, <1>2, <3>3
        <4> QED  BY <2>1, <3>1, <4>1 DEF Range
      <3> QED  BY <3>2, <3>3
    <2>3. \A i \in 1..(Len(s) - 1) : t[i] \in Range(s)
      <3>1. \A i \in 1..(Len(s) - 1) : i + 1 \in 1..Len(s)
        BY <1>1
      <3> QED  BY <1>2, <2>1, <3>1 DEF Range
    <2>4. s[1] \in Range(s)
      BY <1>1, <2>1 DEF Range
    <2>5. Range(t) \subseteq Range(s)
      BY <2>1, <2>3 DEF Range
    <2> QED  BY <2>2, <2>4, <2>5
  <1> QED  BY <1>2, <1>3, <1>4, <1>10, <1>11, <1>12 DEF t

-----------------------------------------------------------------------------
(* The list after each step of a call. *)

\* The labels at which the list is whole.
Quiet == {"malloc", "copy", "more", "unlink", "read", "unlock"}

Whole(s) == allocated = Range(s) /\ len = Len(s) /\ tail = EndOf(s)

\* There a row says no more than that.
LEMMA QuietRow == \A l \in Quiet : \A n, s : Row(l, n, s) <=> Whole(s)
  <1> TAKE l \in Quiet
  <1>1. l \notin {"link", "free", "advance", "count", "discount"}
    BY DEF Quiet
  <1> TAKE n, s
  <1>2. Row(l, n, s) <=> allocated = Range(s) \cup {} /\ len = Len(s) /\ tail = EndOf(s)
    BY <1>1 DEF Row
  <1> QED  BY <1>2 DEF Whole

\* While a client is inside, only its row counts.
LEMMA HolderShape ==
    ASSUME TypeOK, Control, UNCHANGED <<clients, mutex_lock>>, NEW c \in Clients,
           pc[c] \in InCall, \A d \in Clients : d # c => pc'[d] = pc[d],
           NEW t, ChainOf(t)', Row(pc[c], elem[c], t)'
    PROVE  Shape(t)'
  <1>1. mutex_lock' # NULL
    BY ClientsAssumption DEF Control, Exclusive
  <1>2. \A d \in Clients : d # c => pc'[d] \notin InCall
    BY DEF Control, Exclusive
  <1> QED  BY <1>1, <1>2 DEF Shape

\* Steps that change no pointer and no count.
LEMMA SameShape ==
    ASSUME TypeOK, Control, UNCHANGED <<clients, list>>, NEW s, Shape(s), NEW c \in Clients,
           MallocFails(c) \/ Copy(c) \/ More(c) \/ ReadSize(c) \/ ReadFront(c)
    PROVE  Shape(s)'
  <1>1. /\ pc[c] \in Quiet /\ pc'[c] \in Quiet /\ mutex_lock' = mutex_lock
        /\ \A d \in Clients : d # c => pc'[d] = pc[d]
    BY GotoMoves DEF MallocFails, Copy, More, ReadSize, ReadFront, Quiet
  <1>2. pc[c] \in InCall
    BY <1>1 DEF Quiet, InCall
  <1>3. Whole(s) /\ ChainOf(s)
    BY <1>1, <1>2, QuietRow DEF Shape
  <1>4. ChainOf(s)'
    BY <1>3 DEF ChainOf
  <1>5. Row(pc[c], elem[c], s)'
    BY <1>1, <1>3 DEF Row, Quiet, Whole, EndOf
  <1> QED  BY <1>1, <1>2, <1>4, <1>5, HolderShape

\* A node from malloc is none of the list's.
LEMMA MallocShape ==
    ASSUME TypeOK, Control, UNCHANGED clients, NEW s, Shape(s), NEW c \in Clients, Malloc(c)
    PROVE  Shape(s)'
  <1>1. /\ pc[c] = "malloc" /\ pc'[c] = "link" /\ pc[c] \in InCall
        /\ \A d \in Clients : d # c => pc'[d] = pc[d]
        /\ UNCHANGED <<mutex_lock, tail, len>>
    BY GotoMoves DEF Malloc, InCall
  <1>2. ChainOf(s) /\ Whole(s)
    BY <1>1 DEF Shape, Row, Whole
  <1>3. PICK n \in Nodes \ allocated :
            /\ allocated' = allocated \cup {n}
            /\ next' = [next EXCEPT ![n] = NULL]
            /\ elem' = [elem EXCEPT ![c] = n]
    BY DEF Malloc
  <1>4. n \notin Range(s) /\ n # Meta /\ elem'[c] = n /\ next'[n] = NULL
    BY <1>2, <1>3, ClientsAssumption DEF Whole, TypeOK
  <1>5. \A m \in Range(s) \cup {Meta} : next'[m] = next[m]
    BY <1>3, <1>4
  <1>6. ChainOf(s)'
    BY <1>2, <1>5, ChainSame
  <1>7. Row(pc[c], elem[c], s)'
    BY <1>1, <1>2, <1>3, <1>4 DEF Row, Whole, EndOf
  <1> QED  BY <1>1, <1>6, <1>7, HolderShape

\* Linked, it is in the list, which is longer than len and goes past tail.
LEMMA LinkShape ==
    ASSUME TypeOK, Control, UNCHANGED clients, NEW s, Shape(s), NEW c \in Clients, Link(c)
    PROVE  \E n \in Nodes \ Range(s) : n = elem[c] /\ Shape(Append(s, n))'
  <1> PICK n : n = elem[c]
    OBVIOUS
  <1> DEFINE t == Append(s, n)
  <1>1. /\ pc[c] = "link" /\ pc'[c] = "advance" /\ pc[c] \in InCall
        /\ \A d \in Clients : d # c => pc'[d] = pc[d]
        /\ UNCHANGED <<mutex_lock, allocated, tail, len, elem>>
    BY GotoMoves DEF Link, InCall
  <1>2. /\ ChainOf(s) /\ n \in Nodes \ Range(s) /\ next[n] = NULL
        /\ allocated = Range(s) \cup {n} /\ len = Len(s) /\ tail = EndOf(s)
    BY <1>1 DEF Shape, Row
  <1>3. next' = [next EXCEPT ![EndOf(s)] = n]
    BY <1>2 DEF Link
  <1>4. /\ ChainOf(t)' /\ Len(t) = Len(s) + 1 /\ t # <<>> /\ EndOf(t) = n
        /\ \A i \in 1..Len(s) : t[i] = s[i]
        /\ Range(t) = Range(s) \cup {n}
    BY <1>2, <1>3, ChainLink
  <1>5. /\ Len(s) \in Nat /\ s \in Seq(Nodes)
        /\ s = <<>> <=> Len(s) = 0
        /\ s # <<>> => EndOf(s) = s[Len(s)]
        /\ s = <<>> => EndOf(s) = Meta
    BY <1>2, ChainEnds
  <1> HIDE DEF t
  <1>6. tail = IF Len(t) = 1 THEN Meta ELSE t[Len(t) - 1]
    BY <1>2, <1>4, <1>5
  <1>7. Row("advance", n, t)'
    BY <1>1, <1>2, <1>4, <1>5, <1>6 DEF Row, EndOf
  <1>8. Row(pc[c], elem[c], t)'
    BY <1>1, <1>7
  <1>9. Shape(t)'
    BY <1>1, <1>4, <1>8, HolderShape
  <1> QED  BY <1>2, <1>5, <1>9 DEF t

\* tail follows, then len.
LEMMA AdvanceShape ==
    ASSUME TypeOK, Control, UNCHANGED clients, NEW s, Shape(s), NEW c \in Clients,
           Advance(c) \/ Count(c)
    PROVE  Shape(s)'
  <1>1. /\ pc[c] \in InCall /\ \A d \in Clients : d # c => pc'[d] = pc[d]
        /\ UNCHANGED <<mutex_lock, allocated, next, elem>>
    BY GotoMoves DEF Advance, Count, InCall
  <1>2. ChainOf(s) /\ Row(pc[c], elem[c], s)
    BY <1>1 DEF Shape
  <1>3. ChainOf(s)'
    BY <1>1, <1>2 DEF ChainOf
  <1>4. Len(s) \in Nat /\ (s = <<>> <=> Len(s) = 0) /\ (s # <<>> => EndOf(s) = s[Len(s)] /\ next[Meta] = s[1])
    BY <1>2, ChainEnds
  <1>5. CASE Advance(c)
    <2>1. pc[c] = "advance" /\ pc'[c] = "count" /\ tail' = next[tail] /\ len' = len
      BY <1>5, GotoMoves DEF Advance
    <2>2. /\ allocated = Range(s) /\ len = Len(s) - 1 /\ s # <<>> /\ elem[c] = EndOf(s)
          /\ tail = IF Len(s) = 1 THEN Meta ELSE s[Len(s) - 1]
      BY <1>2, <2>1 DEF Row
    <2>3. next[tail] = EndOf(s)
      <3>1. CASE Len(s) = 1
        BY <1>4, <2>2, <3>1
      <3>2. CASE Len(s) # 1
        <4>1. Len(s) - 1 \in 1..Len(s) /\ Len(s) - 1 # Len(s) /\ (Len(s) - 1) + 1 = Len(s)
          <5>1. Len(s) # 0
            BY <1>4, <2>2
          <5> QED  BY Zenon, <1>4, <3>2, <5>1, LastIndexes
        <4>2. next[s[Len(s) - 1]] = IF Len(s) - 1 = Len(s) THEN NULL ELSE s[(Len(s) - 1) + 1]
          BY Zenon, <1>2, <4>1 DEF ChainOf
        <4> QED  BY <1>4, <2>2, <3>2, <4>1, <4>2
      <3> QED  BY <3>1, <3>2
    <2>4. Row("count", elem[c], s)'
      BY <1>1, <2>1, <2>2, <2>3 DEF Row, EndOf
    <2> QED  BY <1>1, <1>3, <2>1, <2>4, HolderShape
  <1>6. CASE Count(c)
    <2>1. pc[c] = "count" /\ pc'[c] = "unlock" /\ tail' = tail /\ len' = len + 1
      BY <1>6, GotoMoves DEF Count
    <2>2. allocated = Range(s) /\ len = Len(s) - 1 /\ tail = EndOf(s)
      BY <1>2, <2>1 DEF Row
    <2>3. Row("unlock", elem[c], s)'
      BY <1>1, <1>4, <2>1, <2>2 DEF Row, EndOf
    <2> QED  BY <1>1, <1>3, <2>1, <2>3, HolderShape
  <1> QED  BY <1>5, <1>6

\* Unlinked, the first node is allocated and not in the list.
LEMMA UnlinkShape ==
    ASSUME TypeOK, Control, UNCHANGED clients, NEW s, Shape(s), NEW c \in Clients, Unlink(c)
    PROVE  Shape(Tail(s))' /\ s # <<>> /\ s \in Seq(Nodes)
  <1> DEFINE t == Tail(s)
  <1>1. /\ pc[c] = "unlink" /\ pc'[c] = "free" /\ pc[c] \in InCall
        /\ \A d \in Clients : d # c => pc'[d] = pc[d]
        /\ UNCHANGED <<mutex_lock, allocated, tail, len>>
    BY GotoMoves DEF Unlink, InCall
  <1>2. ChainOf(s) /\ Whole(s)
    BY <1>1 DEF Shape, Row, Whole
  <1>3. s # <<>> /\ s \in Seq(Nodes) /\ Len(s) \in Nat /\ next[Meta] = s[1]
    BY <1>2, ChainEnds DEF Unlink
  <1>4. next' = [next EXCEPT ![Meta] = next[next[Meta]]] /\ elem'[c] = s[1]
    BY <1>3 DEF Unlink, TypeOK
  <1>5. /\ ChainOf(t)' /\ Len(t) = Len(s) - 1
        /\ t # <<>> => EndOf(t) = EndOf(s)
        /\ s[1] \in Nodes \ Range(t) /\ Range(s) = Range(t) \cup {s[1]}
    BY <1>2, <1>3, <1>4, ChainUnlink
  <1> HIDE DEF t
  <1>6. Row("free", s[1], t)'
    BY <1>1, <1>2, <1>3, <1>5 DEF Row, Whole, EndOf
  <1>7. Row(pc[c], elem[c], t)'
    BY <1>1, <1>4, <1>6
  <1>8. Shape(t)'
    BY <1>1, <1>5, <1>7, HolderShape
  <1> QED  BY <1>3, <1>8 DEF t

\* Then it is freed, and len and, for an empty list, tail follow.
LEMMA FreeShape ==
    ASSUME TypeOK, Control, UNCHANGED clients, NEW s, Shape(s), NEW c \in Clients,
           Free(c) \/ Discount(c)
    PROVE  Shape(s)'
  <1>1. /\ pc[c] \in InCall /\ \A d \in Clients : d # c => pc'[d] = pc[d]
        /\ UNCHANGED <<mutex_lock, next, elem>>
    BY GotoMoves DEF Free, Discount, InCall
  <1>2. ChainOf(s) /\ Row(pc[c], elem[c], s)
    BY <1>1 DEF Shape
  <1>3. ChainOf(s)'
    BY <1>1, <1>2 DEF ChainOf
  <1>4. Len(s) \in Nat /\ (s = <<>> <=> Len(s) = 0) /\ (s = <<>> => EndOf(s) = Meta)
    BY <1>2, ChainEnds
  <1>5. CASE Free(c)
    <2>1. pc[c] = "free" /\ pc'[c] = "discount" /\ tail' = tail /\ len' = len
          /\ allocated' = allocated \ {elem[c]}
      BY <1>5, GotoMoves DEF Free
    <2>2. /\ allocated = Range(s) \cup {elem[c]} /\ elem[c] \notin Range(s) /\ len = Len(s) + 1
          /\ tail = EndOf(s) \/ s = <<>>
      BY <1>2, <2>1 DEF Row
    <2>3. Row("discount", elem[c], s)'
      BY <1>1, <2>1, <2>2 DEF Row, EndOf
    <2> QED  BY <1>1, <1>3, <2>1, <2>3, HolderShape
  <1>6. CASE Discount(c)
    <2>1. pc[c] = "discount" /\ pc'[c] \in {"more", "unlock"} /\ allocated' = allocated
          /\ len' = len - 1 /\ tail' = IF len' = 0 THEN Meta ELSE tail
      BY <1>6, GotoMoves DEF Discount, Popped
    <2>2. allocated = Range(s) /\ len = Len(s) + 1 /\ (tail = EndOf(s) \/ s = <<>>)
      BY <1>2, <2>1 DEF Row
    <2>3. Whole(s)'
      BY <1>4, <2>1, <2>2 DEF Whole, EndOf
    <2>4. Row(pc[c], elem[c], s)'
      BY <2>1, <2>3 DEF Row, Whole
    <2> QED  BY <1>1, <1>3, <2>4, HolderShape
  <1> QED  BY <1>5, <1>6

\* Entering and leaving a call changes nothing of the list.
LEMMA LockShape ==
    ASSUME TypeOK, Control, UNCHANGED clients, NEW s, Shape(s), NEW c \in Clients,
           Lock(c) \/ Unlock(c)
    PROVE  Shape(s)'
  <1>1. UNCHANGED <<next, allocated, tail, len>>
    BY DEF Lock, Unlock
  <1>2. ChainOf(s) /\ ChainOf(s)'
    BY <1>1 DEF Shape, ChainOf
  <1>3. CASE Lock(c)
    <2>1. /\ mutex_lock = NULL /\ mutex_lock' = c /\ c # NULL
          /\ \A d \in Clients : d # c => pc'[d] \notin InCall
      BY <1>3, GotoMoves, ClientsAssumption DEF Lock, Control, Exclusive
    <2>2. pc'[c] \in Quiet
      BY <1>3, GotoMoves DEF Lock, Entry, Quiet
    <2>3. Whole(s)
      BY <2>1, QuietRow DEF Shape, Quiet
    <2>4. Row(pc[c], elem[c], s)'
      BY <1>1, <2>2, <2>3 DEF Row, Whole, Quiet, EndOf
    <2> QED  BY <1>2, <2>1, <2>4 DEF Shape
  <1>4. CASE Unlock(c)
    <2>1. /\ mutex_lock' = NULL /\ pc[c] = "unlock" /\ pc'[c] = Return(c)
          /\ \A d \in Clients : d # c => pc'[d] \notin InCall
      BY <1>4, GotoMoves DEF Unlock, Control, Exclusive, InCall
    <2>2. pc'[c] \notin InCall
      BY <2>1 DEF Return, InCall
    <2>3. Whole(s)
      BY <2>1 DEF Shape, InCall, Row, Whole
    <2>4. Row("unlock", NULL, s)'
      BY <1>1, <2>3 DEF Row, Whole, EndOf
    <2> QED  BY <1>2, <2>1, <2>2, <2>4 DEF Shape
  <1> QED  BY <1>3, <1>4

\* Nor does what a client does between its calls.
LEMMA OutsideShape ==
    ASSUME TypeOK, Control, UNCHANGED clients, NEW s, Shape(s), Outside
    PROVE  Shape(s)'
  <1>1. UNCHANGED <<mutex_lock, list, elem>>
    BY DEF Outside, Push, Post, PostSpare, Consume, AskSize, TakeIfAny, ClearAll, Look, Leave
  <1>2. \A d \in Clients : pc'[d] \in InCall => pc'[d] = pc[d]
    BY GotoMoves DEF Outside, Push, Post, PostSpare, Consume, AskSize, TakeIfAny, ClearAll, Look, Leave,
       Call, InCall, Clients
  <1>3. ChainOf(s)'
    BY <1>1 DEF Shape, ChainOf
  <1>4. \A l, n : Row(l, n, s) => Row(l, n, s)'
    BY <1>1 DEF Row, EndOf
  <1> QED  BY <1>1, <1>2, <1>3, <1>4 DEF Shape

\* ts_queue_destroy pops when nobody is inside.
LEMMA ClearShape ==
    ASSUME TypeOK, Control, UNCHANGED clients, NEW s, Shape(s), Clear
    PROVE  Shape(Tail(s))' /\ s # <<>> /\ s \in Seq(Nodes)
  <1> DEFINE t == Tail(s)
  <1>1. mutex_lock = NULL /\ \A d \in Clients : pc[d] \notin InCall
    BY DEF Clear, AllGone, InCall, TypeOK, Control, Exclusive
  <1>2. /\ mutex_lock' = NULL /\ pc' = pc
        /\ allocated' = allocated \ {next[Meta]} /\ next' = [next EXCEPT ![Meta] = next[next[Meta]]]
        /\ len' = len - 1 /\ tail' = IF len' = 0 THEN Meta ELSE tail
    BY <1>1 DEF Clear
  <1>3. ChainOf(s) /\ Whole(s)
    BY <1>1 DEF Shape, Row, Whole
  <1>4. s # <<>> /\ s \in Seq(Nodes) /\ Len(s) \in Nat /\ next[Meta] = s[1]
    BY <1>3, ChainEnds DEF Clear
  <1>5. /\ ChainOf(t)' /\ Len(t) = Len(s) - 1
        /\ t = <<>> <=> Len(s) = 1
        /\ t # <<>> => EndOf(t) = EndOf(s)
        /\ s[1] \notin Range(t) /\ Range(s) = Range(t) \cup {s[1]}
    BY <1>2, <1>3, <1>4, ChainUnlink
  <1> HIDE DEF t
  <1>6. Whole(t)'
    BY <1>2, <1>3, <1>4, <1>5 DEF Whole, EndOf
  <1>7. Row("unlock", NULL, t)'
    BY <1>6 DEF Row, Whole
  <1>8. Shape(t)'
    BY <1>1, <1>2, <1>5, <1>7 DEF Shape
  <1> QED  BY <1>4, <1>8 DEF t

\* In all: only a link, an unlink and a pop at the end change the list.
LEMMA ShapeStep ==
    ASSUME TypeOK, Control, NEW s, Shape(s), [Next]_vars,
           \A c \in Clients : ~Link(c) /\ ~Unlink(c), ~Clear
    PROVE  Shape(s)'
  <1>1. CASE UNCHANGED vars
    <2>1. UNCHANGED <<mutex_lock, next, allocated, tail, len, pc, elem>>
      BY <1>1 DEF vars
    <2> QED  BY <2>1 DEF Shape, ChainOf, Row, EndOf
  <1>2. ASSUME NEW c \in Clients, UNCHANGED clients, Inside(c)
        PROVE  Shape(s)'
    <2>1. CASE MallocFails(c) \/ Copy(c) \/ More(c) \/ ReadSize(c) \/ ReadFront(c)
      <3>1. UNCHANGED list
        BY <2>1 DEF MallocFails, Copy, More, ReadSize, ReadFront
      <3> QED  BY <1>2, <2>1, <3>1, SameShape
    <2> QED  BY <1>2, <2>1, LockShape, MallocShape, AdvanceShape, FreeShape DEF Inside
  <1>3. CASE UNCHANGED clients /\ Outside
    BY <1>3, OutsideShape
  <1> QED  BY <1>1, <1>2, <1>3 DEF Next, Step, Outside, Destroyed

-----------------------------------------------------------------------------
(* The elements of the nodes. *)

\* The node to be linked keeps its element until it is.
LEMMA FilledStep == TypeOK /\ Control /\ Filled /\ [Next]_vars => Filled'
  <1> SUFFICES ASSUME TypeOK, Control, Filled, [Next]_vars PROVE Filled'
    OBVIOUS
  <1>1. ASSUME NEW c \in Clients, Malloc(c)
        PROVE  Filled'
    <2>1. \A d \in Clients : d # c => pc'[d] # "link"
      BY <1>1, GotoMoves DEF Malloc, Control, Exclusive, InCall
    <2>2. PICK n \in Nodes : /\ buffer' = [buffer EXCEPT ![n] = element[c]]
                             /\ elem' = [elem EXCEPT ![c] = n]
      BY <1>1 DEF Malloc
    <2>3. buffer'[n] = element[c] /\ elem'[c] = n /\ element' = element
      BY <1>1, <2>2 DEF TypeOK, Malloc
    <2> QED  BY <2>1, <2>3 DEF Filled
  <1>2. ASSUME \A c \in Clients : ~Malloc(c), Step
        PROVE  Filled'
    <2>1. buffer' = buffer
      BY <1>2 DEF Step, Inside, Lock, Unlock, MallocFails, Link, Advance, Count, Copy, More, Unlink,
         Free, Discount, ReadSize, ReadFront, Push, Post, PostSpare, Consume, AskSize, TakeIfAny, ClearAll,
         Look, Leave, Clear, Destroyed, vars
    <2>2. \A d \in Clients :
             pc'[d] = "link" => pc[d] = "link" /\ elem'[d] = elem[d] /\ element'[d] = element[d]
      <3>1. CASE Clear \/ Destroyed
        BY <3>1 DEF Clear, Destroyed, vars
      <3>2. CASE Outside
        <4>1. elem' = elem
          BY <3>2 DEF Outside, Push, Post, PostSpare, Consume, AskSize, TakeIfAny, ClearAll, Look, Leave
        <4>2. PICK c \in Clients :
                 /\ pc[c] \in {"idle", "judge", "post"} /\ pc'[c] \in {"idle", "judge", "post", "lock", "gone"}
                 /\ \A d \in Clients : d # c => pc'[d] = pc[d] /\ element'[d] = element[d]
          BY <3>2, GotoMoves, ClientTypes DEF Outside, Push, Post, PostSpare, Consume, AskSize, TakeIfAny,
             ClearAll, Look, Leave, Call, Clients
        <4> QED  BY <4>1, <4>2
      <3>3. ASSUME NEW c \in Clients, Inside(c)
            PROVE  \A d \in Clients :
                     pc'[d] = "link" => pc[d] = "link" /\ elem'[d] = elem[d] /\ element'[d] = element[d]
        <4>1. pc'[c] # "link"
          BY <1>2, <3>3, GotoMoves DEF Inside, Lock, Entry, Unlock, Return, MallocFails, Link, Advance, Count,
             Copy, More, Unlink, Free, Discount, Popped, ReadSize, ReadFront
        <4>2. \A d \in Clients : d # c => pc'[d] = pc[d]
          BY <1>2, <3>3, GotoMoves DEF Inside, Lock, Unlock, MallocFails, Link, Advance, Count,
             Copy, More, Unlink, Free, Discount, ReadSize, ReadFront
        <4>3. \A d \in Clients : d # c => elem'[d] = elem[d] /\ element'[d] = element[d]
          BY <1>2, <3>3, ClientTypes DEF Inside, Lock, Unlock, MallocFails, Link, Advance, Count,
             Copy, More, Unlink, Free, Discount, ReadSize, ReadFront
        <4> QED  BY <4>1, <4>2, <4>3
      <3> QED  BY <1>2, <3>1, <3>2, <3>3 DEF Step, Outside
    <2> QED  BY <2>1, <2>2 DEF Filled
  <1>3. CASE UNCHANGED vars
    BY <1>3 DEF vars, Filled
  <1> QED  BY <1>1, <1>2, <1>3 DEF Next

-----------------------------------------------------------------------------
(* Tokens and elements. *)

Bit(b) == IF b THEN 1 ELSE 0

\* A set that one client joins or leaves has one more, or one less.
LEMMA OneMoves ==
    ASSUME NEW S, NEW T, NEW c, IsFiniteSet(S), \A d : d # c => (d \in T <=> d \in S)
    PROVE  IsFiniteSet(T) /\ Cardinality(T) = Cardinality(S) - Bit(c \in S) + Bit(c \in T)
  <1>1. Cardinality(S) \in Nat
    BY FS_CardinalityType
  <1>2. CASE c \in S /\ c \notin T
    <2>1. T = S \ {c}
      BY <1>2
    <2>2. IsFiniteSet(S \ {c}) /\ Cardinality(S \ {c}) = Cardinality(S) - 1
      BY <1>2, FS_RemoveElement
    <2> QED  BY <1>1, <1>2, <2>1, <2>2 DEF Bit
  <1>3. CASE c \notin S /\ c \in T
    <2>1. T = S \cup {c}
      BY <1>3
    <2>2. IsFiniteSet(S \cup {c}) /\ Cardinality(S \cup {c}) = Cardinality(S) + 1
      BY <1>3, FS_AddElement
    <2> QED  BY <1>1, <1>3, <2>1, <2>2 DEF Bit
  <1>4. CASE c \in S <=> c \in T
    <2>1. T = S
      BY <1>4
    <2> QED  BY <1>1, <1>4, <2>1 DEF Bit
  <1> QED  BY <1>2, <1>3, <1>4

\* The clients are finitely many.
LEMMA FewClients == IsFiniteSet(Owed) /\ Cardinality(Owed) \in Nat
  <1>1. Owed \subseteq Clients
    BY DEF Owed, Takers, Unposted
  <1> QED  BY <1>1, ClientsAssumption, FS_Subset, FS_CardinalityType

\* A client that has a token, or has asked the size, finds an element.
LEMMA TakerFinds ==
    ASSUME TypeOK, Control, NEW s \in Seq(Nodes), TokensFor(s), CheckedFor(s), NEW c \in Takers
    PROVE  s # <<>>
  <1>1. c \in Clients /\ pc[c] # "gone" /\ op[c] \in {"top", "pop"}
    BY DEF Takers, Control, Disciplined
  <1>2. c \in clients /\ c \in Consumers \cup Checkers
    BY <1>1 DEF Control, Disciplined
  <1>3. CASE c \in Checkers
    BY <1>1, <1>3 DEF CheckedFor
  <1>4. CASE c \in Consumers
    <2>1. ~AllGone
      BY <1>1 DEF AllGone
    <2>2. items + Cardinality(Owed) <= Len(s)
      BY <1>2, <1>4, <2>1 DEF TokensFor
    <2>3. Cardinality(Owed) # 0
      BY FewClients, FS_EmptySet DEF Owed
    <2>4. Len(s) # 0
      BY <2>2, <2>3, FewClients DEF TypeOK
    <2> QED  BY <2>4, EmptySeq
  <1> QED  BY <1>2, <1>3, <1>4

\* Who takes, or clears, is the only one who does if there is a checker.
LEMMA OneTaker ==
    ASSUME TypeOK, Control, NEW c \in Clients, NEW d \in Clients,
           op[c] \in {"top", "pop", "clear"}, d \in Checkers, pc[d] # "gone"
    PROVE  c = d
  <1>1. pc[c] # "gone" /\ c \in Consumers \cup Checkers
    BY DEF Control, Disciplined
  <1>2. c \in clients /\ d \in clients
    BY <1>1 DEF Control, Disciplined
  <1>3. clients \in Uses
    BY DEF TypeOK
  <1> QED  BY <1>1, <1>2, <1>3, ClientsAssumption

\* The steps of one client.
Does(c) ==
    \/ Inside(c) \/ Leave(c)
    \/ c \in Producers /\ (Push(c) \/ Post(c) \/ PostSpare(c))
    \/ c \in Consumers /\ Consume(c)
    \/ c \in Checkers /\ (AskSize(c) \/ TakeIfAny(c) \/ ClearAll(c))
    \/ c \in Readers /\ Look(c)

\* Each step is one client's, or the queue's destruction.
LEMMA Steps == Step => Clear \/ Destroyed \/ \E c \in Clients : Does(c)
  BY DEF Step, Does, Clients

\* A client changes nothing that is another's.
LEMMA ActorOnly ==
    ASSUME TypeOK, NEW c \in Clients, Does(c)
    PROVE  /\ pc[c] # "gone"
           /\ \A d \in Clients : d # c => pc'[d] = pc[d] /\ op'[d] = op[d] /\ size'[d] = size[d]
  <1>1. CASE Lock(c) \/ Working(c)
    BY <1>1, GotoMoves, ClientTypes DEF Lock, Entry, Working, Malloc, MallocFails, Link, Advance, Count,
       Copy, More, Unlink, Free, Discount, ReadSize, ReadFront
  <1>2. CASE Unlock(c)
    BY <1>2, GotoMoves, ClientTypes DEF Unlock
  <1>3. CASE ~Inside(c)
    BY <1>3, GotoMoves, ClientTypes DEF Does, Push, Post, PostSpare, Consume, AskSize, TakeIfAny, ClearAll, Look,
       Leave, Call
  <1> QED  BY <1>1, <1>2, <1>3 DEF Inside, Working

\* What a client's step does to the tokens, to those who have one and to the
\* elements that nobody has posted for, where there are consumers.
LEMMA LedgerStep ==
    ASSUME TypeOK, Control, UNCHANGED clients, clients \cap Consumers # {}, NEW c \in Clients, Does(c)
    PROVE  items' + Bit(c \in Owed') = items + Bit(c \in Owed) + (Bit(Link(c)) - Bit(Unlink(c)))
  <1> USE DEF Bit, Owed
  <1>1. items \in Nat /\ pc[c] # "gone" /\ c \in clients
    BY ActorOnly DEF TypeOK, Control, Disciplined
  <1>2. c \notin Checkers /\ clients \cap Checkers = {}
    <2>1. clients \in Uses
      BY DEF TypeOK
    <2> QED  BY <1>1, <2>1, ClientsAssumption
  <1>3. op[c] # "clear" /\ pc[c] \notin {"more", "judge"}
    BY <1>2 DEF Control, Disciplined
  <1>4. /\ c \in Takers <=> pc[c] = "copy" \/ (pc[c] \in {"lock", "unlink"} /\ op[c] \in {"top", "pop"})
        /\ c \in Unposted <=> pc[c] \in {"advance", "count", "post"} \/ (pc[c] = "unlock" /\ op[c] = "push")
        /\ c \in Takers' <=> pc'[c] = "copy" \/ (pc'[c] \in {"lock", "unlink"} /\ op'[c] \in {"top", "pop"})
        /\ c \in Unposted' <=> pc'[c] \in {"advance", "count", "post"} \/ (pc'[c] = "unlock" /\ op'[c] = "push")
    BY DEF Takers, Unposted
  <1>5. CASE Link(c)
    BY <1>1, <1>4, <1>5, GotoMoves DEF Link, Unlink
  <1>6. CASE Unlink(c)
    <2>1. op[c] \in {"top", "pop"}
      BY <1>3, <1>6, GotoMoves DEF Unlink, Control, Disciplined
    <2> QED  BY <1>1, <1>4, <1>6, <2>1, GotoMoves DEF Unlink, Link
  <1>7. CASE ~Link(c) /\ ~Unlink(c)
    <2>1. CASE Lock(c)
      <3>1. pc[c] = "lock" /\ pc'[c] = Entry(op[c]) /\ op' = op /\ items' = items
        BY <2>1, GotoMoves DEF Lock
      <3>2. /\ op[c] = "top" => Entry(op[c]) = "copy"
            /\ op[c] = "pop" => Entry(op[c]) = "unlink"
            /\ op[c] \notin {"top", "pop"} => Entry(op[c]) \in {"malloc", "more", "read"}
        BY DEF Entry
      <3> QED  BY <1>1, <1>4, <1>7, <3>1, <3>2
    <2>2. CASE Unlock(c)
      <3>1. pc[c] = "unlock" /\ pc'[c] = Return(c) /\ op'[c] = "none" /\ items' = items
        BY <2>2, GotoMoves, ClientTypes DEF Unlock
      <3>2. Return(c) \in {"post", "judge", "idle"} /\ (Return(c) = "post" <=> op[c] = "push")
        BY DEF Return
      <3> QED  BY <1>1, <1>4, <1>7, <3>1, <3>2
    <2>3. CASE Working(c)
      <3>1. ~MallocFails(c) /\ ~More(c)
        BY <1>3, GotoMoves DEF MallocFails, More
      <3>2. items' = items /\ op' = op
        BY <2>3 DEF Working, Malloc, MallocFails, Link, Advance, Count, Copy, More, Unlink, Free, Discount,
           ReadSize, ReadFront
      <3>3. \/ pc[c] \in {"malloc", "read", "free", "discount"} /\ pc'[c] \in {"link", "discount", "more"}
            \/ pc[c] \in {"read", "discount"} /\ pc'[c] = "unlock" /\ op[c] # "push"
            \/ pc[c] = "advance" /\ pc'[c] = "count"
            \/ pc[c] = "count" /\ pc'[c] = "unlock" /\ op[c] = "push"
            \/ pc[c] = "copy" /\ pc'[c] = "unlink" /\ op[c] = "top"
        BY <1>7, <2>3, <3>1, GotoMoves DEF Working, Malloc, Advance, Count, Copy, Free, Discount, Popped, ReadSize,
           ReadFront, Control, Disciplined
      <3> QED  BY <1>1, <1>4, <1>7, <3>2, <3>3
    <2>4. CASE Push(c)
      BY <1>1, <1>4, <1>7, <2>4, GotoMoves, ClientTypes DEF Push, Call
    <2>5. CASE Post(c)
      BY <1>1, <1>4, <1>7, <2>5, GotoMoves DEF Post
    <2>6. CASE Consume(c)
      <3>1. PICK what \in {"top", "pop"} : Call(c, "idle", what)
        BY <2>6 DEF Consume
      <3>2. pc[c] = "idle" /\ pc'[c] = "lock" /\ op'[c] = what /\ items' = items - 1
        BY <2>6, <3>1, GotoMoves, ClientTypes DEF Call, Consume
      <3> QED  BY <1>1, <1>4, <1>7, <3>1, <3>2
    <2>7. CASE Look(c)
      <3>1. PICK what \in {"size", "front"} : Call(c, "idle", what)
        BY <2>7 DEF Look
      <3>2. pc[c] = "idle" /\ pc'[c] = "lock" /\ op'[c] = what /\ items' = items
        BY <2>7, <3>1, GotoMoves, ClientTypes DEF Call, Look
      <3> QED  BY <1>1, <1>4, <1>7, <3>1, <3>2
    <2>8. CASE Leave(c)
      BY <1>1, <1>4, <1>7, <2>8, GotoMoves DEF Leave
    <2> QED  BY <1>2, <2>1, <2>2, <2>3, <2>4, <2>5, <2>6, <2>7, <2>8 DEF Does, Inside, Working, PostSpare
  <1> QED  BY <1>5, <1>6, <1>7

\* What is taken from one account and put on another.
LEMMA Balance ==
    ASSUME NEW i \in Int, NEW j \in Int, NEW old \in Int, NEW new \in Int, NEW a \in Int, NEW b \in Int,
           NEW k \in Int, NEW m \in Int, i + old <= m, new = old - a + b, j + b = i + a + k
    PROVE  j + new <= m + k
  OBVIOUS

\* No token is without its element.
LEMMA TokensStep ==
    ASSUME TypeOK, Control, UNCHANGED clients, NEW s \in Seq(Nodes), NEW t \in Seq(Nodes), TokensFor(s),
           NEW c \in Clients, Does(c), Len(t) = Len(s) + (Bit(Link(c)) - Bit(Unlink(c)))
    PROVE  TokensFor(t)'
  <1> SUFFICES ASSUME clients \cap Consumers # {}
               PROVE  items' + Cardinality(Owed') <= Len(t)
    BY DEF TokensFor
  <1> DEFINE old == Cardinality(Owed)
             new == Cardinality(Owed')
             a == Bit(c \in Owed)
             b == Bit(c \in Owed')
             k == Bit(Link(c)) - Bit(Unlink(c))
  <1>1. ~AllGone
    BY ActorOnly DEF AllGone
  <1>2. items + old <= Len(s)
    BY <1>1 DEF TokensFor
  <1>3. \A d : d # c => (d \in Owed' <=> d \in Owed)
    BY ActorOnly DEF Owed, Takers, Unposted
  <1>4. new = old - a + b
    BY <1>3, FewClients, OneMoves
  <1>5. items' + b = items + a + k
    BY LedgerStep
  <1>6. items \in Int /\ Len(s) \in Int /\ old \in Int
    BY FewClients, LenProperties DEF TypeOK
  <1>7. items' \in Int
    BY <1>6 DEF Does, Inside, Lock, Unlock, Malloc, MallocFails, Link, Advance, Count, Copy, More, Unlink, Free,
       Discount, ReadSize, ReadFront, Push, Post, PostSpare, Consume, AskSize, TakeIfAny, ClearAll, Look, Leave
  <1>8. a \in Int /\ b \in Int /\ k \in Int
    BY DEF Bit
  <1>9. Len(t) = Len(s) + k
    OBVIOUS
  <1> HIDE DEF old, new, a, b, k
  <1>10. new \in Int
    BY <1>4, <1>6, <1>8
  <1>11. items' + new <= Len(s) + k
    BY <1>2, <1>4, <1>5, <1>6, <1>7, <1>8, <1>10, Balance
  <1> QED  BY <1>9, <1>11 DEF new

\* A size that a checker has read above 0 stays true until it takes.
LEMMA CheckedStep ==
    ASSUME TypeOK, Control, UNCHANGED clients, NEW s, Shape(s), CheckedFor(s),
           NEW c \in Clients, Does(c),
           NEW t, t = s \/ (Link(c) /\ t # <<>>) \/ Unlink(c)
    PROVE  CheckedFor(t)'
  <1> SUFFICES ASSUME NEW d \in Clients \cap Checkers, size'[d] > 0 \/ d \in Takers'
               PROVE  t # <<>>
    BY DEF CheckedFor
  <1>1. CASE Unlink(c)
    <2>1. pc[c] = "unlink" /\ pc'[c] = "free" /\ size' = size
      BY <1>1, GotoMoves DEF Unlink
    <2>2. op[c] \in {"top", "pop", "clear"} /\ ~(size[c] > 0)
      BY <2>1 DEF Control, Disciplined, OwnAnswers
    <2>3. d # c
      BY <2>1, <2>2 DEF Takers
    <2>4. pc[d] # "gone"
      BY <2>3, ActorOnly DEF Takers, Control, Disciplined, OwnAnswers
    <2> QED  BY <2>2, <2>3, <2>4, OneTaker
  <1>2. CASE t = s
    <2>1. CASE d # c
      BY <1>2, <2>1, ActorOnly DEF Takers, CheckedFor
    <2>2. CASE d = c
      <3>1. c \in Checkers /\ c \in clients /\ c \notin Consumers
        <4>1. c \in clients /\ clients \in Uses
          BY ActorOnly DEF Control, Disciplined, TypeOK
        <4> QED  BY <2>2, <4>1, ClientsAssumption
      <3>2. CASE ReadSize(c)
        <4>1. pc[c] = "read" /\ pc'[c] = "unlock" /\ size'[c] = len
          BY <3>2, GotoMoves, ClientTypes DEF ReadSize
        <4>2. Whole(s) /\ ChainOf(s)
          BY <4>1, QuietRow DEF Shape, InCall, Quiet
        <4>3. len > 0
          BY <2>2, <4>1 DEF Takers
        <4> QED  BY <1>2, <4>2, <4>3, ChainEnds DEF Whole
      <3>3. CASE ~ReadSize(c)
        <4>1. size'[c] > 0 => size[c] > 0
          BY <3>3, ClientTypes DEF Does, Inside, Lock, Unlock, Malloc, MallocFails, Link, Advance, Count, Copy,
             More, Unlink, Free, Discount, ReadFront, Push, Post, PostSpare, Consume, AskSize, TakeIfAny, ClearAll,
             Look, Leave
        <4>2. c \in Takers' => c \in Takers \/ size[c] > 0
          <5>1. CASE Inside(c)
            <6>1. CASE Unlock(c)
              BY <6>1, GotoMoves DEF Unlock, Return, Takers
            <6>2. CASE Lock(c)
              BY <6>2, GotoMoves DEF Lock, Entry, Takers
            <6>3. CASE Working(c)
              <7>1. pc'[c] = "unlink" => pc[c] \in {"copy", "more"}
                BY <6>3, GotoMoves DEF Working, Malloc, MallocFails, Link, Advance, Count, Copy, More,
                   Unlink, Free, Discount, Popped, ReadSize, ReadFront
              <7>2. pc'[c] \notin {"copy", "lock"} /\ op' = op
                BY <6>3, GotoMoves DEF Working, Malloc, MallocFails, Link, Advance, Count, Copy, More,
                   Unlink, Free, Discount, Popped, ReadSize, ReadFront
              <7> QED  BY <7>1, <7>2 DEF Takers, Control, Disciplined
            <6> QED  BY <5>1, <6>1, <6>2, <6>3 DEF Inside, Working
          <5>2. CASE TakeIfAny(c) /\ ~(size[c] > 0)
            BY <5>2, GotoMoves DEF TakeIfAny, Takers
          <5>3. CASE Push(c) \/ AskSize(c) \/ ClearAll(c) \/ Look(c)
            <6>1. op'[c] \in {"push", "size", "clear", "front"}
              BY <5>3, ClientTypes DEF Push, AskSize, ClearAll, Look, Call
            <6>2. pc'[c] = "lock"
              BY <5>3, GotoMoves DEF Push, AskSize, ClearAll, Look, Call
            <6> QED  BY <6>1, <6>2 DEF Takers
          <5>4. CASE Post(c) \/ PostSpare(c) \/ Leave(c)
            BY <5>4, GotoMoves DEF Post, PostSpare, Leave, Takers
          <5> QED  BY <3>1, <5>1, <5>2, <5>3, <5>4 DEF Does
        <4> QED  BY <1>2, <2>2, <4>1, <4>2 DEF CheckedFor
      <3> QED  BY <3>2, <3>3
    <2> QED  BY <2>1, <2>2
  <1> QED  BY <1>1, <1>2

\* A node to be unlinked is there, whatever it is unlinked for.
LEMMA ClearingStep ==
    ASSUME TypeOK, Control, UNCHANGED clients, NEW s \in Seq(Nodes), Shape(s), TokensFor(s), CheckedFor(s),
           ClearingFor(s), NEW c \in Clients, Does(c),
           NEW t, t = s \/ (Link(c) /\ t # <<>>) \/ Unlink(c)
    PROVE  ClearingFor(t)'
  <1> SUFFICES ASSUME NEW d \in Clients, pc'[d] = "unlink"
               PROVE  t # <<>>
    BY DEF ClearingFor
  <1>1. CASE Unlink(c)
    <2>1. pc[c] = "unlink" /\ pc'[c] = "free"
      BY <1>1, GotoMoves DEF Unlink
    <2>2. d # c /\ pc[d] = "unlink"
      BY <2>1, ActorOnly
    <2> QED  BY <2>1, <2>2 DEF Control, Exclusive, InCall
  <1>2. CASE t = s
    <2>1. CASE d # c
      BY <1>2, <2>1, ActorOnly DEF ClearingFor
    <2>2. CASE d = c
      <3>1. c \in Takers \/ More(c)
        BY <2>2, GotoMoves DEF Does, Inside, Lock, Entry, Unlock, Return, Malloc, MallocFails, Link, Advance,
           Count, Copy, Unlink, Free, Discount, Popped, ReadSize, ReadFront, Push, Post, PostSpare, Consume,
           AskSize, TakeIfAny, ClearAll, Look, Leave, Call, Takers
      <3>2. CASE More(c)
        <4>1. next[Meta] # NULL
          BY <2>2, <3>2, GotoMoves DEF More
        <4> QED  BY <1>2, <4>1, ChainEnds DEF Shape
      <3> QED  BY <1>2, <3>1, <3>2, TakerFinds
    <2> QED  BY <2>1, <2>2
  <1> QED  BY <1>1, <1>2

-----------------------------------------------------------------------------
(* The types. *)

Labels ==
    {"idle", "gone", "lock", "malloc", "link", "advance", "count", "copy", "more", "unlink", "free",
     "discount", "read", "unlock", "post", "judge"}

\* What the clients hold, and the semaphore.
ClientsTyped ==
    /\ mutex_lock \in Clients \cup {NULL} /\ items \in Nat
    /\ pc \in [Clients -> Labels]
    /\ op \in [Clients -> {"none", "push", "top", "pop", "clear", "size", "front"}]
    /\ elem \in [Clients -> Nodes \cup {NULL}]
    /\ element \in [Clients -> Elements \cup {0}]
    /\ size \in [Clients -> Nat]
    /\ front \in [Clients -> {NULL} \cup {BufferOf(n) : n \in Nodes \cup {NULL}}]

ListTyped ==
    /\ next \in [Nodes \cup {Meta} -> Nodes \cup {NULL}]
    /\ buffer \in [Nodes -> Elements \cup {0}]
    /\ allocated \subseteq Nodes
    /\ tail \in Nodes \cup {Meta} /\ len \in Nat

\* The two make up TypeOK.
LEMMA TypeParts == TypeOK <=> clients \in Uses /\ ClientsTyped /\ ListTyped
  BY DEF TypeOK, ClientsTyped, ListTyped, Labels

\* The variables start with their types.
LEMMA TypeInit == Init => TypeOK
  <1> SUFFICES ASSUME Init PROVE TypeOK
    OBVIOUS
  <1>1. ClientsTyped
    BY DEF Init, ClientsTyped, Labels
  <1>2. ListTyped
    BY DEF Init, ListTyped
  <1> QED  BY <1>1, <1>2, TypeParts DEF Init

\* Each client's variables keep their types.
LEMMA ClientsTypeStep ==
    ASSUME TypeOK, NEW c \in Clients, Does(c)
    PROVE  ClientsTyped'
  <1> USE DEF ClientsTyped, Labels
  <1>1. ClientsTyped /\ ListTyped
    BY TypeParts
  <1>2. ASSUME NEW from, NEW to \in Labels, Goto(c, from, to) PROVE pc' \in [Clients -> Labels]
    BY <1>1, <1>2 DEF Goto
  <1>3. CASE Lock(c)
    BY <1>1, <1>2, <1>3 DEF Lock, Entry
  <1>4. CASE Unlock(c)
    <2>1. Return(c) \in Labels
      BY DEF Return
    <2>2. pc' \in [Clients -> Labels]
      BY <1>2, <1>4, <2>1 DEF Unlock
    <2> QED  BY <1>1, <1>4, <2>2 DEF Unlock
  <1>5. CASE Malloc(c) \/ Unlink(c)
    <2>1. pc' \in [Clients -> Labels]
      BY <1>2, <1>5 DEF Malloc, Unlink
    <2>2. elem' \in [Clients -> Nodes \cup {NULL}]
      BY <1>1, <1>5 DEF Malloc, Unlink, ListTyped
    <2> QED  BY <1>1, <1>5, <2>1, <2>2 DEF Malloc, Unlink
  <1>6. CASE Copy(c)
    <2>1. next[Meta] \in Nodes
      BY <1>1, <1>6 DEF Copy, ListTyped
    <2>2. buffer[next[Meta]] \in Elements \cup {0}
      BY <1>1, <2>1 DEF ListTyped
    <2>3. pc' \in [Clients -> Labels]
      BY <1>2, <1>6 DEF Copy
    <2> QED  BY <1>1, <1>6, <2>2, <2>3 DEF Copy
  <1>7. CASE ReadSize(c) \/ ReadFront(c)
    <2>1. pc' \in [Clients -> Labels]
      BY <1>2, <1>7 DEF ReadSize, ReadFront
    <2>2. CASE ReadSize(c)
      BY <1>1, <2>1, <2>2 DEF ReadSize, ListTyped
    <2>3. CASE ReadFront(c)
      <3>1. next[Meta] \in Nodes \cup {NULL}
        BY <1>1 DEF ListTyped
      <3> HIDE DEF Labels
      <3> QED  BY <1>1, <2>1, <2>3, <3>1 DEF ReadFront
    <2> QED  BY <1>7, <2>2, <2>3
  <1>8. CASE MallocFails(c) \/ Link(c) \/ Advance(c) \/ Count(c) \/ More(c) \/ Free(c) \/ Discount(c)
    BY <1>1, <1>2, <1>8 DEF MallocFails, Link, Advance, Count, More, Free, Discount, Popped
  <1>9. CASE Push(c)
    BY <1>1, <1>2, <1>9 DEF Push, Call
  <1>10. CASE Post(c) \/ PostSpare(c) \/ Leave(c)
    BY <1>1, <1>2, <1>10 DEF Post, PostSpare, Leave
  <1>11. CASE Consume(c) \/ AskSize(c) \/ ClearAll(c) \/ Look(c)
    <2>1. items' \in Nat
      BY <1>1, <1>11 DEF Consume, AskSize, ClearAll, Look
    <2>2. PICK what \in {"top", "pop", "size", "clear", "front"} : Call(c, "idle", what)
      BY <1>11 DEF Consume, AskSize, ClearAll, Look
    <2>3. pc' \in [Clients -> Labels]
      BY <1>2, <2>2 DEF Call
    <2>4. op' \in [Clients -> {"none", "push", "top", "pop", "clear", "size", "front"}]
      BY <1>1, <2>2 DEF Call
    <2>5. UNCHANGED <<mutex_lock, elem, element, size, front>>
      BY <1>11 DEF Consume, AskSize, ClearAll, Look
    <2> QED  BY <1>1, <2>1, <2>3, <2>4, <2>5
  <1>12. CASE TakeIfAny(c)
    BY <1>1, <1>2, <1>12 DEF TakeIfAny, Call
  <1> QED  BY <1>3, <1>4, <1>5, <1>6, <1>7, <1>8, <1>9, <1>10, <1>11, <1>12 DEF Does, Inside

\* The list keeps its types: tail never goes past the last node, and len
\* never below 0.
LEMMA ListTypeStep ==
    ASSUME TypeOK, Control, NEW s, Shape(s), Step
    PROVE  ListTyped'
  <1> USE DEF ListTyped
  <1>1. ListTyped /\ ClientsTyped
    BY TypeParts
  <1>2. ChainOf(s) /\ Len(s) \in Nat
    BY ChainEnds DEF Shape
  <1>3. ASSUME NEW c \in Clients, Does(c)
        PROVE  ListTyped'
    <2>1. CASE Malloc(c)
      <3>1. element[c] \in Elements \cup {0}
        BY <1>1 DEF ClientsTyped
      <3> QED  BY <1>1, <2>1, <3>1 DEF Malloc
    <2>2. CASE Link(c)
      <3>1. elem[c] \in Nodes \cup {NULL}
        BY <1>1 DEF ClientsTyped
      <3> QED  BY <1>1, <2>2, <3>1 DEF Link
    <2>3. CASE Advance(c)
      <3>1. pc[c] = "advance"
        BY <2>3 DEF Advance, Goto
      <3>2. s # <<>> /\ tail = IF Len(s) = 1 THEN Meta ELSE s[Len(s) - 1]
        BY <3>1 DEF Shape, InCall, Row
      <3>3. next[tail] \in Nodes
        <4>1. CASE Len(s) = 1
          BY <1>2, <3>2, <4>1, ChainEnds
        <4>2. CASE Len(s) # 1
          <5>0. Len(s) # 0
            BY <1>2, <3>2, ChainEnds
          <5>1. Len(s) - 1 \in 1..Len(s) /\ Len(s) - 1 # Len(s) /\ (Len(s) - 1) + 1 \in 1..Len(s)
            BY <1>2, <4>2, <5>0, LastIndexes
          <5>2. next[s[Len(s) - 1]] = s[(Len(s) - 1) + 1]
            BY <1>2, <5>1 DEF ChainOf
          <5> QED  BY <1>2, <3>2, <4>2, <5>1, <5>2, ChainEnds
        <4> QED  BY <4>1, <4>2
      <3> QED  BY <1>1, <2>3, <3>3 DEF Advance
    <2>4. CASE Discount(c)
      <3>1. pc[c] = "discount"
        BY <2>4 DEF Discount, Goto
      <3>2. len = Len(s) + 1
        BY <3>1 DEF Shape, InCall, Row
      <3> QED  BY <1>1, <1>2, <2>4, <3>2 DEF Discount
    <2>5. CASE Unlink(c)
      <3>1. next[Meta] \in Nodes
        BY <1>1, <2>5 DEF Unlink
      <3> QED  BY <1>1, <2>5, <3>1 DEF Unlink
    <2>6. CASE Count(c) \/ Free(c)
      BY <1>1, <2>6 DEF Count, Free
    <2>7. CASE ~(Malloc(c) \/ Link(c) \/ Advance(c) \/ Discount(c) \/ Unlink(c) \/ Count(c) \/ Free(c))
      <3>1. UNCHANGED list
        BY <1>3, <2>7 DEF Does, Inside, Lock, Unlock, MallocFails, Copy, More, ReadSize, ReadFront, Push, Post,
           PostSpare, Consume, AskSize, TakeIfAny, ClearAll, Look, Leave
      <3> QED  BY <1>1, <3>1
    <2> QED  BY <2>1, <2>2, <2>3, <2>4, <2>5, <2>6, <2>7
  <1>4. CASE Clear
    <2>1. mutex_lock = NULL
      BY <1>4 DEF Clear, AllGone, InCall, TypeOK, Control, Exclusive
    <2>2. len = Len(s)
      BY <2>1 DEF Shape, Row
    <2>3. next[Meta] \in Nodes
      BY <1>1, <1>4 DEF Clear
    <2>4. Len(s) # 0
      BY <1>2, <1>4, ChainEnds DEF Clear
    <2> QED  BY <1>1, <1>2, <1>4, <2>2, <2>3, <2>4 DEF Clear
  <1>5. CASE Destroyed
    BY <1>1, <1>5 DEF Destroyed, vars
  <1> QED  BY <1>3, <1>4, <1>5, Steps

-----------------------------------------------------------------------------
(* The inductive invariant. *)

\* An empty queue, nobody inside and no token.
LEMMA InvInit == Init => Inv
  <1> SUFFICES ASSUME Init PROVE Inv
    OBVIOUS
  <1>1. TypeOK /\ Control
    BY TypeInit, ControlInit
  <1> DEFINE s == <<>>
  <1>2. s \in Seq(Nodes) /\ Len(s) = 0 /\ Range(s) = {}
    BY EmptySeq DEF Range
  <1>3. \A c \in Clients : pc[c] \in {"idle", "gone"} /\ op[c] = "none" /\ size[c] = 0
    BY DEF Init
  <1>4. ChainOf(s)
    BY <1>2 DEF Init, ChainOf
  <1>5. Row("unlock", NULL, s)
    BY <1>2 DEF Init, Row, EndOf
  <1>6. Shape(s) /\ Filled /\ ClearingFor(s)
    BY <1>3, <1>4, <1>5 DEF Shape, Filled, ClearingFor, InCall
  <1>7. Takers = {} /\ Owed = {}
    BY <1>3 DEF Owed, Takers, Unposted
  <1>8. items + Cardinality(Owed) <= Len(s)
    BY <1>2, <1>7, FS_EmptySet DEF Init
  <1>9. TokensFor(s) /\ CheckedFor(s)
    BY <1>3, <1>7, <1>8 DEF TokensFor, CheckedFor
  <1> HIDE DEF s
  <1> QED  BY <1>1, <1>2, <1>6, <1>9 DEF Inv, QueueInv

\* The list after a step: one node longer for a link, one shorter for an
\* unlink, the same for any other.
LEMMA ListStep ==
    ASSUME TypeOK, Control, NEW s \in Seq(Nodes), QueueInv(s), UNCHANGED clients, NEW c \in Clients, Does(c)
    PROVE  \E t \in Seq(Nodes) :
              /\ Shape(t)'
              /\ Len(t) = Len(s) + (Bit(Link(c)) - Bit(Unlink(c)))
              /\ t = s \/ (Link(c) /\ t # <<>>) \/ Unlink(c)
  <1>1. Shape(s) /\ Len(s) \in Nat
    BY LenProperties DEF QueueInv
  <1>2. CASE Link(c)
    <2>1. PICK n \in Nodes : Shape(Append(s, n))'
      BY <1>1, <1>2, LinkShape
    <2>2. Append(s, n) \in Seq(Nodes) /\ Len(Append(s, n)) = Len(s) + 1 /\ Append(s, n) # <<>>
      BY AppendProperties
    <2>3. Bit(Link(c)) = 1 /\ Bit(Unlink(c)) = 0
      BY <1>2 DEF Link, Unlink, Goto, Bit
    <2>4. Len(Append(s, n)) = Len(s) + (Bit(Link(c)) - Bit(Unlink(c)))
      BY <1>1, <2>2, <2>3
    <2> QED  BY <1>2, <2>1, <2>2, <2>4
  <1>3. CASE Unlink(c)
    <2>1. Shape(Tail(s))' /\ s # <<>>
      BY <1>1, <1>3, UnlinkShape
    <2>2. Tail(s) \in Seq(Nodes) /\ Len(Tail(s)) = Len(s) - 1
      BY <2>1, HeadTailProperties
    <2>3. Bit(Link(c)) = 0 /\ Bit(Unlink(c)) = 1
      BY <1>3 DEF Link, Unlink, Goto, Bit
    <2>4. Len(Tail(s)) = Len(s) + (Bit(Link(c)) - Bit(Unlink(c)))
      BY <1>1, <2>2, <2>3
    <2> QED  BY <1>3, <2>1, <2>2, <2>4
  <1>4. ASSUME ~Link(c) /\ ~Unlink(c)
        PROVE  Shape(s)'
    <2>1. CASE Inside(c)
      <3>1. CASE MallocFails(c) \/ Copy(c) \/ More(c) \/ ReadSize(c) \/ ReadFront(c)
        <4>1. UNCHANGED list
          BY <3>1 DEF MallocFails, Copy, More, ReadSize, ReadFront
        <4> QED  BY <1>1, <3>1, <4>1, SameShape
      <3> QED  BY <1>1, <1>4, <2>1, <3>1, LockShape, MallocShape, AdvanceShape, FreeShape DEF Inside
    <2>2. CASE ~Inside(c)
      <3>1. Outside
        BY <2>2 DEF Does, Outside, Clients
      <3> QED  BY <1>1, <3>1, OutsideShape
    <2> QED  BY <2>1, <2>2
  <1>5. CASE ~Link(c) /\ ~Unlink(c)
    <2>1. Bit(Link(c)) = 0 /\ Bit(Unlink(c)) = 0
      BY <1>5 DEF Bit
    <2>2. Len(s) = Len(s) + (0 - 0)
      BY <1>1
    <2> QED  BY <1>4, <1>5, <2>1, <2>2
  <1> QED  BY <1>2, <1>3, <1>5

\* Every step keeps the list and what is promised of it.
LEMMA InvStep == Inv /\ [Next]_vars => Inv'
  <1> SUFFICES ASSUME Inv, [Next]_vars PROVE Inv'
    OBVIOUS
  <1> USE DEF Inv
  <1>1. PICK s \in Seq(Nodes) : QueueInv(s)
    OBVIOUS
  <1>2. Control' /\ Filled'
    BY <1>1, ControlStep, FilledStep DEF QueueInv
  <1>3. ASSUME UNCHANGED vars PROVE Inv'
    <2>1. TypeOK'
      BY <1>3 DEF vars, TypeOK
    <2>2. Shape(s)'
      BY <1>1, <1>3 DEF vars, QueueInv, Shape, ChainOf, Row, EndOf
    <2>3. TokensFor(s)' /\ CheckedFor(s)' /\ ClearingFor(s)'
      BY <1>1, <1>3 DEF vars, QueueInv, TokensFor, CheckedFor, ClearingFor, Owed, Takers, Unposted, AllGone
    <2> QED  BY <1>1, <1>2, <2>1, <2>2, <2>3 DEF QueueInv
  <1>4. ASSUME UNCHANGED clients, Step PROVE TypeOK'
    <2>1. ListTyped'
      BY <1>1, <1>4, ListTypeStep DEF QueueInv
    <2>2. ClientsTyped'
      <3>1. CASE Clear \/ Destroyed
        <4>1. UNCHANGED <<mutex_lock, items, pc, op, elem, answers>>
          BY <3>1 DEF Clear, Destroyed, vars
        <4> QED  BY <4>1, TypeParts DEF ClientsTyped
      <3> QED  BY <1>4, <3>1, Steps, ClientsTypeStep
    <2>3. clients' \in Uses
      BY <1>4 DEF TypeOK
    <2>4. (clients \in Uses /\ ClientsTyped /\ ListTyped)'
      BY <2>1, <2>2, <2>3
    <2> QED  BY <2>1, <2>2, <2>3 DEF TypeOK, ClientsTyped, ListTyped, Labels
  <1>5. ASSUME UNCHANGED clients, NEW c \in Clients, Does(c)
        PROVE  Inv'
    <2>1. PICK t \in Seq(Nodes) :
              /\ Shape(t)'
              /\ Len(t) = Len(s) + (Bit(Link(c)) - Bit(Unlink(c)))
              /\ t = s \/ (Link(c) /\ t # <<>>) \/ Unlink(c)
      BY <1>1, <1>5, ListStep
    <2>2. TokensFor(t)'
      BY <1>1, <1>5, <2>1, TokensStep DEF QueueInv
    <2>3. CheckedFor(t)'
      BY <1>1, <1>5, <2>1, CheckedStep DEF QueueInv
    <2>4. ClearingFor(t)'
      BY <1>1, <1>5, <2>1, ClearingStep DEF QueueInv
    <2>5. TypeOK'
      <3>1. CASE Step
        BY <1>4, <1>5, <3>1
      <3>2. Step
        BY <1>5 DEF Does, Step, Clients
      <3> QED  BY <3>1, <3>2
    <2> QED  BY <1>2, <2>1, <2>2, <2>3, <2>4, <2>5 DEF QueueInv
  <1>6. ASSUME UNCHANGED clients, Clear
        PROVE  Inv'
    <2>1. Shape(Tail(s))' /\ s # <<>>
      BY <1>1, <1>6, ClearShape DEF QueueInv
    <2>2. Tail(s) \in Seq(Nodes)
      BY <2>1, HeadTailProperties
    <2>3. \A c \in Clients : pc'[c] = "gone" /\ op'[c] = "none" /\ ~(size'[c] > 0)
      BY <1>6 DEF Clear, AllGone, Control, Disciplined, OwnAnswers
    <2>4. TokensFor(Tail(s))' /\ CheckedFor(Tail(s))' /\ ClearingFor(Tail(s))'
      BY <2>3 DEF TokensFor, AllGone, CheckedFor, Takers, ClearingFor
    <2>5. TypeOK'
      BY <1>4, <1>6 DEF Step
    <2> QED  BY <1>2, <2>1, <2>2, <2>4, <2>5 DEF QueueInv
  <1> QED  BY <1>3, <1>5, <1>6, Steps DEF Next, Destroyed

\* The invariant that the theorems rest on.
THEOREM QueueKeeps == Spec => []Inv
  <1> QED  BY InvInit, InvStep, PTL DEF Spec

-----------------------------------------------------------------------------
(* LiveNodes. *)

\* Which node a call touches, and why it is allocated.
LEMMA InvLive == Inv => LiveNodes
  <1> SUFFICES ASSUME Inv, NEW c \in Clients
               PROVE  /\ pc[c] \in {"copy", "unlink"} => next[Meta] \in allocated
                      /\ pc[c] \in {"link", "advance"} => tail \in allocated \cup {Meta}
                      /\ pc[c] \in {"link", "advance", "count", "free"} => elem[c] \in allocated
    BY DEF LiveNodes
  <1> USE DEF Inv
  <1>1. PICK s \in Seq(Nodes) : QueueInv(s)
    OBVIOUS
  <1>2. ChainOf(s) /\ Len(s) \in Nat /\ (pc[c] \in InCall => Row(pc[c], elem[c], s))
    BY <1>1, LenProperties DEF QueueInv, Shape
  <1>3. s # <<>> => /\ next[Meta] \in Range(s) /\ EndOf(s) \in Range(s)
                    /\ Len(s) # 1 => s[Len(s) - 1] \in Range(s)
    <2> SUFFICES ASSUME s # <<>>
                 PROVE  /\ next[Meta] \in Range(s) /\ EndOf(s) \in Range(s)
                        /\ Len(s) # 1 => s[Len(s) - 1] \in Range(s)
      OBVIOUS
    <2>1. Len(s) # 0
      BY <1>2, ChainEnds
    <2>2. 1 \in 1..Len(s) /\ Len(s) \in 1..Len(s) /\ (Len(s) # 1 => Len(s) - 1 \in 1..Len(s))
      BY <1>2, <2>1, LastIndexes
    <2> QED  BY <1>2, <2>2, ChainEnds
  <1>4. Range(s) \subseteq allocated
    <2>1. CASE mutex_lock = NULL
      BY <1>1, <2>1 DEF QueueInv, Shape, Row
    <2>2. CASE mutex_lock # NULL
      <3>1. mutex_lock \in Clients /\ pc[mutex_lock] \in InCall
        BY <2>2 DEF TypeOK, Control, Exclusive
      <3> QED  BY <1>1, <3>1 DEF QueueInv, Shape, Row
    <2> QED  BY <2>1, <2>2
  <1>5. ASSUME pc[c] \in {"copy", "unlink"}
        PROVE  next[Meta] \in allocated
    <2>1. CASE pc[c] = "copy"
      <3>1. c \in Takers
        BY <2>1 DEF Takers
      <3> QED  BY <1>1, <1>3, <1>4, <3>1, TakerFinds DEF QueueInv
    <2>2. CASE pc[c] = "unlink"
      BY <1>1, <1>3, <1>4, <2>2 DEF QueueInv, ClearingFor
    <2> QED  BY <1>5, <2>1, <2>2
  <1>6. ASSUME pc[c] = "link"
        PROVE  tail \in allocated \cup {Meta} /\ elem[c] \in allocated
    <2>1. Row("link", elem[c], s)
      BY <1>2, <1>6 DEF InCall
    <2>2. tail = EndOf(s) /\ elem[c] \in allocated
      BY <2>1 DEF Row
    <2> QED  BY <1>3, <1>4, <2>2 DEF EndOf
  <1>7. ASSUME pc[c] = "advance"
        PROVE  tail \in allocated \cup {Meta} /\ elem[c] \in allocated
    <2>1. Row("advance", elem[c], s)
      BY <1>2, <1>7 DEF InCall
    <2>2. s # <<>> /\ elem[c] = EndOf(s) /\ tail = IF Len(s) = 1 THEN Meta ELSE s[Len(s) - 1]
      BY <2>1 DEF Row
    <2> QED  BY <1>3, <1>4, <2>2
  <1>8. ASSUME pc[c] = "count"
        PROVE  elem[c] \in allocated
    <2>1. Row("count", elem[c], s)
      BY <1>2, <1>8 DEF InCall
    <2> QED  BY <1>3, <1>4, <2>1 DEF Row
  <1>9. ASSUME pc[c] = "free"
        PROVE  elem[c] \in allocated
    <2>1. Row("free", elem[c], s)
      BY <1>2, <1>9 DEF InCall
    <2> QED  BY <2>1 DEF Row
  <1> QED  BY <1>5, <1>6, <1>7, <1>8, <1>9

\* queue.c: a call reads, writes and frees only nodes that malloc has given
\* and free has not taken back, and nobody takes from an empty list.
THEOREM LiveNodesHeld == Spec => []LiveNodes
  <1> QED  BY QueueKeeps, InvLive, PTL

-----------------------------------------------------------------------------
(* The list as Nth walks it. *)

\* A set of numbers has a least one: induction, without an operator for it.
LEMMA LeastNumber ==
    ASSUME NEW T \in SUBSET Nat, T # {}
    PROVE  \E n \in T : \A m \in T : n <= m
  <1> DEFINE R == OpToRel(<, Nat)
  <1>1. IsWellFoundedOn(R, Nat)
    BY NatLessThanWellFounded
  <1>2. R = {ss \in Nat \X Nat : ss[1] < ss[2]}
    BY DEF OpToRel
  <1> HIDE DEF R
  <1>3. PICK n \in T : \A m \in T : ~ (<<m, n>> \in R)
    BY <1>1, WFMin
  <1>4. \A m \in T : ~ (m < n)
    BY <1>2, <1>3
  <1> QED  BY <1>3, <1>4

\* Meta, the nodes of s, and then NULL.
Path(s) == [k \in Nat |-> IF k = 0 THEN Meta ELSE IF k <= Len(s) THEN s[k] ELSE NULL]

\* f follows the pointers.
Walks(f) ==
    f = [k \in Nat |-> IF k = 0 THEN Meta ELSE IF f[k - 1] = NULL THEN NULL ELSE next[f[k - 1]]]

\* The way through a chain is its nodes ...
LEMMA PathWalks ==
    ASSUME TypeOK, NEW s, ChainOf(s)
    PROVE  Walks(Path(s))
  <1>1. s \in Seq(Nodes) /\ Len(s) \in Nat
    BY ChainEnds
  <1> SUFFICES ASSUME NEW k \in Nat, k # 0
               PROVE  Path(s)[k] = IF Path(s)[k - 1] = NULL THEN NULL ELSE next[Path(s)[k - 1]]
    BY DEF Path, Walks
  <1>2. Meta # NULL
    BY ClientsAssumption
  <1>3. CASE k = 1
    <2>1. Path(s)[k - 1] = Meta
      BY <1>3 DEF Path
    <2>2. Path(s)[k] = IF 1 <= Len(s) THEN s[1] ELSE NULL
      BY <1>3 DEF Path
    <2>3. 1 <= Len(s) <=> s # <<>>
      BY <1>1, ChainEnds
    <2> QED  BY <1>2, <2>1, <2>2, <2>3, ChainEnds
  <1>4. CASE k # 1 /\ k - 1 <= Len(s)
    <2>1. k - 1 \in 1..Len(s) /\ k - 1 # 0 /\ k - 1 \in Nat /\ (k - 1) + 1 = k
      BY <1>1, <1>4
    <2>2. Path(s)[k - 1] = s[k - 1]
      BY <1>4, <2>1 DEF Path
    <2>3. s[k - 1] # NULL
      BY <2>1, ChainEnds
    <2>4. next[s[k - 1]] = IF k - 1 = Len(s) THEN NULL ELSE s[(k - 1) + 1]
      BY <2>1 DEF ChainOf
    <2>5. Path(s)[k] = IF k <= Len(s) THEN s[k] ELSE NULL
      BY DEF Path
    <2>6. k <= Len(s) <=> k - 1 # Len(s)
      BY <1>1, <1>4
    <2> QED  BY <2>1, <2>2, <2>3, <2>4, <2>5, <2>6
  <1>5. CASE k # 1 /\ ~(k - 1 <= Len(s))
    <2>1. k - 1 \in Nat /\ k - 1 # 0 /\ ~(k <= Len(s))
      BY <1>1, <1>5
    <2> QED  BY <1>5, <2>1 DEF Path
  <1> QED  BY <1>3, <1>4, <1>5

\* ... and there is no other way.
LEMMA OneWay ==
    ASSUME NEW f, NEW g, Walks(f), Walks(g)
    PROVE  f = g
  <1> DEFINE T == {k \in Nat : f[k] # g[k]}
  <1>1. \A k \in Nat : k # 0 =>
          /\ f[k] = IF f[k - 1] = NULL THEN NULL ELSE next[f[k - 1]]
          /\ g[k] = IF g[k - 1] = NULL THEN NULL ELSE next[g[k - 1]]
    BY DEF Walks
  <1>2. f[0] = g[0]
    BY DEF Walks
  <1>3. T = {}
    <2> SUFFICES ASSUME T # {} PROVE FALSE
      OBVIOUS
    <2>1. PICK n \in T : \A m \in T : n <= m
      BY LeastNumber
    <2>2. n \in Nat /\ n # 0 /\ n - 1 \in Nat /\ ~(n <= n - 1)
      BY <1>2
    <2>3. f[n - 1] = g[n - 1]
      BY <2>1, <2>2
    <2> QED  BY <1>1, <2>2, <2>3
  <1>4. \A k \in Nat : f[k] = g[k]
    BY <1>3
  <1>5. f = [k \in Nat |-> f[k]] /\ g = [k \in Nat |-> g[k]]
    BY DEF Walks
  <1> QED  BY <1>4, <1>5

\* So Nth walks the chain.
LEMMA NthWalks ==
    ASSUME TypeOK, NEW s, ChainOf(s)
    PROVE  Nth = Path(s)
  <1>1. Walks(Path(s))
    BY PathWalks
  <1>2. Nth = CHOOSE f : Walks(f)
    BY DEF Nth, Walks
  <1>3. Walks(Nth)
    BY <1>1, <1>2
  <1> QED  BY <1>1, <1>3, OneWay

\* A chain is no longer than there are nodes.
LEMMA ChainFits ==
    ASSUME TypeOK, NEW s, ChainOf(s)
    PROVE  Len(s) \in 0..Cardinality(Nodes)
  <1>1. s \in Seq(Nodes) /\ Len(s) \in Nat
    BY ChainEnds
  <1>2. s \in Injection(1..Len(s), Nodes)
    <2>1. s \in [1..Len(s) -> Nodes]
      BY <1>1, LenProperties
    <2>2. \A i, j \in 1..Len(s) : s[i] = s[j] => i = j
      BY DEF ChainOf
    <2> QED  BY <2>1, <2>2 DEF Injection, IsInjective
  <1>3. Cardinality(1..Len(s)) <= Cardinality(Nodes)
    BY <1>2, ClientsAssumption, FS_Injection
  <1>4. Cardinality(1..Len(s)) = Len(s)
    <2>0. 1 \in Int /\ Len(s) \in Int
      BY <1>1
    <2>1. Cardinality(1..Len(s)) = IF 1 > Len(s) THEN 0 ELSE Len(s) - 1 + 1
      BY ONLY <2>0, FS_Interval, Zenon
    <2> QED  BY <1>1, <2>1
  <1>5. Cardinality(Nodes) \in Nat
    BY ClientsAssumption, FS_CardinalityType
  <1> QED  BY <1>1, <1>3, <1>4, <1>5

\* What Nth, Length and Contents are of a chain.
Told(s) ==
    /\ Nth = Path(s)
    /\ Length = Len(s)
    /\ Contents = [k \in 1..Len(s) |-> buffer[s[k]]]

\* All the three follow from what the chain is.
LEMMA ChainTold ==
    ASSUME TypeOK, NEW s, ChainOf(s)
    PROVE  /\ Told(s)
           /\ Nth[Len(s)] # NULL /\ Nth[Len(s) + 1] = NULL
           /\ Nth[Len(s)] = EndOf(s)
           /\ \A k \in 1..Len(s) : Nth[k] = s[k]
  <1>1. Nth = Path(s)
    BY NthWalks
  <1>2. s \in Seq(Nodes) /\ Len(s) \in 0..Cardinality(Nodes) /\ Cardinality(Nodes) \in Nat
    BY ChainEnds, ChainFits, ClientsAssumption, FS_CardinalityType
  <1>3. \A k \in Nat : Nth[k] # NULL <=> k <= Len(s)
    <2> SUFFICES ASSUME NEW k \in Nat
                 PROVE  Path(s)[k] # NULL <=> k <= Len(s)
      BY <1>1
    <2>1. CASE k = 0
      BY <1>2, <2>1, ClientsAssumption DEF Path
    <2>2. CASE k \in 1..Len(s)
      <3>1. s[k] # NULL
        BY <2>2, ChainEnds
      <3> QED  BY <2>2, <3>1 DEF Path
    <2>3. CASE k # 0 /\ ~(k <= Len(s))
      BY <2>3 DEF Path
    <2> QED  BY <1>2, <2>1, <2>2, <2>3
  <1>4. Length = Len(s)
    <2> DEFINE End(k) == Nth[k] # NULL /\ Nth[k + 1] = NULL
    <2>1. \A k \in 0..Cardinality(Nodes) : End(k) <=> k = Len(s)
      <3> TAKE k \in 0..Cardinality(Nodes)
      <3>1. k \in Nat /\ k + 1 \in Nat
        BY <1>2
      <3>2. End(k) <=> k <= Len(s) /\ ~(k + 1 <= Len(s))
        BY <1>3, <3>1
      <3> QED  BY <1>2, <3>1, <3>2
    <2>2. Length = CHOOSE k \in 0..Cardinality(Nodes) : End(k)
      BY DEF Length
    <2> HIDE DEF End
    <2> QED  BY <1>2, <2>1, <2>2
  <1>5. \A k \in 1..Len(s) : Nth[k] = s[k]
    BY <1>1, <1>2 DEF Path
  <1>6. Contents = [k \in 1..Len(s) |-> buffer[s[k]]]
    BY <1>4, <1>5 DEF Contents
  <1>7. Nth[Len(s)] # NULL /\ Nth[Len(s) + 1] = NULL
    BY <1>2, <1>3
  <1>8. Nth[Len(s)] = EndOf(s)
    <2>1. CASE s = <<>>
      <3>1. Len(s) = 0 /\ EndOf(s) = Meta
        BY <2>1, ChainEnds
      <3> QED  BY <1>1, <3>1 DEF Path
    <2>2. CASE s # <<>>
      <3>1. Len(s) # 0 /\ EndOf(s) = s[Len(s)]
        BY <2>2, ChainEnds
      <3> QED  BY <1>2, <1>5, <3>1, LastIndexes
    <2> QED  BY <2>1, <2>2
  <1> QED  BY <1>1, <1>4, <1>5, <1>6, <1>7, <1>8 DEF Told

\* With nobody inside the list is whole.
LEMMA InvLinked == Inv => Linked
  <1> SUFFICES ASSUME Inv, mutex_lock = NULL
               PROVE  /\ \E k \in 0..Cardinality(Nodes) : Nth[k] # NULL /\ Nth[k + 1] = NULL
                      /\ len = Length
                      /\ tail = Nth[Length]
                      /\ allocated = {Nth[k] : k \in 1..Length}
    BY DEF Inv, Linked
  <1> USE DEF Inv
  <1>1. PICK s \in Seq(Nodes) : QueueInv(s)
    OBVIOUS
  <1>2. ChainOf(s) /\ Row("unlock", NULL, s)
    BY <1>1 DEF QueueInv, Shape
  <1>3. Whole(s)
    BY <1>2, QuietRow DEF Quiet
  <1>4. /\ Length = Len(s) /\ Nth[Len(s)] # NULL /\ Nth[Len(s) + 1] = NULL
        /\ Nth[Len(s)] = EndOf(s) /\ \A k \in 1..Len(s) : Nth[k] = s[k]
    BY <1>2, ChainTold DEF Told
  <1>5. Len(s) \in 0..Cardinality(Nodes)
    BY <1>2, ChainFits
  <1>6. Range(s) = {Nth[k] : k \in 1..Length}
    <2>1. DOMAIN s = 1..Len(s)
      BY <1>2, ChainEnds
    <2>2. Range(s) = {s[k] : k \in 1..Len(s)}
      BY <2>1 DEF Range
    <2> QED  BY <1>4, <2>2
  <1> QED  BY <1>3, <1>4, <1>5, <1>6 DEF Whole

\* queue.c: between the calls the list ends at tail, is as long as len says,
\* and consists of the nodes malloc has given and free not taken back.
THEOREM QueueLinked == Spec => []Linked
  <1> QED  BY QueueKeeps, InvLinked, PTL

-----------------------------------------------------------------------------
(* The refinement of Fifo. *)

\* What Fifo sees of the list, and of the clients' elements.
Seen == IF Taking THEN Tail(Contents) ELSE Contents
Given == [c \in Clients |-> IF c \in Producers THEN 0 ELSE element[c]]

\* The elements of the nodes of s.
View(s) == [k \in 1..Len(s) |-> buffer[s[k]]]

\* The queue contains the elements of its chain.
Chains == \A s : TypeOK /\ ChainOf(s) => Contents = View(s)

\* Each chain is told so ...
LEMMA ChainsNow == Chains
  BY ChainTold DEF Chains, Told, View

\* ... also after a step.
LEMMA ChainsNext == Chains'
  BY ChainsNow, PTL

\* A view is a sequence, and its first and the rest are the chain's.
LEMMA ViewOf ==
    ASSUME TypeOK, NEW s, ChainOf(s)
    PROVE  /\ View(s) \in Seq(Elements \cup {0}) /\ Len(View(s)) = Len(s)
           /\ s # <<>> => View(s) # <<>> /\ Head(View(s)) = buffer[next[Meta]]
  <1>1. s \in Seq(Nodes) /\ Len(s) \in Nat /\ \A i \in 1..Len(s) : s[i] \in Nodes
    BY ChainEnds
  <1>2. View(s) \in [1..Len(s) -> Elements \cup {0}]
    BY <1>1 DEF View, TypeOK
  <1>3. View(s) \in Seq(Elements \cup {0}) /\ Len(View(s)) = Len(s)
    BY <1>1, <1>2, IsASeq, LenProperties
  <1>4. ASSUME s # <<>>
        PROVE  View(s) # <<>> /\ Head(View(s)) = buffer[next[Meta]]
    <2>1. Len(s) # 0 /\ next[Meta] = s[1]
      BY <1>4, ChainEnds
    <2>2. View(s) # <<>>
      BY <1>3, <2>1, EmptySeq
    <2>3. View(s)[1] = buffer[s[1]]
      BY <1>1, <2>1, LastIndexes DEF View
    <2> QED  BY <1>3, <2>1, <2>2, <2>3, HeadTailProperties
  <1> QED  BY <1>3, <1>4

\* Only the client inside can be in the middle of a top.
LEMMA OnlyInside ==
    ASSUME TypeOK, Control, NEW c \in Clients, pc[c] \in InCall
    PROVE  Taking <=> pc[c] = "unlink" /\ op[c] = "top"
  BY DEF Control, Exclusive, InCall, Taking

\* A step that keeps the list, its elements and who takes changes nothing
\* that Fifo sees of it.
LEMMA SameSeen ==
    ASSUME TypeOK, TypeOK', NEW s, ChainOf(s), ChainOf(s)',
           \A n \in Range(s) : buffer'[n] = buffer[n], Taking' <=> Taking
    PROVE  Seen' = Seen
  <1>1. Contents = View(s) /\ Contents' = View(s)'
    BY ChainsNow, ChainsNext DEF Chains
  <1>2. View(s)' = View(s)
    BY ChainEnds DEF View
  <1> QED  BY <1>1, <1>2 DEF Seen

\* The first node unlinked, the view is the rest of it.
LEMMA TailView ==
    ASSUME TypeOK, NEW s, ChainOf(s), s # <<>>, next' = [next EXCEPT ![Meta] = next[next[Meta]]],
           UNCHANGED buffer
    PROVE  ChainOf(Tail(s))' /\ View(Tail(s))' = Tail(View(s))
  <1>1. s \in Seq(Nodes) /\ Len(s) \in Nat /\ Len(s) # 0
    BY ChainEnds
  <1>2. /\ ChainOf(Tail(s))' /\ Len(Tail(s)) = Len(s) - 1
        /\ \A i \in 1..(Len(s) - 1) : Tail(s)[i] = s[i + 1]
    BY ChainUnlink
  <1>3. View(s) \in Seq(Elements \cup {0}) /\ View(s) # <<>> /\ Len(View(s)) = Len(s)
    BY ViewOf
  <1>4. /\ Tail(View(s)) \in Seq(Elements \cup {0}) /\ Len(Tail(View(s))) = Len(s) - 1
        /\ \A i \in 1..(Len(s) - 1) : Tail(View(s))[i] = View(s)[i + 1]
    BY <1>3, HeadTailProperties
  <1>5. Tail(View(s)) = [i \in 1..(Len(s) - 1) |-> View(s)[i + 1]]
    BY <1>4, LenProperties
  <1>6. View(Tail(s))' = [i \in 1..(Len(s) - 1) |-> buffer[s[i + 1]]]
    BY <1>2 DEF View
  <1>7. \A i \in 1..(Len(s) - 1) : View(s)[i + 1] = buffer[s[i + 1]]
    BY <1>1 DEF View
  <1> QED  BY <1>2, <1>5, <1>6, <1>7

\* A link is a push of the element the producer holds.
LEMMA LinkPushes ==
    ASSUME Inv, Inv', UNCHANGED clients, NEW c \in Clients, Link(c)
    PROVE  \E e \in Elements : Promise!Push(e)
  <1> USE DEF Inv
  <1>1. PICK s \in Seq(Nodes) : QueueInv(s)
    OBVIOUS
  <1>2. ChainOf(s) /\ Shape(s) /\ pc[c] = "link" /\ op[c] = "push" /\ pc'[c] = "advance" /\ op' = op
    BY <1>1, GotoMoves DEF QueueInv, Shape, Link, Control, Disciplined
  <1>3. PICK n \in Nodes \ Range(s) : n = elem[c] /\ Shape(Append(s, n))'
    BY <1>2, LinkShape
  <1>4. ~Taking /\ ~Taking'
    <2>1. ~Taking
      BY <1>2, OnlyInside DEF InCall
    <2>2. ~Taking'
      BY <1>2 DEF Control, Exclusive, InCall, Taking
    <2> QED  BY <2>1, <2>2
  <1>5. Contents = View(s) /\ Contents' = View(Append(s, n))'
    BY <1>2, <1>3, ChainsNow, ChainsNext DEF Chains, Shape
  <1>6. buffer[n] = element[c] /\ element[c] \in Elements /\ UNCHANGED <<buffer, element, size>>
    BY <1>1, <1>2, <1>3 DEF QueueInv, Filled, Control, OwnAnswers, Link
  <1>7. View(Append(s, n))' = Append(View(s), element[c])
    <2>1. s \in Seq(Nodes) /\ Len(s) \in Nat
      BY LenProperties
    <2>2. /\ Len(Append(s, n)) = Len(s) + 1 /\ Append(s, n)[Len(s) + 1] = n
          /\ \A i \in 1..Len(s) : Append(s, n)[i] = s[i]
      BY AppendProperties
    <2>3. View(Append(s, n))' = [i \in 1..(Len(s) + 1) |-> buffer[Append(s, n)[i]]]
      BY <1>6, <2>2 DEF View
    <2>4. View(s) \in Seq(Elements \cup {0}) /\ Len(View(s)) = Len(s)
      BY <1>2, ViewOf
    <2>5. /\ Append(View(s), element[c]) \in Seq(Elements \cup {0})
          /\ Len(Append(View(s), element[c])) = Len(s) + 1
          /\ Append(View(s), element[c])[Len(s) + 1] = element[c]
          /\ \A i \in 1..Len(s) : Append(View(s), element[c])[i] = View(s)[i]
      BY <1>6, <2>4, AppendProperties
    <2>6. Append(View(s), element[c]) = [i \in 1..(Len(s) + 1) |-> Append(View(s), element[c])[i]]
      BY <2>5, LenProperties
    <2>7. \A i \in 1..(Len(s) + 1) : Append(View(s), element[c])[i] = buffer[Append(s, n)[i]]
      <3> TAKE i \in 1..(Len(s) + 1)
      <3>1. CASE i = Len(s) + 1
        BY <1>6, <2>2, <2>5, <3>1
      <3>2. CASE i \in 1..Len(s)
        <4>1. View(s)[i] = buffer[s[i]]
          BY <3>2 DEF View
        <4>2. Append(View(s), element[c])[i] = View(s)[i]
          BY <2>5, <3>2
        <4>3. Append(s, n)[i] = s[i]
          BY <2>2, <3>2
        <4> QED  BY <4>1, <4>2, <4>3
      <3>3. i = Len(s) + 1 \/ i \in 1..Len(s)
        BY <2>1
      <3> QED  BY <3>1, <3>2, <3>3
    <2> QED  BY <2>3, <2>6, <2>7
  <1>8. Seen' = Append(Seen, element[c])
    BY <1>4, <1>5, <1>7 DEF Seen
  <1>9. Given' = Given /\ size' = size
    BY <1>6 DEF Given
  <1> QED  BY <1>6, <1>8, <1>9 DEF Promise!Push, Seen, Given

\* An unlink for a pop is a pop; a top has taken its element before.
LEMMA UnlinkPops ==
    ASSUME Inv, Inv', UNCHANGED clients, NEW c \in Clients, Unlink(c)
    PROVE  Promise!Pop \/ UNCHANGED Promise!vars
  <1> USE DEF Inv
  <1>1. PICK s \in Seq(Nodes) : QueueInv(s)
    OBVIOUS
  <1>2. /\ ChainOf(s) /\ s # <<>> /\ pc[c] = "unlink" /\ pc'[c] = "free" /\ op' = op
        /\ next' = [next EXCEPT ![Meta] = next[next[Meta]]] /\ UNCHANGED <<buffer, element, size>>
    BY <1>1, GotoMoves DEF QueueInv, Shape, ClearingFor, Unlink
  <1>3. ~Taking' /\ (Taking <=> op[c] = "top")
    <2>1. Taking <=> op[c] = "top"
      BY <1>2, OnlyInside DEF InCall
    <2>2. ~Taking'
      BY <1>2 DEF Control, Exclusive, InCall, Taking
    <2> QED  BY <2>1, <2>2
  <1>4. ChainOf(Tail(s))' /\ View(Tail(s))' = Tail(View(s))
    BY <1>2, TailView
  <1>5. Contents = View(s) /\ Contents' = Tail(View(s))
    BY <1>2, <1>4, ChainsNow, ChainsNext DEF Chains
  <1>6. View(s) # <<>>
    BY <1>2, ViewOf
  <1>7. Given' = Given /\ size' = size
    BY <1>2 DEF Given
  <1> QED  BY <1>3, <1>5, <1>6, <1>7 DEF Promise!Pop, Promise!vars, Seen, Given

\* So is each pop of the destruction.
LEMMA ClearPops ==
    ASSUME Inv, Inv', UNCHANGED clients, Clear
    PROVE  Promise!Pop
  <1> USE DEF Inv
  <1>1. PICK s \in Seq(Nodes) : QueueInv(s)
    OBVIOUS
  <1>2. ChainOf(s) /\ s # <<>>
    BY <1>1, ChainEnds DEF QueueInv, Shape, Clear
  <1>3. ~Taking /\ ~Taking' /\ UNCHANGED <<element, size>>
    BY DEF Clear, AllGone, Taking
  <1>4. ChainOf(Tail(s))' /\ View(Tail(s))' = Tail(View(s))
    BY <1>2, TailView DEF Clear
  <1>5. Contents = View(s) /\ Contents' = Tail(View(s))
    BY <1>2, <1>4, ChainsNow, ChainsNext DEF Chains
  <1>6. View(s) # <<>>
    BY <1>2, ViewOf
  <1> QED  BY <1>3, <1>5, <1>6 DEF Promise!Pop

\* The copy of a top takes the element.
LEMMA CopyTops ==
    ASSUME Inv, Inv', UNCHANGED clients, NEW c \in Clients, Copy(c)
    PROVE  Promise!Top(c)
  <1> USE DEF Inv
  <1>1. PICK s \in Seq(Nodes) : QueueInv(s)
    OBVIOUS
  <1>2. /\ ChainOf(s) /\ pc[c] = "copy" /\ op[c] = "top" /\ pc'[c] = "unlink" /\ op' = op
        /\ UNCHANGED <<next, buffer, size>> /\ element' = [element EXCEPT ![c] = buffer[next[Meta]]]
    BY <1>1, GotoMoves DEF QueueInv, Shape, Copy, Control, Disciplined
  <1>3. ~Taking /\ Taking'
    BY <1>2, OnlyInside DEF InCall, Taking
  <1>4. ChainOf(s)'
    BY <1>2, ChainSame
  <1>5. Contents = View(s) /\ Contents' = View(s)'
    BY <1>2, <1>4, ChainsNow, ChainsNext DEF Chains
  <1>6. View(s)' = View(s)
    BY <1>2 DEF View
  <1>7. s # <<>>
    <2>1. c \in Takers
      BY <1>2 DEF Takers
    <2> QED  BY <1>1, <2>1, TakerFinds DEF QueueInv
  <1>8. View(s) # <<>> /\ Head(View(s)) = buffer[next[Meta]]
    BY <1>2, <1>7, ViewOf
  <1>9. c \notin Producers
    BY <1>2, ClientsAssumption DEF Control, Disciplined
  <1>10. Given' = [Given EXCEPT ![c] = buffer[next[Meta]]]
    <2>1. \A d \in Clients : element'[d] = IF d = c THEN buffer[next[Meta]] ELSE element[d]
      BY <1>2, ClientTypes
    <2> QED  BY <1>9, <2>1 DEF Given
  <1>11. Contents # <<>> /\ Contents' = Contents /\ Head(Contents) = buffer[next[Meta]]
    BY <1>5, <1>6, <1>8
  <1> QED  BY <1>2, <1>3, <1>10, <1>11 DEF Promise!Top, Given

\* What ts_queue_size reads is the length.
LEMMA ReadIsSize ==
    ASSUME Inv, Inv', UNCHANGED clients, NEW c \in Clients, ReadSize(c)
    PROVE  Promise!Size(c)
  <1> USE DEF Inv
  <1>1. PICK s \in Seq(Nodes) : QueueInv(s)
    OBVIOUS
  <1>2. /\ ChainOf(s) /\ pc[c] = "read" /\ pc'[c] = "unlock" /\ op' = op
        /\ UNCHANGED <<next, buffer, element>> /\ size' = [size EXCEPT ![c] = len]
    BY <1>1, GotoMoves DEF QueueInv, Shape, ReadSize
  <1>3. ~Taking /\ ~Taking'
    <2>1. ~Taking
      BY <1>2, OnlyInside DEF InCall
    <2>2. ~Taking'
      BY <1>2 DEF Control, Exclusive, InCall, Taking
    <2> QED  BY <2>1, <2>2
  <1>4. ChainOf(s)'
    BY <1>2, ChainSame
  <1>5. Contents = View(s) /\ Seen' = Seen
    BY <1>2, <1>3, <1>4, SameSeen, ChainsNow DEF Chains
  <1>6. len = Len(s)
    BY <1>1, <1>2, QuietRow DEF QueueInv, Shape, InCall, Quiet, Whole
  <1>7. Len(Contents) = len
    BY <1>2, <1>5, <1>6, ViewOf
  <1>8. Given' = Given
    BY <1>2 DEF Given
  <1> QED  BY <1>2, <1>3, <1>5, <1>7, <1>8 DEF Promise!Size, Seen, Given

\* Who is in the middle of a top, of those who neither copy nor unlink.
LEMMA TakingStays ==
    ASSUME TypeOK, Control, NEW c \in Clients, Does(c), ~Copy(c), ~Unlink(c)
    PROVE  Taking' <=> Taking
  <1>1. \A d \in Clients : d # c => pc'[d] = pc[d] /\ op'[d] = op[d]
    BY ActorOnly
  <1>2. ~(pc[c] = "unlink" /\ op[c] = "top")
    <2> SUFFICES ASSUME pc[c] = "unlink" PROVE FALSE
      OBVIOUS
    <2> QED  BY GotoMoves DEF Does, Inside, Lock, Unlock, Malloc, MallocFails, Link, Advance, Count, More, Free,
                Discount, ReadSize, ReadFront, Leave, Push, Post, PostSpare, Consume, AskSize, TakeIfAny,
                ClearAll, Look, Call, Goto, Control, Disciplined
  <1>3. ~(pc'[c] = "unlink" /\ op'[c] = "top")
    <2>1. CASE Lock(c)
      BY <2>1, GotoMoves DEF Lock, Entry
    <2>2. CASE More(c)
      BY <2>2, GotoMoves DEF More, Control, Disciplined
    <2>3. CASE ~Lock(c) /\ ~More(c)
      BY <2>3, <1>2, GotoMoves DEF Does, Inside, Unlock, Return, Malloc, MallocFails, Link, Advance, Count, Free,
         Discount, Popped, ReadSize, ReadFront, Leave, Push, Post, PostSpare, Consume, AskSize, TakeIfAny,
         ClearAll, Look, Call
    <2> QED  BY <2>1, <2>2, <2>3
  <1> QED  BY <1>1, <1>2, <1>3 DEF Taking

\* A step that neither links nor unlinks nor copies shows nothing of the list.
LEMMA QuietSeen ==
    ASSUME Inv, Inv', [Next]_vars, NEW c \in Clients, Does(c), ~Copy(c),
           \A d \in Clients : ~Link(d) /\ ~Unlink(d), ~Clear
    PROVE  Seen' = Seen
  <1> USE DEF Inv
  <1>1. PICK s \in Seq(Nodes) : QueueInv(s)
    OBVIOUS
  <1>2. ChainOf(s) /\ Shape(s) /\ Shape(s)'
    BY <1>1, ShapeStep DEF QueueInv, Shape
  <1>3. ChainOf(s)'
    BY <1>2 DEF Shape
  <1>4. Taking' <=> Taking
    BY TakingStays
  <1>5. \A n \in Range(s) : buffer'[n] = buffer[n]
    <2>1. CASE Malloc(c)
      <3>1. pc[c] = "malloc"
        BY <2>1 DEF Malloc, Goto
      <3>2. allocated = Range(s)
        BY <1>2, <3>1, QuietRow DEF Shape, InCall, Quiet, Whole
      <3>3. PICK n \in Nodes \ allocated : buffer' = [buffer EXCEPT ![n] = element[c]]
        BY <2>1 DEF Malloc
      <3> QED  BY <1>2, <3>2, <3>3, ChainEnds DEF TypeOK
    <2>2. CASE ~Malloc(c)
      <3>1. UNCHANGED buffer
        BY <2>2 DEF Does, Inside, Lock, Unlock, MallocFails, Link, Advance, Count, Copy, More, Unlink, Free,
           Discount, ReadSize, ReadFront, Leave, Push, Post, PostSpare, Consume, AskSize, TakeIfAny, ClearAll, Look
      <3> QED  BY <3>1
    <2> QED  BY <2>1, <2>2
  <1> QED  BY <1>2, <1>3, <1>4, <1>5, SameSeen

\* A client that returns, or has judged its size, forgets.
LEMMA ReturnForgets ==
    ASSUME Inv, Inv', NEW c \in Clients, Unlock(c) \/ TakeIfAny(c), Seen' = Seen
    PROVE  Promise!Forget(c)
  <1> USE DEF Inv
  <1>1. Given' = [Given EXCEPT ![c] = 0]
    <2>1. CASE Unlock(c)
      <3>1. \A d \in Clients : element'[d] = IF d = c THEN 0 ELSE element[d]
        BY <2>1, ClientTypes DEF Unlock
      <3> QED  BY <3>1 DEF Given
    <2>2. CASE TakeIfAny(c)
      <3>1. pc[c] = "judge"
        BY <2>2 DEF TakeIfAny, Call, Goto
      <3>2. op[c] = "none"
        BY <3>1 DEF Control, Disciplined
      <3>3. element[c] = 0 /\ element' = element
        BY <2>2, <3>2 DEF TakeIfAny, Control, OwnAnswers
      <3> QED  BY <3>3 DEF Given
    <2> QED  BY <2>1, <2>2
  <1>2. size' = size \/ size' = [size EXCEPT ![c] = 0]
    BY DEF Unlock, TakeIfAny
  <1> QED  BY <1>1, <1>2 DEF Promise!Forget, Seen, Given

\* Whatever else a client does changes nothing that Fifo sees.
LEMMA OthersShowNothing ==
    ASSUME Inv, Inv', NEW c \in Clients, Does(c), Seen' = Seen,
           ~Copy(c), ~ReadSize(c), ~Unlock(c), ~TakeIfAny(c)
    PROVE  UNCHANGED Promise!vars
  <1> USE DEF Inv
  <1>1. size' = size
    BY DEF Does, Inside, Lock, Malloc, MallocFails, Link, Advance, Count, More, Unlink, Free, Discount, ReadFront,
       Leave, Push, Post, PostSpare, Consume, AskSize, ClearAll, Look
  <1>2. Given' = Given
    <2>1. CASE c \in Producers /\ Push(c)
      <3>1. \A d \in Clients : d # c => element'[d] = element[d]
        BY <2>1, ClientTypes DEF Push
      <3> QED  BY <2>1, <3>1 DEF Given
    <2>2. CASE ~(c \in Producers /\ Push(c))
      <3>1. element' = element
        BY <2>2 DEF Does, Inside, Lock, Malloc, MallocFails, Link, Advance, Count, More, Unlink, Free, Discount,
           ReadFront, Leave, Post, PostSpare, Consume, AskSize, ClearAll, Look
      <3> QED  BY <3>1 DEF Given
    <2> QED  BY <2>1, <2>2
  <1> QED  BY <1>1, <1>2 DEF Promise!vars, Seen, Given

\* Every step of the queue is one of Fifo's, or none.
LEMMA FifoStep == Inv /\ Inv' /\ [Next]_vars => [Promise!Next]_(Promise!vars)
  <1> SUFFICES ASSUME Inv, Inv', [Next]_vars
               PROVE  Promise!Next \/ UNCHANGED Promise!vars
    OBVIOUS
  <1>1. CASE UNCHANGED vars
    BY <1>1 DEF vars, Promise!vars, Taking, Contents, Length, Nth
  <1>2. CASE UNCHANGED clients /\ Destroyed
    BY <1>1, <1>2 DEF Destroyed
  <1>3. CASE UNCHANGED clients /\ Clear
    BY <1>3, ClearPops DEF Promise!Next
  <1>4. ASSUME UNCHANGED clients, NEW c \in Clients, Link(c) \/ Unlink(c)
        PROVE  Promise!Next \/ UNCHANGED Promise!vars
    BY <1>4, LinkPushes, UnlinkPops DEF Promise!Next
  <1>5. ASSUME UNCHANGED clients, NEW c \in Clients, Does(c),
               \A d \in Clients : ~Link(d) /\ ~Unlink(d), ~Clear
        PROVE  Promise!Next \/ UNCHANGED Promise!vars
    <2>1. CASE Copy(c)
      BY <1>5, <2>1, CopyTops DEF Promise!Next
    <2>2. CASE ReadSize(c)
      BY <1>5, <2>2, ReadIsSize DEF Promise!Next
    <2>3. CASE ~Copy(c) /\ ~ReadSize(c)
      <3>1. Seen' = Seen
        BY <1>5, <2>3, QuietSeen
      <3>2. CASE Unlock(c) \/ TakeIfAny(c)
        BY <3>1, <3>2, ReturnForgets DEF Promise!Next
      <3>3. CASE ~Unlock(c) /\ ~TakeIfAny(c)
        BY <1>5, <2>3, <3>1, <3>3, OthersShowNothing
      <3> QED  BY <3>2, <3>3
    <2> QED  BY <2>1, <2>2, <2>3
  <1> QED  BY <1>1, <1>2, <1>3, <1>4, <1>5, Steps DEF Next

\* An empty queue is an empty Fifo.
LEMMA FifoInit == Init => Promise!Init
  <1> SUFFICES ASSUME Init PROVE Promise!Init
    OBVIOUS
  <1>1. TypeOK
    BY TypeInit
  <1>2. ChainOf(<<>>)
    BY EmptySeq DEF Init, ChainOf
  <1>3. Contents = View(<<>>)
    BY <1>1, <1>2, ChainsNow DEF Chains
  <1>4. View(<<>>) = <<>>
    <2>1. View(<<>>) \in Seq(Elements \cup {0}) /\ Len(View(<<>>)) = 0
      BY <1>1, <1>2, ViewOf, EmptySeq
    <2> QED  BY <2>1, EmptySeq
  <1>5. ~Taking
    BY DEF Init, Taking
  <1> QED  BY <1>3, <1>4, <1>5 DEF Init, Promise!Init

\* ts_queue.c: to its clients the queue is a Fifo, each call at one moment.
THEOREM QueueIsFifo == Spec => FifoSpec
  BY InvInit, InvStep, FifoInit, FifoStep, PTL DEF Spec, FifoSpec, Promise!Spec
=============================================================================
