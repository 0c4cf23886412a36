------------------------------ MODULE KeyValue ------------------------------
(***************************************************************************)
(* What dict.c promises: a table from keys to values that one thread       *)
(* changes while others look keys up in it.  A call has its effect at one  *)
(* moment between its beginning and its end.                               *)
(***************************************************************************)
CONSTANTS Keys, Values, Readers,
          Absent,       \* the value of a key that is not there
          None          \* no call

VARIABLES
    content,    \* key -> its value
    request,    \* what the writer asked for, and whether it is done
    answer      \* reader -> the key it looks up and what it will be told

vars == <<content, request, answer>>

Init ==
    /\ content = [k \in Keys |-> Absent]
    /\ request = None
    /\ answer = [r \in Readers |-> None]

\* dict_insert of a value, or dict_remove as the change to Absent.
Ask(k, v) ==
    /\ request = None
    /\ request' = [key |-> k, value |-> v, done |-> FALSE]
    /\ UNCHANGED <<content, answer>>

Apply ==
    /\ request # None /\ ~request.done
    /\ content' = [content EXCEPT ![request.key] = request.value]
    /\ request' = [request EXCEPT !.done = TRUE]
    /\ UNCHANGED answer

\* An insertion fails, changing nothing, when memory runs out.
Return ==
    /\ request # None
    /\ request.done \/ request.value # Absent \/ content[request.key] = Absent
    /\ request' = None
    /\ UNCHANGED <<content, answer>>

Find(r, k) ==
    /\ answer[r] = None
    /\ answer' = [answer EXCEPT ![r] = [key |-> k, value |-> content[k]]]
    /\ UNCHANGED <<content, request>>

Tell(r) ==
    /\ answer' = [answer EXCEPT ![r] = None]
    /\ UNCHANGED <<content, request>>

Destroy ==
    /\ request = None
    /\ content' = [k \in Keys |-> Absent]
    /\ UNCHANGED <<request, answer>>

Next ==
    \/ \E k \in Keys, v \in Values \cup {Absent} : Ask(k, v)
    \/ Apply \/ Return \/ Destroy
    \/ \E r \in Readers : Tell(r) \/ \E k \in Keys : Find(r, k)

Spec == Init /\ [][Next]_vars
=============================================================================
