----------------------------- MODULE ListQueue -----------------------------
(***************************************************************************)
(* What fdmi_queue.c promises the code that uses it: a sequence to which   *)
(* elements are added at the end and from which they are taken at the      *)
(* front or by value, and walks over it that may remove the element they   *)
(* are at.  No nodes, pointers and shared iterator.                        *)
(***************************************************************************)
EXTENDS Sequences, SequencesExt

CONSTANT Data

VARIABLES
    contents,    \* the elements, oldest first
    walking,     \* somebody walks over them
    todo         \* what the walk has still to visit

queue == <<contents, walking, todo>>

Init == contents = <<>> /\ walking = FALSE /\ todo = <<>>

Enq(d) == ~ walking /\ contents' = Append(contents, d) /\ UNCHANGED <<walking, todo>>

Deq ==
    /\ ~ walking /\ contents # <<>>
    /\ contents' = Tail(contents) /\ UNCHANGED <<walking, todo>>

\* The first element equal to d is taken out; a walk goes on as before.
TakeOut(d) ==
    /\ \E i \in DOMAIN contents :
          /\ contents[i] = d /\ \A j \in 1 .. i - 1 : contents[j] # d
          /\ contents' = RemoveAt(contents, i)
    /\ UNCHANGED <<walking, todo>>

Start ==
    /\ ~ walking /\ contents # <<>>
    /\ walking' = TRUE /\ todo' = Tail(contents) /\ UNCHANGED contents

Step ==
    /\ walking /\ todo # <<>>
    /\ todo' = Tail(todo) /\ UNCHANGED <<contents, walking>>

\* At the end, or because the caller has found what it was looking for.
Stop == walking /\ walking' = FALSE /\ todo' = <<>> /\ UNCHANGED contents

Next == (\E d \in Data : Enq(d) \/ TakeOut(d)) \/ Deq \/ Start \/ Step \/ Stop

Spec == Init /\ [][Next]_queue
=============================================================================
