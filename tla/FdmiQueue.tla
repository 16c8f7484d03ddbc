----------------------------- MODULE FdmiQueue -----------------------------
(***************************************************************************)
(* The linked list of fdmi_queue.c: nodes allocated and freed one by one,  *)
(* head, tail, and the iterator that the queue itself holds.  The callers  *)
(* are those of fdmi.c that hold the queue's mutex from the first call to  *)
(* the last: enq, deq, remove, the loops that walk over the queue, stop at *)
(* an element or remove it and go on, and destroy.  So one operation at a  *)
(* time is in progress, whoever does it.                                   *)
(***************************************************************************)
EXTENDS Integers, Sequences, SequencesExt

CONSTANTS
    Node,        \* addresses that malloc may return
    Data,        \* what is put into the queue
    NULL

ASSUME QueueAssumption == NULL \notin Node /\ NULL \notin Data

VARIABLES
    next, data,        \* the fields of the nodes
    live,              \* the nodes that are allocated
    head, tail, ite, length,
    op,                \* the operation in progress and its locals
    list, at           \* the nodes in order, and which of them ite points to (not in
                       \* the code)

pointers == <<next, data, live, head, tail, ite, length>>
vars     == <<pointers, op, list, at>>

\* pc: "idle", "walk", "remove" or "destroy", and "gone" after the last.  A walk has got
\* element d, which is held until it is removed.  remove looks for d with old_d and
\* cur_d, the entry k of list, and goes back to where it was called.
Idle == [pc |-> "idle", d |-> NULL, held |-> FALSE, old_d |-> NULL, cur_d |-> NULL,
         k |-> 0, back |-> "idle"]

\* fdmi_queue_create; the iterator is not initialised
Init ==
    /\ next \in [Node -> {NULL}] /\ data \in [Node -> {NULL}] /\ live = {}
    /\ head = NULL /\ tail = NULL /\ ite \in Node \cup {NULL} /\ length = 0
    /\ op = Idle /\ list = <<>> /\ at = 1

----------------------------------------------------------------------------
\* Faulty: the tail is moved before it is used to link the node.
EnqLinkLost(n, d) ==
    /\ n \notin live /\ live' = live \cup {n}
    /\ data' = [data EXCEPT ![n] = d]
    /\ IF head = NULL /\ tail = NULL
       THEN head' = n /\ next' = [next EXCEPT ![n] = NULL]
       ELSE UNCHANGED head /\ next' = [next EXCEPT ![n] = NULL]
    /\ list' = Append(list, n)

\* fdmi_queue_enq: the node is linked, then it is the tail.
EnqLink(n, d) ==
    /\ n \notin live /\ live' = live \cup {n}
    /\ data' = [data EXCEPT ![n] = d]
    /\ IF head = NULL /\ tail = NULL
       THEN head' = n /\ next' = [next EXCEPT ![n] = NULL]
       ELSE UNCHANGED head /\ next' = [next EXCEPT ![n] = NULL, ![tail] = n]
    /\ list' = Append(list, n)

EnqEnds(n) == tail' = n /\ length' = length + 1

Enq(n, d) ==
    /\ op.pc = "idle"
    /\ EnqLink(n, d) /\ EnqEnds(n)
    /\ UNCHANGED <<ite, op, at>>

\* Faulty: the tail is left at the freed node.
TakeHeadKeepsTail ==
    /\ head' = next[head] /\ live' = live \ {head} /\ list' = Tail(list)
    /\ tail' = tail /\ length' = length - 1

\* fdmi_queue_deq of a queue with a head
TakeHead ==
    /\ head' = next[head] /\ live' = live \ {head} /\ list' = Tail(list)
    /\ tail' = (IF next[head] = NULL THEN NULL ELSE tail)
    /\ length' = length - 1

Deq ==
    /\ op.pc \in {"idle", "destroy"} /\ head # NULL
    /\ TakeHead
    /\ UNCHANGED <<next, data, ite, op, at>>

\* fdmi_queue_destroy: the mutex goes, the elements, and the queue
Destroy ==
    /\ op.pc = "idle" /\ op' = [Idle EXCEPT !.pc = "destroy"]
    /\ UNCHANGED <<pointers, list, at>>

DestroyEnds ==
    /\ op.pc = "destroy" /\ head = NULL /\ op' = [Idle EXCEPT !.pc = "gone"]
    /\ UNCHANGED <<pointers, list, at>>

----------------------------------------------------------------------------
\* fdmi_queue_iterate with FDMI_QUEUE_HEAD, in a queue with elements
IterateHead ==
    /\ op.pc = "idle" /\ head # NULL
    /\ ite' = next[head] /\ at' = 2
    /\ op' = [Idle EXCEPT !.pc = "walk", !.d = data[head], !.held = TRUE]
    /\ UNCHANGED <<next, data, live, head, tail, length, list>>

\* fdmi_queue_iterate with FDMI_QUEUE_NEXT
IterateNext ==
    /\ op.pc = "walk" /\ ite # NULL
    /\ ite' = next[ite] /\ at' = at + 1
    /\ op' = [op EXCEPT !.d = data[ite], !.held = TRUE]
    /\ UNCHANGED <<next, data, live, head, tail, length, list>>

\* The loop ends at the end of the list or by break.
WalkEnds ==
    /\ op.pc = "walk" /\ op' = Idle
    /\ UNCHANGED <<pointers, list, at>>

----------------------------------------------------------------------------
\* Faulty: the search starts after the head.
RemoveBeginSecond(d, back) ==
    /\ head # NULL
    /\ op' = [op EXCEPT !.pc = "remove", !.d = d, !.held = FALSE, !.old_d = head,
                        !.cur_d = next[head], !.k = 2, !.back = back]
    /\ UNCHANGED <<pointers, list, at>>

\* fdmi_queue_remove up to its loop: an empty queue, d at the head, or neither
RemoveBegin(d, back) ==
    \/ /\ head = NULL
       /\ op' = [op EXCEPT !.pc = back, !.held = FALSE]
       /\ UNCHANGED <<pointers, list, at>>
    \/ /\ head # NULL /\ data[head] = d
       /\ TakeHead
       /\ ite' = (IF next[head] = NULL THEN NULL ELSE ite)
       /\ at' = (IF back = "walk" THEN at - 1 ELSE at)
       /\ op' = [op EXCEPT !.pc = back, !.held = FALSE]
       /\ UNCHANGED <<next, data>>
    \/ /\ head # NULL /\ data[head] # d
       /\ op' = [op EXCEPT !.pc = "remove", !.d = d, !.held = FALSE, !.old_d = head,
                           !.cur_d = next[head], !.k = 2, !.back = back]
       /\ UNCHANGED <<pointers, list, at>>

\* a walk removes the element it is at and goes on
RemoveCurrent == op.pc = "walk" /\ op.held /\ RemoveBegin(op.d, "walk")

LockRemove(d) == op.pc = "idle" /\ RemoveBegin(d, "idle")

RemoveEnds == op' = [op EXCEPT !.pc = op.back, !.old_d = NULL, !.cur_d = NULL, !.k = 0,
                               !.back = "idle"]

RemoveSkips ==
    /\ op.pc = "remove" /\ op.cur_d # NULL /\ data[op.cur_d] # op.d
    /\ op' = [op EXCEPT !.old_d = op.cur_d, !.cur_d = next[op.cur_d], !.k = @ + 1]
    /\ UNCHANGED <<pointers, list, at>>

RemoveUnlinks ==
    /\ op.pc = "remove" /\ op.cur_d # NULL /\ data[op.cur_d] = op.d
    /\ next' = [next EXCEPT ![op.old_d] = next[op.cur_d]]
    /\ tail' = (IF tail = op.cur_d THEN op.old_d ELSE tail)
    /\ ite' = (IF ite = op.cur_d THEN next[op.cur_d] ELSE ite)
    /\ live' = live \ {op.cur_d} /\ length' = length - 1
    /\ list' = RemoveAt(list, op.k)
    /\ at' = (IF op.back = "walk" THEN at - 1 ELSE at)
    /\ RemoveEnds /\ UNCHANGED <<data, head>>

RemoveFinds0 ==
    /\ op.pc = "remove" /\ op.cur_d = NULL
    /\ RemoveEnds /\ UNCHANGED <<pointers, list, at>>

Next ==
    \/ \E n \in Node, d \in Data : Enq(n, d)
    \/ \E d \in Data : LockRemove(d)
    \/ Deq \/ Destroy \/ DestroyEnds
    \/ IterateHead \/ IterateNext \/ WalkEnds \/ RemoveCurrent
    \/ RemoveSkips \/ RemoveUnlinks \/ RemoveFinds0

Spec == Init /\ [][Next]_vars

----------------------------------------------------------------------------
\* The entry i of the list, or NULL past its end.
Entry(i) == IF i \in 1 .. Len(list) THEN list[i] ELSE NULL

\* fdmi_queue_enq, _deq and _remove: following next from head gives the nodes of the
\* queue, all of them allocated and none twice, tail is the last and length their number.
ListOK ==
    /\ \A i \in 1 .. Len(list) :
          /\ list[i] \in live /\ next[list[i]] = Entry(i + 1)
          /\ \A j \in 1 .. i - 1 : list[j] # list[i]
    /\ head = Entry(1) /\ tail = Entry(Len(list)) /\ length = Len(list)

\* fdmi_queue_iterate: during a walk, also one that removes the elements it is at, the
\* iterator is in the list or at its end, never at a node that was freed; it is past the
\* element that the walk holds.
Walking == op.pc = "walk" \/ (op.pc = "remove" /\ op.back = "walk")
WalkOK ==
    /\ Walking => at \in 1 .. Len(list) + 1 /\ ite = Entry(at)
    /\ op.pc = "walk" /\ op.held => at > 1 /\ data[list[at - 1]] = op.d
    /\ op.pc = "remove" => op.cur_d = Entry(op.k) /\ op.old_d = Entry(op.k - 1)

\* The queue implements a sequence with walks.
Values(s) == [i \in 1 .. Len(s) |-> data[s[i]]]
Abstract == INSTANCE ListQueue WITH
    contents <- Values(list),
    walking  <- Walking,
    todo     <- IF Walking THEN Values(SubSeq(list, at, Len(list))) ELSE <<>>

ActsAsList == Abstract!Spec
=============================================================================
