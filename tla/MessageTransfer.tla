-------------------------- MODULE MessageTransfer --------------------------
(***************************************************************************)
(* What fdmi_verbs_isend, fdmi_verbs_irecv and fdmi_verbs_wait promise     *)
(* their callers (README.md, APIs), without queues, threads and hardware.  *)
(* A message is sent, taken by one receive that accepts it, in the order   *)
(* of its sender, and copied; then the receive is complete.  A small       *)
(* message completes for its sender at any time, a large one when it has   *)
(* been copied.                                                            *)
(***************************************************************************)
EXTENDS Naturals, Sequences

CONSTANTS
    Send, Recv,        \* the calls
    Pair,              \* pairs <<src, dst>> of processes
    None,
    Accepts(_, _),     \* does the receive with these parameters take the message?
    Large(_)           \* is the message a rendezvous?

VARIABLES
    message,     \* what each isend was called with, None before the call
    params,      \* what each irecv was called with, None before the call
    order,       \* per pair: its sends, in the order they were called
    taken,       \* the send that each receive has taken
    filled,      \* the receives whose buffer holds the message
    done         \* the calls whose request is complete

transfer == <<message, params, order, taken, filled, done>>

Init ==
    /\ message = [s \in Send |-> None] /\ params = [r \in Recv |-> None]
    /\ order = [pd \in Pair |-> <<>>]
    /\ taken = [r \in Recv |-> None]
    /\ filled = {} /\ done = {}

Free(s) == \A r \in Recv : taken[r] # s

\* Of the messages of a sender that it accepts, a receive takes the first.
First(s, q) ==
    /\ message[s] # None /\ Free(s) /\ Accepts(message[s], q)
    /\ \E pd \in Pair : \E k \in DOMAIN order[pd] :
          /\ order[pd][k] = s
          /\ \A j \in 1 .. k - 1 : Free(order[pd][j]) => ~ Accepts(message[order[pd][j]], q)

Isend(s, m) ==
    /\ message[s] = None /\ message' = [message EXCEPT ![s] = m]
    /\ UNCHANGED <<params, order, taken, filled, done>>

\* The message is handed to the network.
Submit(s, pd) ==
    /\ message[s] # None /\ \A k \in DOMAIN order[pd] : order[pd][k] # s
    /\ order' = [order EXCEPT ![pd] = Append(@, s)]
    /\ UNCHANGED <<message, params, taken, filled, done>>

\* A receive may find its message there, and a small one is copied at once.
Irecv(r, q) ==
    /\ params[r] = None /\ params' = [params EXCEPT ![r] = q]
    /\ \/ UNCHANGED <<taken, filled, done>>
       \/ \E s \in Send : /\ First(s, q) /\ taken' = [taken EXCEPT ![r] = s]
                          /\ \/ UNCHANGED <<filled, done>>
                             \/ /\ ~ Large(message[s])
                                /\ filled' = filled \cup {r} /\ done' = done \cup {r}
    /\ UNCHANGED <<message, order>>

Take(r, s) ==
    /\ params[r] # None /\ taken[r] = None /\ First(s, params[r])
    /\ taken' = [taken EXCEPT ![r] = s]
    /\ UNCHANGED <<message, params, order, filled, done>>

\* Copying a small message completes the receive.
Copy(r) ==
    /\ taken[r] # None /\ r \notin filled
    /\ filled' = filled \cup {r}
    /\ done' = IF Large(message[taken[r]]) THEN done ELSE done \cup {r}
    /\ UNCHANGED <<message, params, order, taken>>

RecvDone(r) ==
    /\ r \in filled \ done
    /\ done' = done \cup {r}
    /\ UNCHANGED <<message, params, order, taken, filled>>

SendDone(s) ==
    /\ s \notin done /\ \E pd \in Pair : \E k \in DOMAIN order[pd] : order[pd][k] = s
    /\ Large(message[s]) => \E r \in filled : taken[r] = s
    /\ done' = done \cup {s}
    /\ UNCHANGED <<message, params, order, taken, filled>>

Step ==
    \/ \E s \in Send : \/ Isend(s, message'[s]) \/ SendDone(s)
                       \/ \E pd \in Pair : Submit(s, pd)
    \/ \E r \in Recv : \/ Irecv(r, params'[r]) \/ Copy(r) \/ RecvDone(r)
                       \/ \E s \in Send : Take(r, s)

Spec == Init /\ [][Step]_transfer
=============================================================================
