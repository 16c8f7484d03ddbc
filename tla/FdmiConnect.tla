---------------------------- MODULE FdmiConnect ----------------------------
(***************************************************************************)
(* How processes get connected: fdmi_verbs_connect on the side that calls, *)
(* and the event thread (fdmi_poll_event_recv_channel) on both sides.  The *)
(* caller names its peer by a rank of its own choice; the process that is  *)
(* called gives the new peer the next value of connected_rank.  Three      *)
(* threads of a process meet here: the application, which connects and     *)
(* waits; the event thread, which builds the connection in several steps;  *)
(* and the completion-queue thread, which the first connection starts.     *)
(*                                                                         *)
(* The RDMA connection manager is the environment.  It resolves every      *)
(* address and route and answers every request: its error events fall into *)
(* the default branch of the switch, which does nothing.                   *)
(***************************************************************************)
EXTENDS Integers, Sequences, FiniteSets

CONSTANTS
    Proc,            \* processes
    Call,            \* calls of fdmi_verbs_connect
    Caller,          \* the process that makes a call
    CallRank,        \* its parameter rank
    CallHost,        \* its parameter hostname: the process that listens there
    Listener,        \* processes that receive before they have connected to anyone
    fdmi_size,       \* length of sendrecv_channel->peers
    PendingRecvs,    \* FDMI_MAX_PENDING_RECV_QUERY
    None,            \* NULL
    MaxBreaks        \* bound: connections that may be lost

ASSUME ConnectAssumption ==
    /\ fdmi_size \in Nat \ {0} /\ PendingRecvs \in Nat \ {0} /\ MaxBreaks \in Nat
    /\ Caller \in [Call -> Proc] /\ CallHost \in [Call -> Proc]
    /\ Listener \subseteq Proc
    /\ CallRank \in [Call -> 0 .. fdmi_size - 1]
    /\ \A c \in Call : Caller[c] # CallHost[c]

Rank == 0 .. fdmi_size - 1

\* A struct rdma_cm_id: one end of the connection a call makes.
Id == [call : Call, side : {"active", "passive"}]
Active(c)  == [call |-> c, side |-> "active"]
Passive(c) == [call |-> c, side |-> "passive"]
Owner(i)   == IF i.side = "active" THEN Caller[i.call] ELSE CallHost[i.call]
FarEnd(i)  == IF i.side = "active" THEN CallHost[i.call] ELSE Caller[i.call]
ASSUME NoneIsNoId == None \notin Id /\ None \notin Rank

Event == [type : {"CONNECT_REQUEST", "ESTABLISHED", "DISCONNECTED",
                  "ADDR_RESOLVED", "ROUTE_RESOLVED"}, id : Id]
Ev(t, i) == [type |-> t, id |-> i]

VARIABLES
    connected_rank,   \* per process: the rank the next caller will get
    conn,             \* per process and rank: peers[rank]->conn[0]
    is_connected,     \* per process and rank
    on_connecting,    \* per process and rank: on_connecting_lock is held
    dctx,             \* per process: domain->dctx and its query_qp
    polling,          \* per process: is_recv_cq_polling
    posting,          \* per process: receives the event thread has posted in its loop
    itop,             \* hstb_itop: the rank of an id (the processes' tables together)
    posted,           \* per id: receives posted on its queue pair
    fdmi_state,       \* per process
    disconnected_prank_q,
    events,           \* per process: the event channel, in order
    cm,               \* events the connection manager has yet to report
    broken,           \* calls whose connection has been lost
    call_pc,          \* per call: where fdmi_verbs_connect is
    ready,            \* per process: what fdmi_wait_ready has let the application use
    source            \* per call: FMI_SOURCE of the first message received from it

peers  == <<connected_rank, conn, is_connected, on_connecting>>
ends   == <<itop, posted>>
net    == <<events, cm, broken>>
vars   == <<peers, dctx, polling, posting, ends, fdmi_state, disconnected_prank_q,
            net, call_pc, ready, source>>

\* fdmi_verbs_init: no peer, no context, the first caller will be rank 1.
Init ==
    /\ connected_rank = [p \in Proc |-> 1]
    /\ conn = [p \in Proc |-> [r \in Rank |-> None]]
    /\ is_connected = [p \in Proc |-> [r \in Rank |-> FALSE]]
    /\ on_connecting = [p \in Proc |-> [r \in Rank |-> FALSE]]
    /\ dctx = [p \in Proc |-> "null"]
    /\ polling = [p \in Proc |-> FALSE]
    /\ posting = [p \in Proc |-> 0]
    /\ itop = [i \in Id |-> None]
    /\ posted = [i \in Id |-> 0]
    /\ fdmi_state = [p \in Proc |-> "COMPUTE"]
    /\ disconnected_prank_q = [p \in Proc |-> <<>>]
    /\ events = [p \in Proc |-> <<>>]
    /\ cm = {}
    /\ broken = {}
    /\ call_pc = [c \in Call |-> "idle"]
    /\ ready = [p \in Proc |-> "no"]
    /\ source = [c \in Call |-> None]

\* fdmi_rmap_itop_get: an id that is not in the table has rank (int)NULL.
Itop(i) == IF itop[i] = None THEN 0 ELSE itop[i]

----------------------------------------------------------------------------
\* The application thread.  It blocks in fdmi_verbs_connect: a call begins
\* when the process is in no other.
VerbsConnect(c) ==
    /\ call_pc[c] = "idle"
    /\ \A d \in Call : Caller[d] = Caller[c] => call_pc[d] # "waiting"
    /\ call_pc' = [call_pc EXCEPT ![c] = "waiting"]
    /\ itop' = [itop EXCEPT ![Active(c)] = CallRank[c]]
    /\ cm' = cm \cup {Ev("ADDR_RESOLVED", Active(c))}
    /\ UNCHANGED <<peers, dctx, polling, posting, posted, fdmi_state,
                   disconnected_prank_q, events, broken, ready, source>>

\* Faulty: the call does not wait.
VerbsConnectAtOnce(c) ==
    /\ call_pc[c] = "waiting"
    /\ call_pc' = [call_pc EXCEPT ![c] = "returned"]
    /\ UNCHANGED <<peers, dctx, polling, posting, ends, fdmi_state,
                   disconnected_prank_q, net, ready, source>>

VerbsConnectReturns(c) ==
    /\ call_pc[c] = "waiting"
    /\ is_connected[Caller[c]][CallRank[c]]
    /\ call_pc' = [call_pc EXCEPT ![c] = "returned"]
    /\ UNCHANGED <<peers, dctx, polling, posting, ends, fdmi_state,
                   disconnected_prank_q, net, ready, source>>

\* fdmi_wait_ready, at the start of irecv and iprobe.  It reads query_qp from
\* memory that malloc has returned and create_qp has not written yet.
WaitReady(p) ==
    /\ ready[p] = "no"
    /\ dctx[p] \in {"junk", "queues"}
    /\ ready' = [ready EXCEPT ![p] = dctx[p]]
    /\ UNCHANGED <<peers, dctx, polling, posting, ends, fdmi_state,
                   disconnected_prank_q, net, call_pc, source>>

----------------------------------------------------------------------------
\* The event thread of p, at work on the event at the head of its channel.
Handling(p, t) == events[p] # <<>> /\ Head(events[p]).type = t
Handled(p)     == events' = [events EXCEPT ![p] = Tail(@)]
NextId(p)      == Head(events[p]).id
AsksForQp(p)   == Handling(p, "CONNECT_REQUEST") \/ Handling(p, "ADDR_RESOLVED")

\* fdmi_create_qp for the first connection: domain->dctx is stored before its
\* query_qp is, and until then that field is what malloc left there.
CreateDctx(p) ==
    /\ AsksForQp(p) /\ dctx[p] = "null"
    /\ \E m \in {"zero", "junk"} : dctx' = [dctx EXCEPT ![p] = m]
    /\ UNCHANGED <<peers, polling, posting, ends, fdmi_state,
                   disconnected_prank_q, net, call_pc, ready, source>>

CreateQueryQp(p) ==
    /\ dctx[p] \in {"zero", "junk"}
    /\ dctx' = [dctx EXCEPT ![p] = "queues"]
    /\ UNCHANGED <<peers, polling, posting, ends, fdmi_state,
                   disconnected_prank_q, net, call_pc, ready, source>>

\* Faulty: the rank for the next caller is not advanced.
TakePeerStays(p) ==
    LET r == connected_rank[p] IN
    /\ r \in Rank
    /\ on_connecting' = [on_connecting EXCEPT ![p][r] = TRUE]
    /\ conn' = [conn EXCEPT ![p][r] = NextId(p)]
    /\ itop' = [itop EXCEPT ![NextId(p)] = r]
    /\ UNCHANGED connected_rank

\* Faulty: the rank is advanced before the id is entered in the table.
TakePeerLate(p) ==
    LET r == connected_rank[p] IN
    /\ r + 1 \in Rank /\ ~on_connecting[p][r]
    /\ on_connecting' = [on_connecting EXCEPT ![p][r] = TRUE]
    /\ conn' = [conn EXCEPT ![p][r] = NextId(p)]
    /\ itop' = [itop EXCEPT ![NextId(p)] = r + 1]
    /\ connected_rank' = [connected_rank EXCEPT ![p] = r + 1]

\* The peer a caller gets: peers[connected_rank], and its lock is taken for good.
\* A held lock would reject the caller; LockIsFree shows that it never is.  The
\* model does not follow the program to an index outside peers: see RankInBounds.
TakePeer(p) ==
    LET r == connected_rank[p] IN
    /\ r \in Rank /\ ~on_connecting[p][r]
    /\ on_connecting' = [on_connecting EXCEPT ![p][r] = TRUE]
    /\ conn' = [conn EXCEPT ![p][r] = NextId(p)]
    /\ itop' = [itop EXCEPT ![NextId(p)] = r]
    /\ connected_rank' = [connected_rank EXCEPT ![p] = r + 1]

ConnectRequest(p) ==
    /\ Handling(p, "CONNECT_REQUEST") /\ dctx[p] = "queues"
    /\ TakePeer(p)
    /\ cm' = cm \cup {Ev("ESTABLISHED", Active(NextId(p).call))}
    /\ Handled(p)
    /\ UNCHANGED <<is_connected, dctx, polling, posting, posted, fdmi_state,
                   disconnected_prank_q, broken, call_pc, ready, source>>

\* If the rank has a connection already, this one goes no further.
AddrResolved(p) ==
    LET r == Itop(NextId(p)) IN
    /\ Handling(p, "ADDR_RESOLVED") /\ dctx[p] = "queues"
    /\ IF conn[p][r] = None
         THEN /\ conn' = [conn EXCEPT ![p][r] = NextId(p)]
              /\ cm' = cm \cup {Ev("ROUTE_RESOLVED", NextId(p))}
         ELSE UNCHANGED <<conn, cm>>
    /\ Handled(p)
    /\ UNCHANGED <<connected_rank, is_connected, on_connecting, dctx, polling, posting,
                   ends, fdmi_state, disconnected_prank_q, broken, call_pc, ready, source>>

\* Faulty: the event is taken and the connection is not asked for.
RouteResolvedIdle(p) ==
    /\ Handling(p, "ROUTE_RESOLVED")
    /\ Handled(p)
    /\ UNCHANGED <<peers, dctx, polling, posting, ends, fdmi_state, cm,
                   disconnected_prank_q, broken, call_pc, ready, source>>

RouteResolved(p) ==
    /\ Handling(p, "ROUTE_RESOLVED")
    /\ cm' = cm \cup {Ev("CONNECT_REQUEST", Passive(NextId(p).call))}
    /\ Handled(p)
    /\ UNCHANGED <<peers, dctx, polling, posting, ends, fdmi_state,
                   disconnected_prank_q, broken, call_pc, ready, source>>

\* Faulty: one receive too many.
PostRecvPast(p) ==
    /\ Handling(p, "ESTABLISHED")
    /\ posting[p] <= PendingRecvs
    /\ polling' = [polling EXCEPT ![p] = TRUE]
    /\ posting' = [posting EXCEPT ![p] = @ + 1]
    /\ posted' = [posted EXCEPT ![conn[p][Itop(NextId(p))]] = @ + 1]
    /\ UNCHANGED <<peers, dctx, itop, fdmi_state, disconnected_prank_q,
                   net, call_pc, ready, source>>

\* Faulty: the receives are posted on the connection made last, not on that of the event.
PostRecvOnLast(p) ==
    LET r == IF connected_rank[p] = 1 THEN 0 ELSE connected_rank[p] - 1
        i == IF conn[p][r] = None THEN NextId(p) ELSE conn[p][r] IN
    /\ Handling(p, "ESTABLISHED")
    /\ posting[p] < PendingRecvs
    /\ polling' = [polling EXCEPT ![p] = TRUE]
    /\ posting' = [posting EXCEPT ![p] = @ + 1]
    /\ posted' = [posted EXCEPT ![i] = @ + 1]
    /\ UNCHANGED <<peers, dctx, itop, fdmi_state, disconnected_prank_q,
                   net, call_pc, ready, source>>

\* ESTABLISHED, one turn of the loop: start the completion-queue thread once,
\* post a receive on the connection that the rank of this id has.
PostRecv(p) ==
    /\ Handling(p, "ESTABLISHED")
    /\ posting[p] < PendingRecvs
    /\ polling' = [polling EXCEPT ![p] = TRUE]
    /\ posting' = [posting EXCEPT ![p] = @ + 1]
    /\ posted' = [posted EXCEPT ![conn[p][Itop(NextId(p))]] = @ + 1]
    /\ UNCHANGED <<peers, dctx, itop, fdmi_state, disconnected_prank_q,
                   net, call_pc, ready, source>>

\* Faulty: is_connected is set before the receives are posted.
EstablishedEarly(p) ==
    /\ Handling(p, "ESTABLISHED")
    /\ posting' = [posting EXCEPT ![p] = 0]
    /\ is_connected' = [is_connected EXCEPT ![p][Itop(NextId(p))] = TRUE]
    /\ Handled(p)
    /\ UNCHANGED <<connected_rank, conn, on_connecting, dctx, polling, ends, fdmi_state,
                   disconnected_prank_q, cm, broken, call_pc, ready, source>>

\* ESTABLISHED, after the loop.  The active side has answered the acceptance,
\* which is what the passive side learns of as its own event.
Established(p) ==
    /\ Handling(p, "ESTABLISHED")
    /\ posting[p] = PendingRecvs
    /\ posting' = [posting EXCEPT ![p] = 0]
    /\ is_connected' = [is_connected EXCEPT ![p][Itop(NextId(p))] = TRUE]
    /\ Handled(p)
    /\ UNCHANGED <<connected_rank, conn, on_connecting, dctx, polling, ends, fdmi_state,
                   disconnected_prank_q, cm, broken, call_pc, ready, source>>

\* need_update_ft_msg holds always: ft_msg.plength stays 0.
Disconnected(p) ==
    /\ Handling(p, "DISCONNECTED")
    /\ fdmi_state' = [fdmi_state EXCEPT ![p] = "FAILURE"]
    /\ disconnected_prank_q' =
         [disconnected_prank_q EXCEPT ![p] = Append(@, Itop(NextId(p)))]
    /\ Handled(p)
    /\ UNCHANGED <<peers, dctx, polling, posting, ends, cm, broken, call_pc, ready, source>>

----------------------------------------------------------------------------
\* The completion-queue thread of the process that was called takes the first
\* message of a caller whose fdmi_verbs_connect has returned: the rank of the
\* message is the rank of the connection it came on.
FirstMessage(c) ==
    /\ source[c] = None
    /\ posted[Passive(c)] > 0 /\ polling[CallHost[c]] /\ c \notin broken
    /\ \E d \in Call : /\ call_pc[d] = "returned"
                       /\ conn[Caller[d]][CallRank[d]] = Active(c)
    /\ source' = [source EXCEPT ![c] = Itop(Passive(c))]
    /\ UNCHANGED <<peers, dctx, polling, posting, ends, fdmi_state,
                   disconnected_prank_q, net, call_pc, ready>>

\* The connection manager reports an event.  The passive end of a connection is
\* established once the active end is, and both before the connection is lost.
CmReport(e) ==
    LET other == Ev("ESTABLISHED", Passive(e.id.call)) IN
    /\ e.type = "DISCONNECTED" => Ev("ESTABLISHED", e.id) \notin cm
    /\ cm' = (cm \ {e}) \cup
               (IF e.type = "ESTABLISHED" /\ e.id.side = "active" THEN {other} ELSE {})
    /\ events' = [events EXCEPT ![Owner(e.id)] = Append(@, e)]
    /\ UNCHANGED <<peers, dctx, polling, posting, ends, fdmi_state,
                   disconnected_prank_q, broken, call_pc, ready, source>>

\* A connection is lost: each end will hear of it.
Break(c) ==
    /\ Cardinality(broken) < MaxBreaks
    /\ c \notin broken /\ posted[Active(c)] > 0
    /\ broken' = broken \cup {c}
    /\ cm' = cm \cup {Ev("DISCONNECTED", Active(c)), Ev("DISCONNECTED", Passive(c))}
    /\ UNCHANGED <<peers, dctx, polling, posting, ends, fdmi_state,
                   disconnected_prank_q, events, call_pc, ready, source>>

EventThread(p) ==
    \/ CreateDctx(p) \/ CreateQueryQp(p) \/ ConnectRequest(p) \/ AddrResolved(p)
    \/ RouteResolved(p) \/ PostRecv(p) \/ Established(p) \/ Disconnected(p)

Next ==
    \/ \E c \in Call : \/ VerbsConnect(c) \/ VerbsConnectReturns(c)
                       \/ FirstMessage(c) \/ Break(c)
    \/ \E p \in Listener : WaitReady(p)
    \/ \E p \in Proc : EventThread(p)
    \/ \E e \in cm : CmReport(e)

Spec == Init /\ [][Next]_vars

\* The event thread and the connection manager go on, a loop that waits for
\* is_connected sees it, a message that can be received is.
Fairness ==
    /\ \A p \in Proc : WF_vars(EventThread(p))
    /\ \A c \in Call : WF_vars(VerbsConnectReturns(c)) /\ WF_vars(FirstMessage(c))
    /\ \A e \in Event : WF_vars(e \in cm /\ CmReport(e))

FairSpec == Spec /\ Fairness

----------------------------------------------------------------------------
\* A caller at the head of the event channel is given a peer that exists: with
\* fdmi_size - 1 callers, connected_rank stays an index of peers.
RankInBounds ==
    \A p \in Proc : Handling(p, "CONNECT_REQUEST") => connected_rank[p] \in Rank

\* Every variable keeps its type: no rank outside peers is stored, and the event
\* thread posts no more receives in a loop than the loop has turns.
TypeOK ==
    /\ connected_rank \in [Proc -> 1 .. fdmi_size]
    /\ conn \in [Proc -> [Rank -> Id \cup {None}]]
    /\ is_connected \in [Proc -> [Rank -> BOOLEAN]]
    /\ on_connecting \in [Proc -> [Rank -> BOOLEAN]]
    /\ dctx \in [Proc -> {"null", "zero", "junk", "queues"}]
    /\ polling \in [Proc -> BOOLEAN]
    /\ posting \in [Proc -> 0 .. PendingRecvs]
    /\ itop \in [Id -> Rank \cup {None}]
    /\ posted \in [Id -> Nat]
    /\ fdmi_state \in [Proc -> {"COMPUTE", "FAILURE"}]
    /\ disconnected_prank_q \in [Proc -> Seq(Rank)]
    /\ events \in [Proc -> Seq(Event)]
    /\ cm \subseteq Event
    /\ broken \subseteq Call
    /\ call_pc \in [Call -> {"idle", "waiting", "returned"}]
    /\ ready \in [Proc -> {"no", "junk", "queues"}]
    /\ source \in [Call -> Rank \cup {None}]
    /\ RankInBounds

\* The trylock of CONNECT_REQUEST never fails, so that no caller is rejected: the
\* lock of the peer that comes next has never been taken.
LockIsFree ==
    \A p \in Proc : connected_rank[p] \in Rank => ~on_connecting[p][connected_rank[p]]

\* README.md:177, "a server assinge unique id to each client": the source of a
\* caller's message leads back to the caller, so that an isend to it is the answer.
SourceNamesClient ==
    \A c \in Call : source[c] # None => conn[CallHost[c]][source[c]] = Passive(c)

\* What fdmi_verbs_connect waits for is enough to communicate: the connection is
\* stored, all its receives are posted, the queues exist and their thread runs.
ConnectedIsUsable ==
    \A p \in Proc, r \in Rank : is_connected[p][r] =>
        /\ conn[p][r] # None
        /\ posted[conn[p][r]] >= PendingRecvs
        /\ dctx[p] = "queues" /\ polling[p]

\* src/fdmi.c:2115, "rank" is associated with "hostname": once the call returns, the
\* connection stored for the rank leads to the process at hostname.
RankNamesHost ==
    \A c \in Call : call_pc[c] = "returned" =>
        /\ conn[Caller[c]][CallRank[c]] # None
        /\ FarEnd(conn[Caller[c]][CallRank[c]]) = CallHost[c]

\* A rank queued by DISCONNECTED is one whose connection has been lost.
DisconnectedNamesLost ==
    \A p \in Proc : \A k \in 1 .. Len(disconnected_prank_q[p]) :
        \E c \in broken : conn[p][disconnected_prank_q[p][k]] \in {Active(c), Passive(c)}

\* fdmi_verbs_connect returns.
ConnectReturns ==
    \A c \in Call : call_pc[c] = "waiting" ~> call_pc[c] = "returned"

\* A caller that is connected is heard: the receives for its messages are posted on
\* its own connection, unless that is lost.
CallerIsHeard ==
    \A c \in Call : (\E d \in Call : /\ call_pc[d] = "returned"
                                     /\ conn[Caller[d]][CallRank[d]] = Active(c))
                      ~> (source[c] # None \/ c \in broken)
=============================================================================
