--------------------------- MODULE FdmiQueryPool ---------------------------
(***************************************************************************)
(* The life of struct fdmi_query in one process of src/fdmi.c.  Queries    *)
(* are taken from and returned to free_query_q by the application thread   *)
(* and by the completion-queue thread, and are never given back to malloc: *)
(* a thread that uses a query after fdmi_destroy_query reads whatever the  *)
(* other thread has made of it.  Each connection lives on receive credits, *)
(* the queries posted with ibv_post_recv, which every handler replaces.    *)
(*                                                                         *)
(* The peers are the environment.  Matching is by tag; the full matching   *)
(* rules and both ends of the protocol are in FdmiMessaging.  All          *)
(* connections share the protection domain of the one fdmi_domain_context. *)
(***************************************************************************)
EXTENDS Integers, Sequences, SequencesExt

CONSTANTS
    NumConn,            \* connections of this process, to peers 1 .. NumConn
    Tag, FMI_ANY_TAG,   \* message tags, and the wildcard
    SendCall, RecvCall, \* the isend and irecv calls that may be made
    None,               \* NULL
    PendingRecvs,       \* FDMI_MAX_PENDING_RECV_QUERY
    MaxQueries,         \* bound: queries malloc may hand out
    MaxArrivals         \* bound: messages the peers send

ASSUME PoolAssumption ==
    /\ NumConn \in Nat \ {0} /\ PendingRecvs \in Nat \ {0}
    /\ MaxQueries \in Nat /\ MaxQueries >= NumConn * PendingRecvs
    /\ MaxArrivals \in Nat
    /\ None \notin Nat /\ None \notin SendCall \cup RecvCall
    /\ FMI_ANY_TAG \notin Tag \cup {None} /\ SendCall \cap RecvCall = {}

Conn   == 1 .. NumConn
Query  == 1 .. MaxQueries
Call   == SendCall \cup RecvCall
Opcode == {"EAGER", "RDMA_READ"}

VARIABLES
    free,        \* free_query_q
    malloced,    \* number of queries obtained from malloc
    conn, msg, msg_mr, request, to_free,   \* the fields of every query
    rq, sq,      \* per connection: posted receives, posted sends and reads
    cq,          \* the completion queue
    aq, pq,      \* arrived and unmatched, posted and unmatched
    send_req_q,  \* requests of sends not yet completed
    poller, app, \* what the two threads are doing
    called,      \* calls that have been made
    req,         \* the application's request of every call
    wire,        \* per connection: control messages on the way to this process
    owed,        \* per connection: FINs the peer has yet to send
    arrivals,    \* number of messages sent by the peers
    from         \* history: the message a receive was matched with

mem   == <<free, malloced, conn, msg, msg_mr, request, to_free>>
calls == <<called, req, from>>
env   == <<wire, owed, arrivals>>
vars  == <<mem, rq, sq, cq, aq, pq, send_req_q, poller, app, calls, env>>

Message == [type : {"INIT", "FIN"}, opcode : Opcode,
            rank : Conn \cup {None}, tag : Tag \cup {None, FMI_ANY_TAG}]
Blank == [type |-> "INIT", opcode |-> "EAGER", rank |-> None, tag |-> None]
Idle  == [pc |-> "idle", act |-> None, pas |-> None]

\* RDMA_CM_EVENT_ESTABLISHED has given every connection its receives.
Init ==
    /\ free = <<>> /\ malloced = NumConn * PendingRecvs
    /\ conn = [q \in Query |-> IF q <= malloced THEN (q - 1) \div PendingRecvs + 1 ELSE None]
    /\ msg = [q \in Query |-> Blank]
    /\ msg_mr = [q \in Query |-> q <= malloced]
    /\ request = [q \in Query |-> None]
    /\ to_free = [q \in Query |-> None]
    /\ rq = [c \in Conn |-> [k \in 1 .. PendingRecvs |-> (c - 1) * PendingRecvs + k]]
    /\ sq = [c \in Conn |-> <<>>]
    /\ cq = <<>> /\ aq = <<>> /\ pq = <<>> /\ send_req_q = <<>>
    /\ poller = Idle /\ app = Idle
    /\ called = {}
    /\ req = [k \in Call |-> [flag |-> 0, prank |-> None, tag |-> None]]
    /\ wire = [c \in Conn |-> <<>>] /\ owed = [c \in Conn |-> 0] /\ arrivals = 0
    /\ from = [k \in RecvCall |-> None]

-----------------------------------------------------------------------------
(* The pool *)

\* Faulty: any free query will do.
ReusableAny(q, c) == q \in Query

\* fdmi_create_query(c) may return a free query of the same kind: without a
\* connection for a passive query, of the same protection domain else.
Reusable(q, c) == (conn[q] = None) = (c = None)

Reusables(c) == {i \in DOMAIN free : Reusable(free[i], c)}

\* The query that fdmi_create_query(c) returns: the first reusable one, or a
\* new one, whose msg is registered only if c is a connection.
Created(c) == IF Reusables(c) = {} THEN malloced + 1 ELSE free[Min(Reusables(c))]
CreatedMr(c) == IF Reusables(c) = {} THEN c # None ELSE msg_mr[Created(c)]

TakeQuery(c) ==
    IF Reusables(c) = {}
    THEN malloced < MaxQueries /\ malloced' = malloced + 1 /\ UNCHANGED free
    ELSE free' = RemoveAt(free, Min(Reusables(c))) /\ UNCHANGED malloced

\* The fields of the created query; its msg is what it was unless m is given.
Fill(c, newconn, mr, k, tofree, m) ==
    LET q == Created(c) IN
    /\ TakeQuery(c)
    /\ conn' = [conn EXCEPT ![q] = newconn]
    /\ msg_mr' = [msg_mr EXCEPT ![q] = mr]
    /\ request' = [request EXCEPT ![q] = k]
    /\ to_free' = [to_free EXCEPT ![q] = tofree]
    /\ msg' = [msg EXCEPT ![q] = m]

\* fdmi_destroy_query on each of qs
Destroy(qs) ==
    /\ free' = free \o qs
    /\ UNCHANGED <<malloced, conn, msg, msg_mr, request, to_free>>

TagMatch(m, t) == t = FMI_ANY_TAG \/ m.tag = t

Post(c, op, q) == sq' = [sq EXCEPT ![c] = Append(@, [op |-> op, query |-> q])]

-----------------------------------------------------------------------------
(* The application thread: isend, irecv and wait, one call at a time *)

\* fdmi_verbs_isend: a query from the pool carries the control message.
Isend(k, c, t, op) ==
    /\ app.pc = "idle" /\ k \in SendCall \ called
    /\ called' = called \cup {k}
    /\ send_req_q' = Append(send_req_q, k)
    /\ req' = [req EXCEPT ![k].flag = 0]
    /\ Fill(c, c, CreatedMr(c), k, None,
            [type |-> "INIT", opcode |-> op, rank |-> None, tag |-> t])
    /\ Post(c, "SEND", Created(c))
    /\ UNCHANGED <<rq, cq, aq, pq, poller, app, from, env>>

\* fdmi_verbs_irecv that finds message i of aq.  Eager: fdmi_cpy_eager_buff2
\* sets the flag and frees the active query; the status is yet to be copied
\* from it, and the locks of aq and pq are held until then.  Rendezvous:
\* fdmi_init_passive_query and fdmi_post_rdma_read.
IrecvArrived(k, t, i) ==
    LET q == aq[i] IN
    /\ TagMatch(msg[q], t)
    /\ \A j \in 1 .. i - 1 : ~ TagMatch(msg[aq[j]], t)
    /\ aq' = RemoveAt(aq, i)
    /\ from' = [from EXCEPT ![k] = [rank |-> msg[q].rank, tag |-> msg[q].tag]]
    /\ \/ /\ msg[q].opcode = "EAGER"
          /\ req' = [req EXCEPT ![k].flag = 1]
          /\ Destroy(<<q>>)
          /\ app' = [pc |-> "irecv", act |-> q, pas |-> k]
          /\ UNCHANGED sq
       \/ /\ msg[q].opcode = "RDMA_READ"
          /\ req' = [req EXCEPT ![k].flag = 0]
          /\ Fill(None, conn[q], TRUE, k, q, [Blank EXCEPT !.tag = t])
          /\ Post(conn[q], "READ", Created(None))
          /\ UNCHANGED app
    /\ UNCHANGED pq

IrecvWaits(k, t) ==
    /\ \A i \in DOMAIN aq : ~ TagMatch(msg[aq[i]], t)
    /\ req' = [req EXCEPT ![k].flag = 0]
    /\ Fill(None, None, CreatedMr(None), k, None, [Blank EXCEPT !.tag = t])
    /\ pq' = Append(pq, Created(None))
    /\ UNCHANGED <<aq, sq, app, from>>

Irecv(k, t) ==
    /\ app.pc = "idle" /\ k \in RecvCall \ called
    /\ called' = called \cup {k}
    /\ (\E i \in DOMAIN aq : IrecvArrived(k, t, i)) \/ IrecvWaits(k, t)
    /\ UNCHANGED <<rq, cq, send_req_q, poller, env>>

\* The rest of fdmi_post_recv_msg_param: rank and tag are read from the query
\* that has been freed.
IrecvStatus ==
    /\ app.pc = "irecv"
    /\ req' = [req EXCEPT ![app.pas].prank = msg[app.act].rank,
                          ![app.pas].tag = msg[app.act].tag]
    /\ app' = Idle
    /\ UNCHANGED <<mem, rq, sq, cq, aq, pq, send_req_q, poller, called, from, env>>

\* What fdmi_verbs_wait returns for call k, once its flag is set: it reads the
\* request without a lock.
WaitReturns(k) == app.pc = "idle" /\ k \in called /\ req[k].flag = 1
WaitStatus(k)  == [rank |-> req[k].prank, tag |-> req[k].tag]

-----------------------------------------------------------------------------
(* The hardware and the peers *)

\* A peer sends a control message, or the FIN of a rendezvous it has read.
PeerSend(c, t, op) ==
    /\ arrivals < MaxArrivals
    /\ arrivals' = arrivals + 1
    /\ wire' = [wire EXCEPT ![c] = Append(@, [Blank EXCEPT !.opcode = op, !.tag = t])]
    /\ UNCHANGED <<mem, rq, sq, cq, aq, pq, send_req_q, poller, app, calls, owed>>

PeerFin(c) ==
    /\ owed[c] > 0
    /\ owed' = [owed EXCEPT ![c] = @ - 1]
    /\ wire' = [wire EXCEPT ![c] = Append(@, [Blank EXCEPT !.type = "FIN",
                                                          !.opcode = "RDMA_READ"])]
    /\ UNCHANGED <<mem, rq, sq, cq, aq, pq, send_req_q, poller, app, calls, arrivals>>

\* A message is written into the oldest posted receive; without one it waits
\* (rnr_retry_count is 7: retry for ever).
Arrive(c) ==
    /\ wire[c] # <<>> /\ rq[c] # <<>>
    /\ msg' = [msg EXCEPT ![Head(rq[c])] = Head(wire[c])]
    /\ cq' = Append(cq, [op |-> "RECV", query |-> Head(rq[c])])
    /\ wire' = [wire EXCEPT ![c] = Tail(@)]
    /\ rq' = [rq EXCEPT ![c] = Tail(@)]
    /\ UNCHANGED <<free, malloced, conn, msg_mr, request, to_free, sq, aq, pq,
                   send_req_q, poller, app, calls, owed, arrivals>>

\* A send or a read is executed and completed.
Execute(c) ==
    /\ sq[c] # <<>>
    /\ LET wr == Head(sq[c])
           m == msg[wr.query]
           rndv == wr.op = "SEND" /\ m.type = "INIT" /\ m.opcode = "RDMA_READ"
       IN  /\ cq' = Append(cq, wr)
           /\ owed' = [owed EXCEPT ![c] = IF rndv THEN @ + 1 ELSE @]
    /\ sq' = [sq EXCEPT ![c] = Tail(@)]
    /\ UNCHANGED <<mem, rq, aq, pq, send_req_q, poller, app, calls, wire, arrivals>>

-----------------------------------------------------------------------------
(* The completion-queue thread *)

\* The poll loop: take a completion and write the peer's rank into its msg.
Polled(op, type) ==
    /\ poller.pc = "idle" /\ cq # <<>>
    /\ Head(cq).op = op /\ msg[Head(cq).query].type = type
    /\ cq' = Tail(cq)

Ranked(q) == [msg EXCEPT ![q].rank = conn[q]]

\* fdmi_on_recv_cq_wc_recv: its critical section, not while irecv holds the locks
PollInit ==
    /\ Polled("RECV", "INIT") /\ app.pc # "irecv"
    /\ LET q == Head(cq).query IN
       /\ msg' = Ranked(q)
       /\ \/ \E i \in DOMAIN pq :
                /\ TagMatch(msg[q], msg[pq[i]].tag)
                /\ \A j \in 1 .. i - 1 : ~ TagMatch(msg[q], msg[pq[j]].tag)
                /\ pq' = RemoveAt(pq, i)
                /\ from' = [from EXCEPT ![request[pq[i]]] =
                              [rank |-> conn[q], tag |-> msg[q].tag]]
                /\ poller' = [pc |-> msg[q].opcode, act |-> q, pas |-> pq[i]]
                /\ UNCHANGED aq
          \/ /\ \A i \in DOMAIN pq : ~ TagMatch(msg[q], msg[pq[i]].tag)
             /\ aq' = Append(aq, q)
             /\ poller' = [pc |-> "repost", act |-> q, pas |-> None]
             /\ UNCHANGED <<pq, from>>
    /\ UNCHANGED <<free, malloced, conn, msg_mr, request, to_free, rq, sq,
                   send_req_q, app, called, req, env>>

\* fdmi_cpy_eager_buff: the flag, then the status, then both queries are freed.
EagerFlag ==
    /\ poller.pc = "EAGER"
    /\ req' = [req EXCEPT ![request[poller.pas]].flag = 1]
    /\ poller' = [poller EXCEPT !.pc = "status"]
    /\ UNCHANGED <<mem, rq, sq, cq, aq, pq, send_req_q, app, called, from, env>>

EagerStatus ==
    /\ poller.pc = "status"
    /\ LET k == request[poller.pas]
           m == msg[poller.act]
       IN  req' = [req EXCEPT ![k].prank = m.rank, ![k].tag = m.tag]
    /\ poller' = [poller EXCEPT !.pc = "free"]
    /\ UNCHANGED <<mem, rq, sq, cq, aq, pq, send_req_q, app, called, from, env>>

\* Faulty: the passive query is not returned to the pool.
EagerFreeLeaks ==
    /\ poller.pc = "free"
    /\ Destroy(<<poller.act>>)
    /\ poller' = [poller EXCEPT !.pc = "repost", !.pas = None]
    /\ UNCHANGED <<rq, sq, cq, aq, pq, send_req_q, app, calls, env>>

\* Faulty: the receive that the message consumed is not replaced.
EagerFreeReturns ==
    /\ poller.pc = "free"
    /\ Destroy(<<poller.pas, poller.act>>)
    /\ poller' = Idle
    /\ UNCHANGED <<rq, sq, cq, aq, pq, send_req_q, app, calls, env>>

EagerFree ==
    /\ poller.pc = "free"
    /\ Destroy(<<poller.pas, poller.act>>)
    /\ poller' = [poller EXCEPT !.pc = "repost", !.pas = None]
    /\ UNCHANGED <<rq, sq, cq, aq, pq, send_req_q, app, calls, env>>

\* fdmi_post_rdma_read: the passive query is given the connection and a
\* registration of its msg.
PostRead ==
    /\ poller.pc = "RDMA_READ"
    /\ LET a == poller.act
           z == poller.pas
       IN  /\ to_free' = [to_free EXCEPT ![z] = a]
           /\ conn' = [conn EXCEPT ![z] = conn[a]]
           /\ msg_mr' = [msg_mr EXCEPT ![z] = TRUE]
           /\ Post(conn[a], "READ", z)
    /\ poller' = [poller EXCEPT !.pc = "repost", !.pas = None]
    /\ UNCHANGED <<free, malloced, msg, request, rq, cq, aq, pq, send_req_q, app, calls, env>>

\* fdmi_post_recv_msg(fdmi_create_query(query->conn)): the connection is read
\* from the handled query, which may have been freed and reused by now.
Repost ==
    /\ poller.pc = "repost"
    /\ LET c == conn[poller.act] IN
       /\ Fill(c, c, CreatedMr(c), None, None, msg[Created(c)])
       /\ rq' = [rq EXCEPT ![c] = Append(@, Created(c))]
    /\ poller' = Idle
    /\ UNCHANGED <<sq, cq, aq, pq, send_req_q, app, calls, env>>

\* fdmi_on_recv_cq_wc_rdma_read: flag, status, then the FIN.
PollRead ==
    /\ Polled("READ", "INIT")
    /\ LET z == Head(cq).query IN
       /\ msg' = [Ranked(z) EXCEPT ![to_free[z]].type = "FIN"]
       /\ req' = [req EXCEPT ![request[z]].flag = 1]
       /\ poller' = [pc |-> "read", act |-> to_free[z], pas |-> z]
    /\ UNCHANGED <<free, malloced, conn, msg_mr, request, to_free, rq, sq, aq, pq,
                   send_req_q, app, called, from, env>>

ReadStatus ==
    /\ poller.pc = "read"
    /\ LET k == request[poller.pas]
           m == msg[poller.act]
       IN  req' = [req EXCEPT ![k].prank = m.rank, ![k].tag = m.tag]
    /\ poller' = [poller EXCEPT !.pc = "fin"]
    /\ UNCHANGED <<mem, rq, sq, cq, aq, pq, send_req_q, app, called, from, env>>

ReadFin ==
    /\ poller.pc = "fin"
    /\ Post(conn[poller.act], "SEND", poller.act)
    /\ Destroy(<<poller.pas>>)
    /\ poller' = Idle
    /\ UNCHANGED <<rq, cq, aq, pq, send_req_q, app, calls, env>>

\* fdmi_on_send_cq_wc_send
PollSent ==
    /\ Polled("SEND", "INIT")
    /\ LET q == Head(cq).query
           k == request[q]
           eager == msg[q].opcode = "EAGER"
       IN  /\ req' = IF eager THEN [req EXCEPT ![k].flag = 1] ELSE req
           /\ send_req_q' = IF eager THEN RemoveFirst(send_req_q, k) ELSE send_req_q
           /\ msg' = Ranked(q)
           /\ free' = Append(free, q)
    /\ UNCHANGED <<malloced, conn, msg_mr, request, to_free, rq, sq, aq, pq, poller,
                   app, called, from, env>>

\* fdmi_on_recv_cq_wc_send
PollFinSent ==
    /\ Polled("SEND", "FIN")
    /\ msg' = Ranked(Head(cq).query)
    /\ free' = Append(free, Head(cq).query)
    /\ UNCHANGED <<malloced, conn, msg_mr, request, to_free, rq, sq, aq, pq,
                   send_req_q, poller, app, calls, env>>

\* Faulty: active_query_to_free is freed without a test for NULL.
PollFinUnchecked ==
    /\ Polled("RECV", "FIN")
    /\ LET q == Head(cq).query
           k == send_req_q[1]
       IN  /\ req' = [req EXCEPT ![k].flag = 1]
           /\ send_req_q' = Tail(send_req_q)
           /\ msg' = Ranked(q)
           /\ free' = free \o <<to_free[q], q>>
           /\ poller' = [pc |-> "repost", act |-> q, pas |-> None]
    /\ UNCHANGED <<malloced, conn, msg_mr, request, to_free, rq, sq, aq, pq, app,
                   called, from, env>>

\* fdmi_on_send_cq_wc_recv: the oldest request is completed and the query freed
PollFin ==
    /\ Polled("RECV", "FIN")
    /\ LET q == Head(cq).query
           k == send_req_q[1]
       IN  /\ IF send_req_q = <<>> THEN UNCHANGED <<req, send_req_q>>
              ELSE /\ req' = [req EXCEPT ![k].flag = 1]
                   /\ send_req_q' = Tail(send_req_q)
           /\ msg' = Ranked(q)
           /\ free' = free \o (IF to_free[q] = None THEN <<q>> ELSE <<to_free[q], q>>)
           /\ poller' = [pc |-> "repost", act |-> q, pas |-> None]
    /\ UNCHANGED <<malloced, conn, msg_mr, request, to_free, rq, sq, aq, pq, app,
                   called, from, env>>

-----------------------------------------------------------------------------
PollerStep ==
    \/ PollInit \/ EagerFlag \/ EagerStatus \/ EagerFree \/ PostRead \/ Repost
    \/ PollRead \/ ReadStatus \/ ReadFin \/ PollSent \/ PollFinSent \/ PollFin

Next ==
    \/ \E k \in SendCall, c \in Conn, t \in Tag, op \in Opcode : Isend(k, c, t, op)
    \/ \E k \in RecvCall, t \in Tag \cup {FMI_ANY_TAG} : Irecv(k, t)
    \/ IrecvStatus
    \/ \E c \in Conn, t \in Tag, op \in Opcode : PeerSend(c, t, op)
    \/ \E c \in Conn : PeerFin(c) \/ Arrive(c) \/ Execute(c)
    \/ PollerStep

Spec == Init /\ [][Next]_vars

\* Both threads run, and the hardware and the peers' libraries make progress.
FairSpec ==
    /\ Spec
    /\ WF_vars(IrecvStatus) /\ WF_vars(PollerStep)
    /\ \A c \in Conn : WF_vars(PeerFin(c)) /\ WF_vars(Arrive(c)) /\ WF_vars(Execute(c))

-----------------------------------------------------------------------------
(* Properties *)

\* the poller has an active and a passive query in its hands
Holding == {"EAGER", "status", "free", "RDMA_READ", "read", "fin"}

\* Every variable keeps its type.
TypeOK ==
    /\ free \in Seq(Query) /\ malloced \in 0 .. MaxQueries
    /\ conn \in [Query -> Conn \cup {None}]
    /\ msg \in [Query -> Message]
    /\ msg_mr \in [Query -> BOOLEAN]
    /\ request \in [Query -> Call \cup {None}]
    /\ to_free \in [Query -> Query \cup {None}]
    /\ rq \in [Conn -> Seq(Query)]
    /\ sq \in [Conn -> Seq([op : {"SEND", "READ"}, query : Query])]
    /\ cq \in Seq([op : {"SEND", "READ", "RECV"}, query : Query])
    /\ aq \in Seq(Query) /\ pq \in Seq(Query)
    /\ send_req_q \in Seq(SendCall)
    /\ poller \in [pc : Holding \cup {"idle", "repost"},
                   act : Query \cup {None}, pas : Query \cup {None}]
    /\ app \in [pc : {"idle", "irecv"}, act : Query \cup {None}, pas : RecvCall \cup {None}]
    /\ called \subseteq Call
    /\ req \in [Call -> [flag : {0, 1}, prank : Conn \cup {None}, tag : Tag \cup {None}]]
    /\ wire \in [Conn -> Seq(Message)] /\ owed \in [Conn -> Nat]
    /\ arrivals \in 0 .. MaxArrivals

Queries(s) == [i \in DOMAIN s |-> s[i].query]

\* query z is posted, or its completion is waiting
InFlight(z) == z \in Range(Queries(cq)) \/ \E c \in Conn : z \in Range(Queries(sq[c]))

\* the places of list s, named name and of connection c, that hold query q
At(name, c, s, q) == {<<name, c, i>> : i \in {j \in DOMAIN s : s[j] = q}}

\* posted, in the hands of the poller, in active_query_to_free of a rendezvous
ConnPlaces(q) ==
    UNION {At("rq", c, rq[c], q) \cup At("sq", c, Queries(sq[c]), q) : c \in Conn}
HandPlaces(q) ==
    IF poller.pc \in Holding THEN At("poller", 0, <<poller.act, poller.pas>>, q) ELSE {}
ReadPlaces(q) == {<<"to_free", 0, z>> : z \in {y \in Query : to_free[y] = q /\ InFlight(y)}}

\* the places that hold query q
Places(q) ==
    At("free", 0, free, q) \cup At("aq", 0, aq, q) \cup At("pq", 0, pq, q)
    \cup At("cq", 0, Queries(cq), q) \cup ConnPlaces(q) \cup HandPlaces(q) \cup ReadPlaces(q)

\* A query that malloc has handed out is in exactly one place: none is freed
\* twice, posted while it waits in a queue, or leaked.
OneOwner ==
    \A q \in Query : IF q <= malloced THEN \E p \in Places(q) : Places(q) = {p}
                                     ELSE Places(q) = {}

\* The HCA only gets queries whose msg is registered, though passive queries
\* are created without a registration and become active ones in
\* fdmi_post_rdma_read.
PostedIsRegistered ==
    \A c \in Conn : /\ \A i \in DOMAIN rq[c] : msg_mr[rq[c][i]]
                    /\ \A i \in DOMAIN sq[c] : msg_mr[sq[c][i].query]

Handling(c) ==
    IF poller.pc \in {"EAGER", "status", "free", "RDMA_READ", "repost"}
       /\ conn[poller.act] = c THEN 1 ELSE 0

\* Every connection keeps its PendingRecvs receives: those a message has
\* consumed are replaced on the same connection.
CreditsKept ==
    \A c \in Conn :
        Len(rq[c]) + Handling(c)
        + Cardinality({i \in DOMAIN cq : cq[i].op = "RECV" /\ conn[cq[i].query] = c})
            = PendingRecvs

\* When the peers have sent as many messages as the application has receives
\* that accept any of them (one tag), every receive completes: wait returns.
RecvsComplete ==
    (RecvCall \subseteq called /\ arrivals = Cardinality(RecvCall) /\ Cardinality(Tag) = 1)
        ~> (\A k \in RecvCall : req[k].flag = 1)

\* The status of a completed receive names the message it was matched with
\* (README, FMI_Status: "FMI_SOURCE: `id` of processes sending the message").
StatusNamesSender ==
    \A k \in RecvCall : WaitReturns(k) => WaitStatus(k) = from[k]

=============================================================================
