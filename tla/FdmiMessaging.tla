--------------------------- MODULE FdmiMessaging ---------------------------
(***************************************************************************)
(* The message protocol of src/fdmi.c: fdmi_verbs_isend and                *)
(* fdmi_verbs_irecv called by application threads, the completion-queue    *)
(* thread fdmi_poll_sendrecv_cq of every process, and the reliable         *)
(* connections (RC queue pairs) between them.                              *)
(*                                                                         *)
(* A small message travels EAGER inside its control message.  A large one  *)
(* is a rendezvous: the control message (INIT) announces the send buffer,  *)
(* the receiver pulls it with an RDMA READ and answers with a FIN.         *)
(*                                                                         *)
(* A query is modelled by the operation it serves (a member of Send or     *)
(* Recv): that a query has one owner at a time, and the request's          *)
(* prank/tag, are the subject of module FdmiQueryPool.  The epoch in every *)
(* message is left out: ft_msg.epoch is 0 from fdmi_verbs_init on, so no   *)
(* epoch test of the code ever fails.                                      *)
(***************************************************************************)
EXTENDS Integers, Sequences, FiniteSets, SequencesExt

CONSTANTS
    Proc,            \* processes, every pair of them connected
    Traffic,         \* the pairs <<src, dst>> whose applications send messages
    Send, Recv,      \* the isend and the irecv calls that may be made
    Tag, Comm,       \* message tags and communicator ids
    Opcode,          \* EAGER for small messages, RDMA_READ for large ones
    Op,              \* values of fdmi_msg.op, which isend leaves uninitialised
    FMI_ANY_SOURCE, FMI_ANY_TAG,
    None,            \* no operation
    SerialSends,     \* TRUE: a process has one isend outstanding at a time
    MaxBreaks        \* bound: connections that may break

ASSUME ProtocolAssumption ==
    /\ FMI_ANY_SOURCE \notin Proc /\ FMI_ANY_TAG \notin Tag
    /\ Traffic \subseteq {pd \in Proc \X Proc : pd[1] # pd[2]}
    /\ None \notin Send /\ None \notin Recv /\ Send \cap Recv = {}
    /\ Op \subseteq Nat /\ Opcode \subseteq {"EAGER", "RDMA_READ"}
    /\ SerialSends \in BOOLEAN /\ MaxBreaks \in Nat

FDMI_FORCE == 2

VARIABLES
    isend_pc,    \* how far the isend call has come
    snd,         \* its control message, None before the call
    rcv,         \* the irecv call's parameters, None before the call
    flag,        \* request_flag of every operation
    send_req_q,  \* per process: requests of sends not yet completed
    aq, pq,      \* per process: arrived and unmatched / posted and unmatched
    poller,      \* per process: where its completion-queue thread is
    fdmi_state,  \* per process: COMPUTE or FAILURE
    sq, done,    \* per QP: work requests posted / executed, not yet reported
    cq,          \* per process: its completion queue
    broken,      \* connections that are down
    sbuf, rbuf,  \* contents of the application's send / receive buffers
    got,         \* history: the send each receive was matched with
    slog, rlog   \* history: the order of isends per QP, of irecvs per process

app  == <<isend_pc, snd, rcv, flag, send_req_q>>
nic  == <<sq, done, cq, broken>>
bufs == <<sbuf, rbuf>>
hist == <<got, slog, rlog>>
vars == <<app, aq, pq, poller, fdmi_state, nic, bufs, hist>>

Message == [src : Proc, dst : Proc, tag : Tag, comm : Comm, op : Op,
            opcode : Opcode]
Receive == [at : Proc, src : Proc \cup {FMI_ANY_SOURCE},
            tag : Tag \cup {FMI_ANY_TAG}, comm : Comm]
Data    == {"none", "orig", "reused"}
Wr      == [op : {"SEND", "READ"}, type : {"INIT", "FIN"},
            send : Send, recv : Recv \cup {None}]
Wc      == [op : {"RECV", "SEND", "READ"}, type : {"INIT", "FIN"},
            send : Send, recv : Recv \cup {None}, data : Data]
Arrived == [send : Send, data : Data]
Poller  == [pc : {"poll", "matched", "remove", "fin"},
            send : Send \cup {None}, data : Data, recv : Recv \cup {None}]

ASSUME NoneAssumption == None \notin Receive /\ None \notin Message

Polling == [pc |-> "poll", send |-> None, data |-> "none", recv |-> None]

Init ==
    /\ isend_pc = [s \in Send |-> "idle"]
    /\ snd = [s \in Send |-> None]
    /\ rcv = [r \in Recv |-> None]
    /\ flag = [x \in Send \cup Recv |-> 0]
    /\ send_req_q = [p \in Proc |-> <<>>]
    /\ aq = [p \in Proc |-> <<>>]
    /\ pq = [p \in Proc |-> <<>>]
    /\ poller = [p \in Proc |-> Polling]
    /\ fdmi_state = [p \in Proc |-> "COMPUTE"]
    /\ sq = [p \in Proc |-> [d \in Proc |-> <<>>]]
    /\ done = [p \in Proc |-> [d \in Proc |-> <<>>]]
    /\ cq = [p \in Proc |-> <<>>]
    /\ broken = {}
    /\ sbuf = [s \in Send |-> "orig"]
    /\ rbuf = [r \in Recv |-> "none"]
    /\ got = [r \in Recv |-> None]
    /\ slog = [p \in Proc |-> [d \in Proc |-> <<>>]]
    /\ rlog = [p \in Proc |-> <<>>]

-----------------------------------------------------------------------------
(* Matching *)

MatchField(a, b, any) == a = any \/ b = any \/ a = b

\* fdmi_is_matched_query / fdmi_is_matched_query2: message m, receive q
IsMatched(m, q) ==
    /\ m.comm = q.comm
    /\ MatchField(m.src, q.src, FMI_ANY_SOURCE)
    /\ MatchField(m.tag, q.tag, FMI_ANY_TAG)

\* Faulty: any matching entry instead of the first.
AnyInAq(p, q, i) == i \in DOMAIN aq[p] /\ IsMatched(snd[aq[p][i].send], q)

\* fdmi_get_matched_query: i is the first entry of pq that accepts send s
FirstInPq(p, s, i) ==
    /\ i \in DOMAIN pq[p]
    /\ IsMatched(snd[s], rcv[pq[p][i]])
    /\ \A j \in 1 .. i - 1 : ~ IsMatched(snd[s], rcv[pq[p][j]])

\* fdmi_get_matched_query2: i is the first entry of aq that receive q accepts
FirstInAq(p, q, i) ==
    /\ i \in DOMAIN aq[p]
    /\ IsMatched(snd[aq[p][i].send], q)
    /\ \A j \in 1 .. i - 1 : ~ IsMatched(snd[aq[p][j].send], q)

\* ibv_post_send: a work request on a broken QP is flushed, with an error
\* completion that fdmi_get_wc reports as -1 and the poller passes over.
Posted(p, d, wr) ==
    IF {p, d} \in broken THEN sq ELSE [sq EXCEPT ![p][d] = Append(@, wr)]

SendWr(s, type) == [op |-> "SEND", type |-> type, send |-> s, recv |-> None]
ReadWr(s, r)    == [op |-> "READ", type |-> "INIT", send |-> s, recv |-> r]

-----------------------------------------------------------------------------
(* Application threads *)

Outstanding(p, s) ==
    snd[s] # None /\ snd[s].src = p /\ (isend_pc[s] # "posted" \/ flag[s] = 0)

\* fdmi_verbs_isend up to the registration of the request in send_req_q
IsendEnq(p, s) ==
    /\ isend_pc[s] = "idle"
    /\ SerialSends => \A x \in Send : ~ Outstanding(p, x)
    /\ \E d \in Proc, t \in Tag, c \in Comm, o \in Op, k \in Opcode :
          /\ <<p, d>> \in Traffic
          /\ snd' = [snd EXCEPT ![s] = [src |-> p, dst |-> d, tag |-> t,
                                        comm |-> c, op |-> o, opcode |-> k]]
    /\ isend_pc' = [isend_pc EXCEPT ![s] = "enqueued"]
    /\ send_req_q' = [send_req_q EXCEPT ![p] = Append(@, s)]
    /\ UNCHANGED <<rcv, flag, aq, pq, poller, fdmi_state, nic, bufs, hist>>

\* the rest of fdmi_verbs_isend: clear the flag, post the control message
IsendPost(s) ==
    /\ isend_pc[s] = "enqueued"
    /\ isend_pc' = [isend_pc EXCEPT ![s] = "posted"]
    /\ flag' = [flag EXCEPT ![s] = 0]
    /\ sq' = Posted(snd[s].src, snd[s].dst, SendWr(s, "INIT"))
    /\ slog' = [slog EXCEPT ![snd[s].src][snd[s].dst] = Append(@, s)]
    /\ UNCHANGED <<snd, rcv, send_req_q, aq, pq, poller, fdmi_state,
                   done, cq, broken, bufs, got, rlog>>

\* A receive q that finds entry i of aq waiting.  An eager message is copied
\* into the receive buffer, a rendezvous one is fetched with an RDMA READ.
IrecvArrived(p, r, q, i) ==
    LET m == aq[p][i] IN
    /\ FirstInAq(p, q, i)
    /\ aq' = [aq EXCEPT ![p] = RemoveAt(@, i)]
    /\ got' = [got EXCEPT ![r] = m.send]
    /\ \/ /\ snd[m.send].opcode = "EAGER"
          /\ rbuf' = [rbuf EXCEPT ![r] = m.data]
          /\ flag' = [flag EXCEPT ![r] = 1]
          /\ UNCHANGED sq
       \/ /\ snd[m.send].opcode = "RDMA_READ"
          /\ flag' = [flag EXCEPT ![r] = 0]
          /\ sq' = Posted(p, snd[m.send].src, ReadWr(m.send, r))
          /\ UNCHANGED rbuf
    /\ UNCHANGED pq

\* Faulty: the receive is queued without a look at aq.
IrecvUnchecked(p, r, q) ==
    /\ flag' = [flag EXCEPT ![r] = 0]
    /\ pq' = [pq EXCEPT ![p] = Append(@, r)]
    /\ UNCHANGED <<aq, got, rbuf, sq>>

\* A receive q that finds nothing in aq waits in pq.
IrecvWaits(p, r, q) ==
    /\ \A i \in DOMAIN aq[p] : ~ IsMatched(snd[aq[p][i].send], q)
    /\ flag' = [flag EXCEPT ![r] = 0]
    /\ pq' = [pq EXCEPT ![p] = Append(@, r)]
    /\ UNCHANGED <<aq, got, rbuf, sq>>

\* fdmi_verbs_irecv: clear the flag, then search aq and queue the receive if
\* need be, one critical section of the locks of aq and pq.
Irecv(p, r) ==
    /\ rcv[r] = None
    /\ \E src \in (Proc \ {p}) \cup {FMI_ANY_SOURCE},
          t \in Tag \cup {FMI_ANY_TAG}, c \in Comm :
          LET q == [at |-> p, src |-> src, tag |-> t, comm |-> c] IN
          /\ rcv' = [rcv EXCEPT ![r] = q]
          /\ \/ \E i \in DOMAIN aq[p] : IrecvArrived(p, r, q, i)
             \/ IrecvWaits(p, r, q)
    /\ rlog' = [rlog EXCEPT ![p] = Append(@, r)]
    /\ UNCHANGED <<isend_pc, snd, send_req_q, poller, fdmi_state,
                   done, cq, broken, sbuf, slog>>

\* fdmi_verbs_wait has seen the flag of send s: the application may write
\* into the send buffer again.
ReuseSendBuffer(s) ==
    /\ isend_pc[s] = "posted" /\ flag[s] = 1 /\ sbuf[s] = "orig"
    /\ sbuf' = [sbuf EXCEPT ![s] = "reused"]
    /\ UNCHANGED <<app, aq, pq, poller, fdmi_state, nic, rbuf, hist>>

-----------------------------------------------------------------------------
(* Queue pairs.  Work requests of a QP execute and complete in order; all  *)
(* queue pairs of a process report to its one completion queue.            *)

\* A SEND takes the data out of the send buffer and completes a receive of
\* the peer; only an eager INIT carries data.
NicSend(p, d) ==
    /\ sq[p][d] # <<>> /\ Head(sq[p][d]).op = "SEND"
    /\ LET wr == Head(sq[p][d])
           eager == wr.type = "INIT" /\ snd[wr.send].opcode = "EAGER"
       IN  cq' = [cq EXCEPT ![d] = Append(@,
                    [op |-> "RECV", type |-> wr.type, send |-> wr.send,
                     recv |-> None,
                     data |-> IF eager THEN sbuf[wr.send] ELSE "none"])]
    /\ done' = [done EXCEPT ![p][d] = Append(@, Head(sq[p][d]))]
    /\ sq' = [sq EXCEPT ![p][d] = Tail(@)]
    /\ UNCHANGED <<app, aq, pq, poller, fdmi_state, broken, bufs, hist>>

\* An RDMA READ copies the peer's send buffer into the receive buffer.
NicRead(p, d) ==
    /\ sq[p][d] # <<>> /\ Head(sq[p][d]).op = "READ"
    /\ LET wr == Head(sq[p][d])
       IN  rbuf' = [rbuf EXCEPT ![wr.recv] = sbuf[wr.send]]
    /\ done' = [done EXCEPT ![p][d] = Append(@, Head(sq[p][d]))]
    /\ sq' = [sq EXCEPT ![p][d] = Tail(@)]
    /\ UNCHANGED <<app, aq, pq, poller, fdmi_state, cq, broken, sbuf, hist>>

\* The acknowledgement of an executed work request completes it.
NicComplete(p, d) ==
    /\ done[p][d] # <<>>
    /\ LET wr == Head(done[p][d])
       IN  cq' = [cq EXCEPT ![p] = Append(@,
                    [op |-> wr.op, type |-> wr.type, send |-> wr.send,
                     recv |-> wr.recv, data |-> "none"])]
    /\ done' = [done EXCEPT ![p][d] = Tail(@)]
    /\ UNCHANGED <<app, aq, pq, poller, fdmi_state, sq, broken, bufs, hist>>

\* The connection of p and d goes down: work requests in flight are lost and
\* of the executed ones a suffix is reported as failed, which nobody handles.
Break(p, d) ==
    /\ {p, d} \notin broken /\ Cardinality(broken) < MaxBreaks /\ p # d
    /\ broken' = broken \cup {{p, d}}
    /\ sq' = [sq EXCEPT ![p][d] = <<>>, ![d][p] = <<>>]
    /\ \E m \in 0 .. Len(done[p][d]), n \in 0 .. Len(done[d][p]) :
          done' = [done EXCEPT ![p][d] = SubSeq(@, 1, m),
                               ![d][p] = SubSeq(@, 1, n)]
    /\ UNCHANGED <<app, aq, pq, poller, fdmi_state, cq, bufs, hist>>

\* RDMA_CM_EVENT_DISCONNECTED in fdmi_poll_event_recv_channel.  The flush of
\* the queues and the release of the waiters follow a break and never run.
Disconnected(p, d) ==
    /\ {p, d} \in broken /\ fdmi_state[p] # "FAILURE"
    /\ fdmi_state' = [fdmi_state EXCEPT ![p] = "FAILURE"]
    /\ UNCHANGED <<app, aq, pq, poller, nic, bufs, hist>>

-----------------------------------------------------------------------------
(* The completion-queue thread fdmi_poll_sendrecv_cq *)

\* fdmi_get_wc hands the poller a completion of this kind
Polled(p, op, type) ==
    /\ poller[p].pc = "poll" /\ cq[p] # <<>>
    /\ Head(cq[p]).op = op /\ Head(cq[p]).type = type
    /\ cq' = [cq EXCEPT ![p] = Tail(@)]

\* op | FDMI_FORCE, the test both receive handlers make in state FAILURE
OrForce(op) == IF (op \div FDMI_FORCE) % 2 = 1 THEN op ELSE op + FDMI_FORCE
Discarded(p, s) == fdmi_state[p] = "FAILURE" /\ OrForce(snd[s].op) = 0

\* fdmi_on_recv_cq_wc_recv, the critical section of aq and pq.  Without a
\* matching receive the message is queued; else its query and the receive's
\* leave the queues and are handled by Deliver.
PollInit(p) ==
    /\ Polled(p, "RECV", "INIT")
    /\ LET m == Head(cq[p]) IN
       IF Discarded(p, m.send) THEN UNCHANGED <<aq, pq, poller, got>> ELSE
          \/ \E i \in DOMAIN pq[p] :
               /\ FirstInPq(p, m.send, i)
               /\ poller' = [poller EXCEPT ![p] =
                     [pc |-> "matched", send |-> m.send, data |-> m.data,
                      recv |-> pq[p][i]]]
               /\ got' = [got EXCEPT ![pq[p][i]] = m.send]
               /\ pq' = [pq EXCEPT ![p] = RemoveAt(@, i)]
               /\ UNCHANGED aq
          \/ /\ \A i \in DOMAIN pq[p] : ~ IsMatched(snd[m.send], rcv[pq[p][i]])
             /\ aq' = [aq EXCEPT ![p] = Append(@, [send |-> m.send, data |-> m.data])]
             /\ UNCHANGED <<poller, got, pq>>
    /\ UNCHANGED <<app, fdmi_state, sq, done, broken, bufs, slog, rlog>>

\* Faulty: a rendezvous whose receive was already posted is not fetched.
DeliverWithoutRead(p) ==
    /\ poller[p].pc = "matched"
    /\ LET s == poller[p].send
           r == poller[p].recv
       IN \/ /\ snd[s].opcode = "EAGER"
             /\ rbuf' = [rbuf EXCEPT ![r] = poller[p].data]
             /\ flag' = [flag EXCEPT ![r] = 1]
          \/ /\ snd[s].opcode = "RDMA_READ"
             /\ UNCHANGED <<rbuf, flag>>
    /\ poller' = [poller EXCEPT ![p] = Polling]
    /\ UNCHANGED <<isend_pc, snd, rcv, send_req_q, aq, pq, fdmi_state,
                   nic, sbuf, hist>>

\* The rest of fdmi_on_recv_cq_wc_recv: fdmi_cpy_eager_buff completes an
\* eager receive, fdmi_post_rdma_read starts a rendezvous.
Deliver(p) ==
    /\ poller[p].pc = "matched"
    /\ LET s == poller[p].send
           r == poller[p].recv
       IN \/ /\ snd[s].opcode = "EAGER"
             /\ rbuf' = [rbuf EXCEPT ![r] = poller[p].data]
             /\ flag' = [flag EXCEPT ![r] = 1]
             /\ UNCHANGED sq
          \/ /\ snd[s].opcode = "RDMA_READ"
             /\ sq' = Posted(p, snd[s].src, ReadWr(s, r))
             /\ UNCHANGED <<rbuf, flag>>
    /\ poller' = [poller EXCEPT ![p] = Polling]
    /\ UNCHANGED <<isend_pc, snd, rcv, send_req_q, aq, pq, fdmi_state,
                   done, cq, broken, sbuf, hist>>

\* Faulty: the FIN is forgotten.
PollReadWithoutFin(p) ==
    /\ Polled(p, "READ", "INIT")
    /\ flag' = [flag EXCEPT ![Head(cq[p]).recv] = 1]
    /\ UNCHANGED <<isend_pc, snd, rcv, send_req_q, aq, pq, poller, fdmi_state,
                   sq, done, broken, bufs, hist>>

\* fdmi_on_recv_cq_wc_rdma_read: the receive is complete ...
PollRead(p) ==
    /\ Polled(p, "READ", "INIT")
    /\ LET wr == Head(cq[p]) IN
       /\ flag' = [flag EXCEPT ![wr.recv] = 1]
       /\ poller' = [poller EXCEPT ![p] = [Polling EXCEPT !.pc = "fin", !.send = wr.send]]
    /\ UNCHANGED <<isend_pc, snd, rcv, send_req_q, aq, pq, fdmi_state,
                   sq, done, broken, bufs, hist>>

\* ... and its active query goes back to the sender as a FIN.
SendFin(p) ==
    /\ poller[p].pc = "fin"
    /\ sq' = Posted(p, snd[poller[p].send].src, SendWr(poller[p].send, "FIN"))
    /\ poller' = [poller EXCEPT ![p] = Polling]
    /\ UNCHANGED <<app, aq, pq, fdmi_state, done, cq, broken, bufs, hist>>

\* Faulty: a rendezvous send is completed without its FIN.
PollSentAny(p) ==
    /\ Polled(p, "SEND", "INIT")
    /\ LET s == Head(cq[p]).send IN
       /\ flag' = [flag EXCEPT ![s] = 1]
       /\ poller' = [poller EXCEPT ![p] =
                       [Polling EXCEPT !.pc = "remove", !.send = s]]
    /\ UNCHANGED <<isend_pc, snd, rcv, send_req_q, aq, pq, fdmi_state,
                   sq, done, broken, bufs, hist>>

\* Faulty: completions are counted, though a FIN may have completed the
\* request before.
PollSentCounts(p) ==
    /\ Polled(p, "SEND", "INIT")
    /\ LET s == Head(cq[p]).send IN
       /\ flag' = [flag EXCEPT ![s] = IF snd[s].opcode = "EAGER" THEN @ + 1 ELSE @]
       /\ poller' = IF snd[s].opcode = "EAGER"
                    THEN [poller EXCEPT ![p] = [Polling EXCEPT !.pc = "remove", !.send = s]]
                    ELSE poller
    /\ UNCHANGED <<isend_pc, snd, rcv, send_req_q, aq, pq, fdmi_state,
                   sq, done, broken, bufs, hist>>

\* fdmi_on_send_cq_wc_send: the completion of its SEND completes the request
\* of an eager send; a rendezvous send waits for the FIN.
PollSent(p) ==
    /\ Polled(p, "SEND", "INIT")
    /\ LET s == Head(cq[p]).send IN
       \/ /\ snd[s].opcode = "EAGER"
          /\ flag' = [flag EXCEPT ![s] = 1]
          /\ poller' = [poller EXCEPT ![p] =
                          [Polling EXCEPT !.pc = "remove", !.send = s]]
       \/ /\ snd[s].opcode = "RDMA_READ"
          /\ UNCHANGED <<flag, poller>>
    /\ UNCHANGED <<isend_pc, snd, rcv, send_req_q, aq, pq, fdmi_state,
                   sq, done, broken, bufs, hist>>

\* fdmi_on_recv_cq_wc_send: the query of a FIN is freed
PollFinSent(p) ==
    /\ Polled(p, "SEND", "FIN")
    /\ UNCHANGED <<app, aq, pq, poller, fdmi_state, sq, done, broken, bufs, hist>>

\* the end of fdmi_on_send_cq_wc_send: the request leaves send_req_q
RemoveSendReq(p) ==
    /\ poller[p].pc = "remove"
    /\ send_req_q' = [send_req_q EXCEPT ![p] = RemoveFirst(@, poller[p].send)]
    /\ poller' = [poller EXCEPT ![p] = Polling]
    /\ UNCHANGED <<isend_pc, snd, rcv, flag, aq, pq, fdmi_state, nic, bufs, hist>>

\* fdmi_on_send_cq_wc_recv: a FIN completes the request at the head of
\* send_req_q, whichever send it answers.
PollFin(p) ==
    /\ Polled(p, "RECV", "FIN")
    /\ LET n == IF Discarded(p, Head(cq[p]).send) THEN 0 ELSE 1
           sreq == ToSet(SubSeq(send_req_q[p], 1, n))
       IN  /\ flag' = [x \in DOMAIN flag |-> IF x \in sreq THEN 1 ELSE flag[x]]
           /\ send_req_q' = [send_req_q EXCEPT ![p] = SubSeq(@, n + 1, Len(@))]
    /\ UNCHANGED <<isend_pc, snd, rcv, aq, pq, poller, fdmi_state,
                   sq, done, broken, bufs, hist>>

-----------------------------------------------------------------------------
PollerStep(p) ==
    \/ PollInit(p) \/ Deliver(p)
    \/ PollRead(p) \/ SendFin(p) \/ PollFinSent(p)
    \/ PollSent(p) \/ RemoveSendReq(p) \/ PollFin(p)

NicStep(p, d) == NicSend(p, d) \/ NicRead(p, d)

Next ==
    \/ \E p \in Proc, s \in Send : IsendEnq(p, s)
    \/ \E s \in Send : IsendPost(s) \/ ReuseSendBuffer(s)
    \/ \E p \in Proc, r \in Recv : Irecv(p, r)
    \/ \E p \in Proc : PollerStep(p)
    \/ \E p, d \in Proc : \/ NicStep(p, d) \/ NicComplete(p, d)
                          \/ Break(p, d) \/ Disconnected(p, d)

Spec == Init /\ [][Next]_vars

\* A thread inside a call proceeds, the poller never blocks, and the hardware
\* executes and completes what is posted and reports a lost connection.
Fairness ==
    /\ \A s \in Send : WF_vars(IsendPost(s))
    /\ \A p \in Proc : WF_vars(PollerStep(p))
    /\ \A p, d \in Proc : /\ WF_vars(NicStep(p, d))
                          /\ WF_vars(NicComplete(p, d))
                          /\ WF_vars(Disconnected(p, d))

FairSpec == Spec /\ Fairness

-----------------------------------------------------------------------------
(* Properties *)

\* Every variable keeps its type.
TypeOK ==
    /\ isend_pc \in [Send -> {"idle", "enqueued", "posted"}]
    /\ snd \in [Send -> Message \cup {None}]
    /\ rcv \in [Recv -> Receive \cup {None}]
    /\ flag \in [Send \cup Recv -> {0, 1}]
    /\ send_req_q \in [Proc -> Seq(Send)]
    /\ aq \in [Proc -> Seq(Arrived)]
    /\ pq \in [Proc -> Seq(Recv)]
    /\ poller \in [Proc -> Poller]
    /\ fdmi_state \in [Proc -> {"COMPUTE", "FAILURE"}]
    /\ sq \in [Proc -> [Proc -> Seq(Wr)]]
    /\ done \in [Proc -> [Proc -> Seq(Wr)]]
    /\ cq \in [Proc -> Seq(Wc)]
    /\ broken \subseteq SUBSET Proc
    /\ sbuf \in [Send -> {"orig", "reused"}]
    /\ rbuf \in [Recv -> Data]
    /\ got \in [Recv -> Send \cup {None}]
    /\ slog \in [Proc -> [Proc -> Seq(Send)]]
    /\ rlog \in [Proc -> Seq(Recv)]

\* A message and a receive that accept each other never both wait: the search
\* of one queue and the insertion into the other are one critical section in
\* fdmi_on_recv_cq_wc_recv and in fdmi_post_recv_msg_param.
NoLostMatch ==
    \A p \in Proc : \A i \in DOMAIN aq[p], j \in DOMAIN pq[p] :
        ~ IsMatched(snd[aq[p][i].send], rcv[pq[p][j]])

Before(q, x, y) ==
    \E i, j \in DOMAIN q : i < j /\ q[i] = x /\ q[j] = y

Taken(s) == \E r \in Recv : got[r] = s

\* Messages between two processes do not overtake: a receive is matched with
\* a message only if every earlier one of that sender that it accepts has
\* been matched.  The code keeps msg->order = 0 and relies on the FIFO QP and
\* on both queues being searched from the head.
SendsNotOvertaken ==
    \A r \in Recv : got[r] # None =>
        LET m == snd[got[r]] IN
        \A s \in Send : (/\ Before(slog[m.src][m.dst], s, got[r])
                         /\ IsMatched(snd[s], rcv[r])) => Taken(s)

\* Nor do receives overtake each other: a message is given to the receive posted first among
\* those that accept it.
RecvsNotOvertaken ==
    \A r1, r2 \in Recv :
        (/\ got[r2] # None
         /\ \E p \in Proc : Before(rlog[p], r1, r2)
         /\ IsMatched(snd[got[r2]], rcv[r1])) => got[r1] # None

\* Nothing overtakes, on neither side.
NotOvertaken == SendsNotOvertaken /\ RecvsNotOvertaken

\* A completed receive holds what the application had in the send buffer when
\* it called isend, though the eager data leave the buffer only when the NIC
\* executes the SEND and rendezvous data only at the receiver's READ.
ReceivedDataIntact ==
    \A r \in Recv : flag[r] = 1 => got[r] # None /\ rbuf[r] = "orig"

\* A completed rendezvous send has been read by the receive it is matched with
\* (README, Test: "returns 1 if the send/recv operation identified by
\* `request` is complete").
SendDoneMeansRead ==
    \A s \in Send :
        (isend_pc[s] = "posted" /\ flag[s] = 1 /\ snd[s].opcode = "RDMA_READ")
            => \E r \in Recv : got[r] = s /\ rbuf[r] # "none"

\* A FIN always finds a request in send_req_q, also when it completes another
\* request than its own: fdmi_on_send_cq_wc_recv never dequeues NULL.
FinFindsRequest ==
    \A p \in Proc :
        Cardinality({i \in DOMAIN cq[p] : cq[p][i].op = "RECV" /\ cq[p][i].type = "FIN"})
            <= Len(send_req_q[p])

\* A send and a receive that accept each other do not both stay unmatched, unless
\* a connection is lost.
CompatibleGetMatched ==
    \A s \in Send, r \in Recv :
        (/\ isend_pc[s] = "posted" /\ rcv[r] # None
         /\ snd[s].dst = rcv[r].at /\ IsMatched(snd[s], rcv[r]))
            ~> (Taken(s) \/ got[r] # None \/ broken # {})

\* Once matched, the receive completes: fdmi_verbs_wait on it returns.
MatchedRecvCompletes ==
    \A r \in Recv : (got[r] # None) ~> (flag[r] = 1 \/ broken # {})

\* An eager send completes by itself, a rendezvous send once it is matched:
\* fdmi_verbs_wait on it returns.
SendCompletes ==
    \A s \in Send :
        (/\ isend_pc[s] = "posted"
         /\ snd[s].opcode = "EAGER" \/ Taken(s)) ~> (flag[s] = 1 \/ broken # {})

-----------------------------------------------------------------------------
IsLarge(m) == m.opcode = "RDMA_READ"

Transfer == INSTANCE MessageTransfer WITH
    Pair    <- Proc \X Proc,
    Accepts <- IsMatched,
    Large   <- IsLarge,
    message <- snd,
    params  <- rcv,
    order   <- [pd \in Proc \X Proc |-> slog[pd[1]][pd[2]]],
    taken   <- got,
    filled  <- {r \in Recv : rbuf[r] # "none"},
    done    <- {x \in Send \cup Recv : flag[x] = 1}

\* The protocol keeps the promises of MessageTransfer while a process has one send
\* outstanding: messages of a sender are taken in order, each by one receive, requests
\* complete when they may and stay complete, also when the connection is lost.
KeepsPromises == Transfer!Spec

=============================================================================
