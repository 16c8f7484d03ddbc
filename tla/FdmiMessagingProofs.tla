------------------------ MODULE FdmiMessagingProofs ------------------------
(***************************************************************************)
(* Proofs about FdmiMessaging for any number of processes, calls, tags and *)
(* communicators: type correctness, that a message and a receive that      *)
(* accept each other never both wait, and that the messages between two    *)
(* processes do not overtake each other, nor do the receives of a process. *)
(***************************************************************************)
EXTENDS FdmiMessaging, QueueLemmas

\* An isend call that has been made: its control message is written.
Started(s) == isend_pc[s] # "idle"

\* The poller holds queries exactly while it is inside a handler.
PollerOK ==
    \A p \in Proc :
        /\ poller[p].pc = "matched" =>
              poller[p].send \in Send /\ poller[p].recv \in Recv
        /\ poller[p].pc \in {"fin", "remove"} => poller[p].send \in Send
        /\ poller[p].send \in Send => Started(poller[p].send)

\* Whatever is queued, posted or completed belongs to a call that was made.
SendsKnown == \A s \in Send : Started(s) => snd[s] \in Message
AqKnown    == \A p \in Proc : \A i \in DOMAIN aq[p] : Started(aq[p][i].send)
PqKnown    == \A p \in Proc : \A i \in DOMAIN pq[p] : rcv[pq[p][i]] \in Receive
CqKnown    == \A p \in Proc : \A i \in DOMAIN cq[p] : Started(cq[p][i].send)
SqKnown    == \A p, d \in Proc : \A i \in DOMAIN sq[p][d] : Started(sq[p][d][i].send)
DoneKnown  == \A p, d \in Proc : \A i \in DOMAIN done[p][d] : Started(done[p][d][i].send)

Known == /\ SendsKnown /\ AqKnown /\ PqKnown /\ CqKnown /\ SqKnown /\ DoneKnown

TypeInv == TypeOK /\ PollerOK /\ Known

-----------------------------------------------------------------------------
(* Posting a work request *)

\* ibv_post_send keeps the work queues typed and made of known calls.
LEMMA PostedType ==
    ASSUME TypeInv, NEW p \in Proc, NEW d \in Proc, NEW wr \in Wr, Started(wr.send)
    PROVE  /\ Posted(p, d, wr) \in [Proc -> [Proc -> Seq(Wr)]]
           /\ \A x, y \in Proc : \A i \in DOMAIN Posted(p, d, wr)[x][y] :
                 Started(Posted(p, d, wr)[x][y][i].send)
<1>1. sq \in [Proc -> [Proc -> Seq(Wr)]] /\ SqKnown
      BY DEF TypeInv, TypeOK, Known
<1>2. CASE {p, d} \in broken
      BY <1>1, <1>2 DEF Posted, SqKnown
<1>3. CASE {p, d} \notin broken
  <2> DEFINE new == Append(sq[p][d], wr)
  <2>1. /\ new \in Seq(Wr)
        /\ \A j \in DOMAIN new : new[j] = wr \/ \E k \in DOMAIN sq[p][d] : new[j] = sq[p][d][k]
    <3>1. sq[p][d] \in Seq(Wr)
          BY <1>1
    <3> QED BY <3>1, AppendEntries
  <2>2. \A j \in DOMAIN new : Started(new[j].send)
        BY <1>1, <2>1 DEF SqKnown
  <2>3. Posted(p, d, wr) = [sq EXCEPT ![p][d] = new]
        BY <1>3 DEF Posted
  <2> HIDE DEF new
  <2> QED BY <1>1, <2>1, <2>2, <2>3, SMTT(60) DEF SqKnown
<1> QED BY <1>2, <1>3

\* The work requests the code posts are well formed.
LEMMA WrType ==
    ASSUME NEW s \in Send, NEW r \in Recv
    PROVE  /\ SendWr(s, "INIT") \in Wr /\ SendWr(s, "INIT").send = s
           /\ SendWr(s, "FIN") \in Wr /\ SendWr(s, "FIN").send = s
           /\ ReadWr(s, r) \in Wr /\ ReadWr(s, r).send = s
BY DEF SendWr, ReadWr, Wr

-----------------------------------------------------------------------------
(* The type invariant is inductive: one lemma per group of actions *)

\* The initial state satisfies the type invariant.
LEMMA InitTypeInv == Init => TypeInv
<1> SUFFICES ASSUME Init PROVE TypeInv
    OBVIOUS
<1>1. Polling \in Poller
      BY DEF Polling, Poller, Data
<1>2. TypeOK
      BY <1>1 DEF Init, TypeOK, Data
<1>3. PollerOK
      BY ProtocolAssumption DEF Init, PollerOK, Polling
<1>4. Known
      BY DEF Init, Known, SendsKnown, AqKnown, PqKnown, CqKnown, SqKnown,
             DoneKnown, Started
<1> QED BY <1>2, <1>3, <1>4 DEF TypeInv

\* The entries of every queue carry a send.
LEMMA EntryType ==
    ASSUME TypeOK
    PROVE  /\ \A p \in Proc : \A i \in DOMAIN aq[p] : aq[p][i] \in Arrived
           /\ \A p \in Proc : \A i \in DOMAIN cq[p] : cq[p][i] \in Wc
           /\ \A p, d \in Proc : \A i \in DOMAIN sq[p][d] : sq[p][d][i] \in Wr
           /\ \A p, d \in Proc : \A i \in DOMAIN done[p][d] : done[p][d][i] \in Wr
           /\ \A p \in Proc : \A i \in DOMAIN pq[p] : pq[p][i] \in Recv
<1>1. /\ \A p \in Proc : aq[p] \in Seq(Arrived) /\ cq[p] \in Seq(Wc) /\ pq[p] \in Seq(Recv)
      /\ \A p, d \in Proc : sq[p][d] \in Seq(Wr) /\ done[p][d] \in Seq(Wr)
      BY DEF TypeOK
<1> QED BY <1>1, LenProperties, ElementOfSeq

\* Calls that were made stay made.
SendsKept == \A s \in Send : Started(s) => Started(s)'

\* What a step leaves alone stays known.
LEMMA KnownKept ==
    ASSUME TypeInv, SendsKept
    PROVE  /\ UNCHANGED aq => AqKnown'
           /\ UNCHANGED cq => CqKnown'
           /\ UNCHANGED sq => SqKnown'
           /\ UNCHANGED done => DoneKnown'
           /\ UNCHANGED <<pq, rcv>> => PqKnown'
           /\ UNCHANGED <<snd, isend_pc>> => SendsKnown'
           /\ UNCHANGED poller => PollerOK'
<1> TypeOK /\ PollerOK /\ Known
    BY DEF TypeInv
<1>1. UNCHANGED aq => AqKnown'
      BY EntryType DEF SendsKept, Known, AqKnown, Arrived
<1>2. UNCHANGED cq => CqKnown'
      BY EntryType DEF SendsKept, Known, CqKnown, Wc
<1>3. UNCHANGED sq => SqKnown'
      BY EntryType DEF SendsKept, Known, SqKnown, Wr
<1>4. UNCHANGED done => DoneKnown'
      BY EntryType DEF SendsKept, Known, DoneKnown, Wr
<1>5. UNCHANGED <<pq, rcv>> => PqKnown'
      BY DEF Known, PqKnown
<1>6. UNCHANGED <<snd, isend_pc>> => SendsKnown'
      BY DEF Known, SendsKnown, Started
<1>7. UNCHANGED poller => PollerOK'
      BY DEF PollerOK, SendsKept
<1> QED BY <1>1, <1>2, <1>3, <1>4, <1>5, <1>6, <1>7

\* A step that posts one work request of a known call.
LEMMA PostKnown ==
    ASSUME TypeInv, SendsKept, NEW p \in Proc, NEW d \in Proc, NEW wr \in Wr,
           Started(wr.send), sq' = Posted(p, d, wr)
    PROVE  sq' \in [Proc -> [Proc -> Seq(Wr)]] /\ SqKnown'
<1>1. /\ sq' \in [Proc -> [Proc -> Seq(Wr)]]
      /\ \A x, y \in Proc : \A i \in DOMAIN sq'[x][y] : Started(sq'[x][y][i].send)
      BY PostedType
<1>2. \A x, y \in Proc : \A i \in DOMAIN sq'[x][y] : sq'[x][y][i].send \in Send
  <2>1. \A x, y \in Proc : \A i \in DOMAIN sq'[x][y] : sq'[x][y][i] \in Wr
        BY <1>1, LenProperties, ElementOfSeq, SMTT(60)
  <2> QED BY <2>1 DEF Wr
<1> QED BY <1>1, <1>2 DEF SqKnown, SendsKept

\* A completion of a known call enters the completion queue of p.
LEMMA CqAppended ==
    ASSUME TypeInv, SendsKept, NEW p \in Proc, NEW wc \in Wc, Started(wc.send),
           cq' = [cq EXCEPT ![p] = Append(@, wc)]
    PROVE  cq' \in [Proc -> Seq(Wc)] /\ CqKnown'
<1> TypeOK /\ CqKnown
    BY DEF TypeInv, Known
<1>1. /\ Append(cq[p], wc) \in Seq(Wc)
      /\ \A j \in DOMAIN Append(cq[p], wc) :
            \/ Append(cq[p], wc)[j] = wc
            \/ \E k \in DOMAIN cq[p] : Append(cq[p], wc)[j] = cq[p][k]
  <2>1. cq[p] \in Seq(Wc)
        BY DEF TypeOK
  <2> QED BY <2>1, AppendEntries
<1>2. cq' \in [Proc -> Seq(Wc)]
      BY <1>1 DEF TypeOK
<1>3. \A x \in Proc : \A j \in DOMAIN cq'[x] :
          cq'[x][j] = wc \/ \E k \in DOMAIN cq[x] : cq'[x][j] = cq[x][k]
      BY <1>1 DEF TypeOK
<1>4. \A x \in Proc : \A k \in DOMAIN cq[x] :
          cq[x][k].send \in Send /\ Started(cq[x][k].send)
      BY EntryType DEF CqKnown, Wc
<1>5. wc.send \in Send
      BY DEF Wc
<1>6. ASSUME NEW x \in Proc, NEW j \in DOMAIN cq'[x]
      PROVE  isend_pc'[cq'[x][j].send] # "idle"
  <2>1. CASE cq'[x][j] = wc
        BY <2>1, <1>5 DEF SendsKept, Started
  <2>2. CASE \E k \in DOMAIN cq[x] : cq'[x][j] = cq[x][k]
    <3>1. PICK k \in DOMAIN cq[x] : cq'[x][j] = cq[x][k]
          BY <2>2
    <3> QED BY <3>1, <1>4 DEF SendsKept, Started
  <2> QED BY <2>1, <2>2, <1>3
<1> QED BY <1>2, <1>6 DEF CqKnown, Started

\* The poller takes a completion: it belongs to a known call.
LEMMA CqPolled ==
    ASSUME TypeInv, SendsKept, NEW p \in Proc, NEW op, NEW type, Polled(p, op, type)
    PROVE  /\ Head(cq[p]) \in Wc /\ Started(Head(cq[p]).send)
           /\ cq' \in [Proc -> Seq(Wc)] /\ CqKnown'
<1> TypeOK /\ CqKnown
    BY DEF TypeInv, Known
<1>1. /\ Head(cq[p]) \in Wc /\ 1 \in DOMAIN cq[p] /\ Head(cq[p]) = cq[p][1]
      /\ Tail(cq[p]) \in Seq(Wc)
      /\ \A j \in DOMAIN Tail(cq[p]) : \E k \in DOMAIN cq[p] : Tail(cq[p])[j] = cq[p][k]
      BY TailEntries DEF TypeOK, Polled
<1>2. cq' = [cq EXCEPT ![p] = Tail(cq[p])]
      BY DEF Polled
<1>3. \A x \in Proc : \A j \in DOMAIN cq'[x] : \E k \in DOMAIN cq[x] : cq'[x][j] = cq[x][k]
  <2>1. \A x \in Proc : cq'[x] = IF x = p THEN Tail(cq[p]) ELSE cq[x]
        BY <1>2 DEF TypeOK
  <2> QED BY <1>1, <2>1, ZenonT(60)
<1>4. \A x \in Proc : \A k \in DOMAIN cq[x] :
          cq[x][k].send \in Send /\ Started(cq[x][k].send)
      BY EntryType DEF CqKnown, Wc
<1>5. CqKnown'
      BY <1>3, <1>4 DEF CqKnown, SendsKept, Started
<1>6. cq' \in [Proc -> Seq(Wc)]
      BY <1>1, <1>2 DEF TypeOK
<1> QED BY <1>1, <1>4, <1>5, <1>6

\* The hardware takes a work request from the head of a send queue ...
LEMMA SqTaken ==
    ASSUME TypeInv, SendsKept, NEW p \in Proc, NEW d \in Proc, sq[p][d] # <<>>,
           sq' = [sq EXCEPT ![p][d] = Tail(@)]
    PROVE  /\ Head(sq[p][d]) \in Wr /\ Started(Head(sq[p][d]).send)
           /\ sq' \in [Proc -> [Proc -> Seq(Wr)]] /\ SqKnown'
<1> TypeOK /\ SqKnown
    BY DEF TypeInv, Known
<1>1. sq \in [Proc -> [Proc -> Seq(Wr)]]
      BY DEF TypeOK
<1>2. /\ Head(sq[p][d]) \in Wr /\ 1 \in DOMAIN sq[p][d] /\ Head(sq[p][d]) = sq[p][d][1]
      /\ sq' \in [Proc -> [Proc -> Seq(Wr)]]
      /\ \A x, y \in Proc : \A j \in DOMAIN sq'[x][y] :
            \E k \in DOMAIN sq[x][y] : sq'[x][y][j] = sq[x][y][k]
      BY <1>1, PairTail, SMTT(60)
<1>5. \A x, y \in Proc : \A k \in DOMAIN sq[x][y] :
          sq[x][y][k].send \in Send /\ Started(sq[x][y][k].send)
      BY EntryType DEF SqKnown, Wr
<1>6. ASSUME NEW x \in Proc, NEW y \in Proc, NEW j \in DOMAIN sq'[x][y]
      PROVE  isend_pc'[sq'[x][y][j].send] # "idle"
  <2>1. PICK k \in DOMAIN sq[x][y] : sq'[x][y][j] = sq[x][y][k]
        BY <1>2
  <2> QED BY <2>1, <1>5 DEF SendsKept, Started
<1> QED BY <1>2, <1>5, <1>6 DEF SqKnown, Started

\* ... and puts it among the executed ones ...
LEMMA DoneAppended ==
    ASSUME TypeInv, SendsKept, NEW p \in Proc, NEW d \in Proc, NEW wr \in Wr,
           Started(wr.send), done' = [done EXCEPT ![p][d] = Append(@, wr)]
    PROVE  done' \in [Proc -> [Proc -> Seq(Wr)]] /\ DoneKnown'
<1> TypeOK /\ DoneKnown
    BY DEF TypeInv, Known
<1> DEFINE old == done[p][d]
           v == Append(old, wr)
<1>1. done \in [Proc -> [Proc -> Seq(Wr)]] /\ old \in Seq(Wr)
      BY DEF TypeOK
<1>2. done' = [done EXCEPT ![p][d] = v]
      OBVIOUS
<1>3. /\ v \in Seq(Wr)
      /\ \A j \in DOMAIN v : v[j] \in {wr} \/ \E k \in DOMAIN old : v[j] = old[k]
  <2> HIDE DEF old
  <2> QED BY <1>1, AppendEntries
<1> HIDE DEF v
<1>4. /\ done' \in [Proc -> [Proc -> Seq(Wr)]]
      /\ \A x, y \in Proc : \A j \in DOMAIN done'[x][y] :
            done'[x][y][j] \in {wr} \/ \E k \in DOMAIN done[x][y] : done'[x][y][j] = done[x][y][k]
      BY <1>1, <1>2, <1>3, PairUpdate, SMTT(60)
<1>5. \A x, y \in Proc : \A k \in DOMAIN done[x][y] :
          done[x][y][k].send \in Send /\ Started(done[x][y][k].send)
      BY EntryType DEF DoneKnown, Wr
<1>6. ASSUME NEW x \in Proc, NEW y \in Proc, NEW j \in DOMAIN done'[x][y]
      PROVE  isend_pc'[done'[x][y][j].send] # "idle"
  <2>1. CASE done'[x][y][j] = wr
        BY <2>1 DEF SendsKept, Started, Wr
  <2>2. CASE \E k \in DOMAIN done[x][y] : done'[x][y][j] = done[x][y][k]
        BY <2>2, <1>5 DEF SendsKept, Started
  <2> QED BY <2>1, <2>2, <1>4
<1> QED BY <1>4, <1>6 DEF DoneKnown, Started

\* ... from where its completion is reported.
LEMMA DoneTaken ==
    ASSUME TypeInv, SendsKept, NEW p \in Proc, NEW d \in Proc, done[p][d] # <<>>,
           done' = [done EXCEPT ![p][d] = Tail(@)]
    PROVE  /\ Head(done[p][d]) \in Wr /\ Started(Head(done[p][d]).send)
           /\ done' \in [Proc -> [Proc -> Seq(Wr)]] /\ DoneKnown'
<1> TypeOK /\ DoneKnown
    BY DEF TypeInv, Known
<1>1. done \in [Proc -> [Proc -> Seq(Wr)]]
      BY DEF TypeOK
<1>2. /\ Head(done[p][d]) \in Wr /\ 1 \in DOMAIN done[p][d] /\ Head(done[p][d]) = done[p][d][1]
      /\ done' \in [Proc -> [Proc -> Seq(Wr)]]
      /\ \A x, y \in Proc : \A j \in DOMAIN done'[x][y] :
            \E k \in DOMAIN done[x][y] : done'[x][y][j] = done[x][y][k]
      BY <1>1, PairTail, SMTT(60)
<1>5. \A x, y \in Proc : \A k \in DOMAIN done[x][y] :
          done[x][y][k].send \in Send /\ Started(done[x][y][k].send)
      BY EntryType DEF DoneKnown, Wr
<1>6. ASSUME NEW x \in Proc, NEW y \in Proc, NEW j \in DOMAIN done'[x][y]
      PROVE  isend_pc'[done'[x][y][j].send] # "idle"
  <2>1. PICK k \in DOMAIN done[x][y] : done'[x][y][j] = done[x][y][k]
        BY <1>2
  <2> QED BY <2>1, <1>5 DEF SendsKept, Started
<1> QED BY <1>2, <1>5, <1>6 DEF DoneKnown, Started

\* fdmi_verbs_isend writes the control message of the call and queues its
\* request.
LEMMA IsendEnqTypeInv ==
    ASSUME TypeInv, NEW p \in Proc, NEW s \in Send, IsendEnq(p, s)
    PROVE  TypeInv'
<1> TypeOK /\ PollerOK /\ Known
    BY DEF TypeInv
<1>1. PICK m \in Message : snd' = [snd EXCEPT ![s] = m]
      BY DEF IsendEnq, Message
<1>2. send_req_q' \in [Proc -> Seq(Send)]
      BY AppendEntries DEF IsendEnq, TypeOK
<1>3. TypeOK'
      BY <1>1, <1>2 DEF IsendEnq, TypeOK, nic, bufs, hist
<1>4. SendsKept
      BY DEF IsendEnq, TypeOK, Started, SendsKept
<1>5. SendsKnown'
      BY <1>1 DEF IsendEnq, TypeOK, Known, SendsKnown, Started
<1>6. Known' /\ PollerOK'
      BY <1>4, <1>5, KnownKept DEF IsendEnq, Known, nic
<1> QED BY <1>3, <1>6 DEF TypeInv

\* fdmi_verbs_isend posts the control message it has written.
LEMMA IsendPostTypeInv ==
    ASSUME TypeInv, NEW s \in Send, IsendPost(s)
    PROVE  TypeInv'
<1> TypeOK /\ PollerOK /\ Known
    BY DEF TypeInv
<1>1. Started(s) /\ snd[s] \in Message
      BY DEF IsendPost, Known, SendsKnown, Started
<1>2. SendsKept
      BY DEF IsendPost, TypeOK, Started, SendsKept
<1>3. sq' \in [Proc -> [Proc -> Seq(Wr)]] /\ SqKnown'
  <2>1. SendWr(s, "INIT") \in Wr /\ SendWr(s, "INIT").send = s
        BY DEF SendWr, Wr
  <2>2. snd[s].src \in Proc /\ snd[s].dst \in Proc
        BY <1>1 DEF Message
  <2> QED BY <1>1, <1>2, <2>1, <2>2, PostKnown DEF IsendPost
<1>4. slog' \in [Proc -> [Proc -> Seq(Send)]]
  <2>1. /\ snd[s].src \in Proc /\ snd[s].dst \in Proc
        /\ slog[snd[s].src][snd[s].dst] \in Seq(Send)
        BY <1>1 DEF TypeOK, Message
  <2>2. Append(slog[snd[s].src][snd[s].dst], s) \in Seq(Send)
        BY <2>1, AppendEntries
  <2> QED BY <2>1, <2>2 DEF IsendPost, TypeOK
<1>5. TypeOK'
      BY <1>3, <1>4 DEF IsendPost, TypeOK, bufs
<1>6. SendsKnown'
      BY DEF IsendPost, TypeOK, Known, SendsKnown, Started
<1>7. Known' /\ PollerOK'
      BY <1>2, <1>3, <1>6, KnownKept DEF IsendPost, Known
<1> QED BY <1>5, <1>7 DEF TypeInv

\* fdmi_verbs_irecv takes a message from aq or waits in pq.
LEMMA IrecvTypeInv ==
    ASSUME TypeInv, NEW p \in Proc, NEW r \in Recv, Irecv(p, r)
    PROVE  TypeInv'
<1> TypeOK /\ PollerOK /\ Known
    BY DEF TypeInv
<1>1. PICK q \in Receive :
        /\ rcv' = [rcv EXCEPT ![r] = q]
        /\ (\E i \in DOMAIN aq[p] : IrecvArrived(p, r, q, i)) \/ IrecvWaits(p, r, q)
      BY DEF Irecv, Receive
<1>2. SendsKept
      BY DEF Irecv, SendsKept, Started
<1>3. rlog' \in [Proc -> Seq(Recv)]
      BY AppendEntries DEF Irecv, TypeOK
<1>4. rcv' \in [Recv -> Receive \cup {None}]
      BY <1>1 DEF TypeOK
<1>5. ASSUME NEW i \in DOMAIN aq[p], IrecvArrived(p, r, q, i)
      PROVE  TypeInv'
  <2> DEFINE m == aq[p][i]
  <2>1. m \in Arrived /\ m.send \in Send /\ m.data \in Data /\ snd[m.send] \in Message
        BY EntryType DEF Arrived, Known, AqKnown, SendsKnown
  <2>2. /\ RemoveAt(aq[p], i) \in Seq(Arrived)
        /\ \A j \in DOMAIN RemoveAt(aq[p], i) :
              \E k \in DOMAIN aq[p] : RemoveAt(aq[p], i)[j] = aq[p][k]
    <3>1. aq[p] \in Seq(Arrived) /\ i \in 1 .. Len(aq[p])
          BY LenProperties DEF TypeOK
    <3> QED BY <3>1, RemoveAtEntries
  <2>3. aq' = [aq EXCEPT ![p] = RemoveAt(aq[p], i)]
        BY <1>5 DEF IrecvArrived
  <2>4. aq' \in [Proc -> Seq(Arrived)] /\ AqKnown'
    <3>1. aq' \in [Proc -> Seq(Arrived)]
          BY <2>2, <2>3 DEF TypeOK
    <3>2. ASSUME NEW x \in Proc, NEW j \in DOMAIN aq'[x]
          PROVE  \E k \in DOMAIN aq[x] : aq'[x][j] = aq[x][k]
          BY <2>2, <2>3 DEF TypeOK
    <3>3. ASSUME NEW x \in Proc, NEW j \in DOMAIN aq'[x]
          PROVE  isend_pc'[aq'[x][j].send] # "idle"
      <4>1. PICK k \in DOMAIN aq[x] : aq'[x][j] = aq[x][k]
            BY <3>2
      <4>2. aq[x][k].send \in Send /\ Started(aq[x][k].send)
            BY EntryType DEF Known, AqKnown, Arrived
      <4> QED BY <4>1, <4>2, <1>2 DEF SendsKept, Started
    <3> QED BY <3>1, <3>3 DEF AqKnown, Started
  <2>5. sq' \in [Proc -> [Proc -> Seq(Wr)]] /\ SqKnown'
    <3>1. CASE UNCHANGED sq
          BY <3>1, <1>2, KnownKept DEF TypeOK
    <3>2. CASE sq' = Posted(p, snd[m.send].src, ReadWr(m.send, r))
      <4>1. snd[m.send].src \in Proc /\ Started(m.send)
            BY <2>1 DEF Message, Known, AqKnown
      <4>2. ReadWr(m.send, r) \in Wr /\ ReadWr(m.send, r).send = m.send
            BY <2>1, WrType
      <4> QED BY <3>2, <4>1, <4>2, <1>2, PostKnown
    <3> QED BY <3>1, <3>2, <1>5 DEF IrecvArrived
  <2>6. got' \in [Recv -> Send \cup {None}]
        BY <2>1, <1>5 DEF IrecvArrived, TypeOK
  <2>7. rbuf' \in [Recv -> Data] /\ flag' \in [Send \cup Recv -> {0, 1}]
        BY <2>1, <1>5 DEF IrecvArrived, TypeOK
  <2>8. TypeOK'
        BY <1>3, <1>4, <1>5, <2>4, <2>5, <2>6, <2>7 DEF Irecv, IrecvArrived, TypeOK
  <2>9. PqKnown'
        BY <1>1, <1>5, EntryType DEF IrecvArrived, Known, PqKnown, TypeOK
  <2> QED BY <1>2, <2>4, <2>5, <2>8, <2>9, KnownKept
          DEF TypeInv, Known, Irecv
<1>6. ASSUME IrecvWaits(p, r, q)
      PROVE  TypeInv'
  <2>1. /\ Append(pq[p], r) \in Seq(Recv)
        /\ \A j \in DOMAIN Append(pq[p], r) :
              \/ Append(pq[p], r)[j] = r
              \/ \E k \in DOMAIN pq[p] : Append(pq[p], r)[j] = pq[p][k]
        BY AppendEntries, SMTT(60) DEF TypeOK
  <2>2. pq' = [pq EXCEPT ![p] = Append(pq[p], r)]
        BY <1>6 DEF IrecvWaits
  <2>3. TypeOK'
        BY <1>3, <1>4, <1>6, <2>1, <2>2 DEF Irecv, IrecvWaits, TypeOK
  <2>4. PqKnown'
    <3> SUFFICES ASSUME NEW x \in Proc, NEW j \in DOMAIN pq'[x]
                 PROVE  rcv'[pq'[x][j]] \in Receive
        BY DEF PqKnown
    <3>1. \/ pq'[x][j] = r
          \/ \E k \in DOMAIN pq[x] : pq'[x][j] = pq[x][k]
          BY <2>1, <2>2 DEF TypeOK
    <3>2. \A k \in DOMAIN pq[x] : pq[x][k] \in Recv /\ rcv[pq[x][k]] \in Receive
          BY EntryType DEF Known, PqKnown
    <3>3. \A y \in Recv : rcv'[y] = IF y = r THEN q ELSE rcv[y]
          BY <1>1 DEF TypeOK
    <3> QED BY <3>1, <3>2, <3>3
  <2> QED BY <1>2, <1>6, <2>3, <2>4, KnownKept
          DEF TypeInv, Known, Irecv, IrecvWaits
<1> QED BY <1>1, <1>5, <1>6

\* A SEND becomes a receive completion of the peer.
LEMMA NicSendTypeInv ==
    ASSUME TypeInv, NEW p \in Proc, NEW d \in Proc, NicSend(p, d)
    PROVE  TypeInv'
<1> TypeOK /\ PollerOK /\ Known
    BY DEF TypeInv
<1> DEFINE wr == Head(sq[p][d])
           eager == wr.type = "INIT" /\ snd[wr.send].opcode = "EAGER"
           wc == [op |-> "RECV", type |-> wr.type, send |-> wr.send, recv |-> None,
                  data |-> IF eager THEN sbuf[wr.send] ELSE "none"]
<1>1. SendsKept
      BY DEF NicSend, app, SendsKept, Started
<1>2. /\ wr \in Wr /\ Started(wr.send)
      /\ sq' \in [Proc -> [Proc -> Seq(Wr)]] /\ SqKnown'
      BY <1>1, SqTaken DEF NicSend
<1>3. done' \in [Proc -> [Proc -> Seq(Wr)]] /\ DoneKnown'
  <2>1. done' = [done EXCEPT ![p][d] = Append(@, wr)]
        BY DEF NicSend
  <2> HIDE DEF wr
  <2> QED BY <1>1, <1>2, <2>1, DoneAppended
<1>4. wc \in Wc /\ wc.send = wr.send
  <2>1. wr.send \in Send /\ wr.type \in {"INIT", "FIN"}
        BY <1>2 DEF Wr
  <2>2. sbuf[wr.send] \in Data
        BY <2>1 DEF TypeOK, Data
  <2> HIDE DEF wr
  <2> QED BY <2>1, <2>2 DEF Wc, Data
<1>5. cq' \in [Proc -> Seq(Wc)] /\ CqKnown'
  <2>1. cq' = [cq EXCEPT ![d] = Append(@, wc)]
        BY DEF NicSend
  <2> HIDE DEF wc
  <2> QED BY <1>1, <1>2, <1>4, <2>1, CqAppended
<1>6. TypeOK'
      BY <1>2, <1>3, <1>5 DEF NicSend, TypeOK, app, bufs, hist
<1> QED BY <1>1, <1>2, <1>3, <1>5, <1>6, KnownKept DEF TypeInv, Known, NicSend, app

\* An RDMA READ fills the receive buffer.
LEMMA NicReadTypeInv ==
    ASSUME TypeInv, NEW p \in Proc, NEW d \in Proc, NicRead(p, d)
    PROVE  TypeInv'
<1> TypeOK /\ PollerOK /\ Known
    BY DEF TypeInv
<1> DEFINE wr == Head(sq[p][d])
<1>1. SendsKept
      BY DEF NicRead, app, SendsKept, Started
<1>2. /\ wr \in Wr /\ Started(wr.send)
      /\ sq' \in [Proc -> [Proc -> Seq(Wr)]] /\ SqKnown'
      BY <1>1, SqTaken DEF NicRead
<1>3. done' \in [Proc -> [Proc -> Seq(Wr)]] /\ DoneKnown'
  <2>1. done' = [done EXCEPT ![p][d] = Append(@, wr)]
        BY DEF NicRead
  <2> HIDE DEF wr
  <2> QED BY <1>1, <1>2, <2>1, DoneAppended
<1>4. rbuf' \in [Recv -> Data]
  <2>1. wr.send \in Send
        BY <1>2 DEF Wr
  <2>2. sbuf[wr.send] \in Data
        BY <2>1, SMTT(60) DEF TypeOK, Data
  <2>3. rbuf' = [rbuf EXCEPT ![wr.recv] = sbuf[wr.send]]
        BY DEF NicRead
  <2> QED BY <2>2, <2>3 DEF TypeOK
<1>5. TypeOK'
      BY <1>2, <1>3, <1>4 DEF NicRead, TypeOK, app, hist
<1> QED BY <1>1, <1>2, <1>3, <1>5, KnownKept DEF TypeInv, Known, NicRead, app

\* An executed work request is reported to its completion queue.
LEMMA NicCompleteTypeInv ==
    ASSUME TypeInv, NEW p \in Proc, NEW d \in Proc, NicComplete(p, d)
    PROVE  TypeInv'
<1> TypeOK /\ PollerOK /\ Known
    BY DEF TypeInv
<1> DEFINE wr == Head(done[p][d])
           wc == [op |-> wr.op, type |-> wr.type, send |-> wr.send,
                  recv |-> wr.recv, data |-> "none"]
<1>1. SendsKept
      BY DEF NicComplete, app, SendsKept, Started
<1>2. /\ wr \in Wr /\ Started(wr.send)
      /\ done' \in [Proc -> [Proc -> Seq(Wr)]] /\ DoneKnown'
      BY <1>1, DoneTaken DEF NicComplete
<1>3. wc \in Wc /\ wc.send = wr.send
  <2> HIDE DEF wr
  <2> QED BY <1>2 DEF Wc, Wr, Data
<1>4. cq' \in [Proc -> Seq(Wc)] /\ CqKnown'
  <2>1. cq' = [cq EXCEPT ![p] = Append(@, wc)]
        BY DEF NicComplete
  <2> HIDE DEF wc
  <2> QED BY <1>1, <1>2, <1>3, <2>1, CqAppended
<1>5. TypeOK'
      BY <1>2, <1>4 DEF NicComplete, TypeOK, app, bufs, hist
<1> QED BY <1>1, <1>2, <1>4, <1>5, KnownKept DEF TypeInv, Known, NicComplete, app

\* Steps that touch no queue.
LEMMA QuietTypeInv ==
    ASSUME TypeInv, \/ \E s \in Send : ReuseSendBuffer(s)
                    \/ \E p, d \in Proc : Disconnected(p, d)
    PROVE  TypeInv'
<1> TypeOK /\ PollerOK /\ Known
    BY DEF TypeInv
<1>1. UNCHANGED <<app, aq, pq, poller, nic, rbuf, hist>>
      BY DEF ReuseSendBuffer, Disconnected, bufs
<1>2. /\ sbuf' \in [Send -> {"orig", "reused"}]
      /\ fdmi_state' \in [Proc -> {"COMPUTE", "FAILURE"}]
      BY DEF TypeOK, ReuseSendBuffer, Disconnected, bufs
<1>3. TypeOK'
      BY <1>1, <1>2 DEF TypeOK, app, nic, hist
<1>4. SendsKept
      BY <1>1 DEF app, SendsKept, Started
<1> QED BY <1>1, <1>3, <1>4, KnownKept DEF TypeInv, Known, app, nic

\* Break: what is left of the work queues is part of what was there.
LEMMA BreakTypeInv ==
    ASSUME TypeInv, NEW p \in Proc, NEW d \in Proc, Break(p, d)
    PROVE  TypeInv'
<1> TypeOK /\ PollerOK /\ Known
    BY DEF TypeInv
<1>1. SendsKept
      BY DEF Break, app, SendsKept, Started
<1>2. p # d
      BY DEF Break
<1>3. sq' \in [Proc -> [Proc -> Seq(Wr)]] /\ SqKnown'
  <2>1. sq \in [Proc -> [Proc -> Seq(Wr)]] /\ sq' = [sq EXCEPT ![p][d] = <<>>, ![d][p] = <<>>]
        BY DEF Break, TypeOK
  <2>2. \A x, y \in Proc : sq'[x][y] = <<>> \/ sq'[x][y] = sq[x][y]
        BY <1>2, <2>1
  <2>3. /\ sq' \in [Proc -> [Proc -> Seq(Wr)]]
        /\ \A x, y \in Proc : \A j \in DOMAIN sq'[x][y] :
              \E k \in DOMAIN sq[x][y] : sq'[x][y][j] = sq[x][y][k]
    <3>1. sq' \in [Proc -> [Proc -> Seq(Wr)]]
      <4>1. PICK h : h = [sq EXCEPT ![p][d] = <<>>]
            OBVIOUS
      <4>2. h \in [Proc -> [Proc -> Seq(Wr)]] /\ sq' = [h EXCEPT ![d][p] = <<>>]
            BY <2>1, <4>1
      <4>3. <<>> \in Seq(Wr)
            OBVIOUS
      <4> QED BY <4>2, <4>3
    <3>2. DOMAIN <<>> = {}
          OBVIOUS
    <3> QED BY <2>2, <3>1, <3>2
  <2>4. \A x, y \in Proc : \A k \in DOMAIN sq[x][y] :
            sq[x][y][k].send \in Send /\ Started(sq[x][y][k].send)
        BY EntryType DEF Known, SqKnown, Wr
  <2>5. ASSUME NEW x \in Proc, NEW y \in Proc, NEW j \in DOMAIN sq'[x][y]
        PROVE  isend_pc'[sq'[x][y][j].send] # "idle"
    <3>1. PICK k \in DOMAIN sq[x][y] : sq'[x][y][j] = sq[x][y][k]
          BY <2>3
    <3> QED BY <1>1, <2>4, <3>1 DEF SendsKept, Started
  <2> QED BY <2>3, <2>5 DEF SqKnown, Started
<1>4. done' \in [Proc -> [Proc -> Seq(Wr)]] /\ DoneKnown'
  <2>1. PICK m \in 0 .. Len(done[p][d]), n \in 0 .. Len(done[d][p]) :
            done' = [done EXCEPT ![p][d] = SubSeq(done[p][d], 1, m),
                                 ![d][p] = SubSeq(done[d][p], 1, n)]
        BY <1>2 DEF Break, TypeOK
  <2> DEFINE v == SubSeq(done[p][d], 1, m)
             w == SubSeq(done[d][p], 1, n)
  <2>2. done \in [Proc -> [Proc -> Seq(Wr)]]
        BY DEF TypeOK
  <2>3. /\ v \in Seq(Wr)
        /\ \A j \in DOMAIN v : \E k \in DOMAIN done[p][d] : v[j] = done[p][d][k]
    <3>1. done[p][d] \in Seq(Wr) /\ 1 \in 1 .. Len(done[p][d]) + 1
          BY <2>2, LenProperties
    <3> QED BY <3>1, SubSeqEntries
  <2>4. /\ w \in Seq(Wr)
        /\ \A j \in DOMAIN w : \E k \in DOMAIN done[d][p] : w[j] = done[d][p][k]
    <3>1. done[d][p] \in Seq(Wr) /\ 1 \in 1 .. Len(done[d][p]) + 1
          BY <2>2, LenProperties
    <3> QED BY <3>1, SubSeqEntries
  <2>5. done' = [done EXCEPT ![p][d] = v, ![d][p] = w]
        BY <2>1
  <2> HIDE DEF v, w
  <2>6. /\ done' \in [Proc -> [Proc -> Seq(Wr)]]
        /\ \A x, y \in Proc : \A j \in DOMAIN done'[x][y] :
              \E k \in DOMAIN done[x][y] : done'[x][y][j] = done[x][y][k]
    <3>1. PICK h : h = [done EXCEPT ![p][d] = v]
          OBVIOUS
    <3>2. h \in [Proc -> [Proc -> Seq(Wr)]] /\ done' = [h EXCEPT ![d][p] = w]
          BY <2>2, <2>3, <2>5, <3>1
    <3>3. done' \in [Proc -> [Proc -> Seq(Wr)]]
          BY <3>2, <2>4
    <3>4. \A x, y \in Proc : done'[x][y] = IF x = p /\ y = d THEN v
                                ELSE IF x = d /\ y = p THEN w ELSE done[x][y]
          BY <1>2, <2>2, <3>1, <3>2, SMTT(60)
    <3>5. ASSUME NEW x \in Proc, NEW y \in Proc, NEW j \in DOMAIN done'[x][y]
          PROVE  \E k \in DOMAIN done[x][y] : done'[x][y][j] = done[x][y][k]
      <4>1. CASE x = p /\ y = d
        <5>1. done'[x][y] = v
              BY <3>4, <4>1
        <5> QED BY <2>3, <4>1, <5>1, Zenon
      <4>2. CASE x = d /\ y = p
        <5>1. done'[x][y] = w
              BY <1>2, <3>4, <4>2
        <5> QED BY <2>4, <4>2, <5>1, Zenon
      <4>3. CASE ~ (x = p /\ y = d) /\ ~ (x = d /\ y = p)
        <5>1. done'[x][y] = done[x][y]
              BY <3>4, <4>3
        <5> QED BY <5>1, Zenon
      <4> QED BY <4>1, <4>2, <4>3
    <3> QED BY <3>3, <3>5
  <2>7. \A x, y \in Proc : \A k \in DOMAIN done[x][y] :
            done[x][y][k].send \in Send /\ Started(done[x][y][k].send)
        BY EntryType DEF Known, DoneKnown, Wr
  <2>8. ASSUME NEW x \in Proc, NEW y \in Proc, NEW j \in DOMAIN done'[x][y]
        PROVE  isend_pc'[done'[x][y][j].send] # "idle"
    <3>1. PICK k \in DOMAIN done[x][y] : done'[x][y][j] = done[x][y][k]
          BY <2>6
    <3> QED BY <1>1, <2>7, <3>1 DEF SendsKept, Started
  <2> QED BY <2>6, <2>8 DEF DoneKnown, Started
<1>5. broken' \subseteq SUBSET Proc
      BY ZenonT(60) DEF Break, TypeOK
<1>6. TypeOK'
      BY <1>3, <1>4, <1>5 DEF Break, TypeOK, app, bufs, hist
<1> QED BY <1>1, <1>3, <1>4, <1>6, KnownKept DEF TypeInv, Known, Break, app

\* fdmi_on_recv_cq_wc_recv: the message is discarded, matched or queued.
LEMMA PollInitTypeInv ==
    ASSUME TypeInv, NEW p \in Proc, PollInit(p)
    PROVE  TypeInv'
<1> TypeOK /\ PollerOK /\ Known
    BY DEF TypeInv
<1> DEFINE m == Head(cq[p])
<1>1. SendsKept
      BY DEF PollInit, app, SendsKept, Started
<1>2. /\ m \in Wc /\ Started(m.send)
      /\ cq' \in [Proc -> Seq(Wc)] /\ CqKnown'
      BY <1>1, CqPolled DEF PollInit
<1>3. m.send \in Send /\ m.data \in Data
      BY <1>2 DEF Wc
<1>4. /\ UNCHANGED <<app, fdmi_state, sq, done, broken, bufs, slog, rlog>>
      /\ \/ UNCHANGED <<aq, pq, poller, got>>
         \/ \E i \in DOMAIN pq[p] :
              /\ poller' = [poller EXCEPT ![p] =
                    [pc |-> "matched", send |-> m.send, data |-> m.data,
                     recv |-> pq[p][i]]]
              /\ got' = [got EXCEPT ![pq[p][i]] = m.send]
              /\ pq' = [pq EXCEPT ![p] = RemoveAt(@, i)]
              /\ UNCHANGED aq
         \/ /\ aq' = [aq EXCEPT ![p] = Append(@, [send |-> m.send, data |-> m.data])]
            /\ UNCHANGED <<poller, got, pq>>
      BY DEF PollInit
<1> HIDE DEF m
<1>5. CASE UNCHANGED <<aq, pq, poller, got>>
  <2>1. TypeOK'
        BY <1>2, <1>4, <1>5 DEF TypeOK, app, bufs
  <2> QED BY <1>1, <1>2, <1>4, <1>5, <2>1, KnownKept DEF TypeInv, Known, app
<1>6. ASSUME NEW i \in DOMAIN pq[p],
             poller' = [poller EXCEPT ![p] =
                    [pc |-> "matched", send |-> m.send, data |-> m.data,
                     recv |-> pq[p][i]]],
             got' = [got EXCEPT ![pq[p][i]] = m.send],
             pq' = [pq EXCEPT ![p] = RemoveAt(@, i)],
             UNCHANGED aq
      PROVE  TypeInv'
  <2> DEFINE new == RemoveAt(pq[p], i)
  <2>1. pq[p][i] \in Recv
        BY EntryType
  <2>2. /\ new \in Seq(Recv)
        /\ \A j \in DOMAIN new : \E k \in DOMAIN pq[p] : new[j] = pq[p][k]
    <3>1. pq[p] \in Seq(Recv) /\ i \in 1 .. Len(pq[p])
          BY LenProperties DEF TypeOK
    <3> QED BY <3>1, RemoveAtEntries
  <2>3. pq' = [pq EXCEPT ![p] = new]
        BY <1>6
  <2> HIDE DEF new
  <2>4. pq' \in [Proc -> Seq(Recv)]
        BY <2>2, <2>3 DEF TypeOK
  <2>5. PqKnown'
    <3> SUFFICES ASSUME NEW x \in Proc, NEW j \in DOMAIN pq'[x]
                 PROVE  rcv'[pq'[x][j]] \in Receive
        BY DEF PqKnown
    <3>1. PICK k \in DOMAIN pq[x] : pq'[x][j] = pq[x][k]
      <4>1. pq'[x] = IF x = p THEN new ELSE pq[x]
            BY <2>3 DEF TypeOK
      <4> QED BY <4>1, <2>2
    <3> QED BY <3>1, <1>4 DEF Known, PqKnown, app
  <2>6. poller' \in [Proc -> Poller] /\ PollerOK'
    <3> DEFINE e == [pc |-> "matched", send |-> m.send, data |-> m.data, recv |-> pq[p][i]]
    <3>1. e \in Poller /\ e.pc = "matched" /\ e.send = m.send /\ e.recv \in Recv
          BY <1>3, <2>1 DEF Poller
    <3>2. poller' = [poller EXCEPT ![p] = e]
          BY <1>6
    <3> HIDE DEF e
    <3>3. isend_pc' = isend_pc
          BY <1>4 DEF app
    <3> QED BY <1>2, <1>3, <3>1, <3>2, <3>3 DEF TypeOK, PollerOK, Started
  <2>7. got' \in [Recv -> Send \cup {None}]
        BY <1>3, <1>6, <2>1 DEF TypeOK
  <2>8. TypeOK'
        BY <1>2, <1>4, <1>6, <2>4, <2>6, <2>7 DEF TypeOK, app, bufs
  <2> QED BY <1>1, <1>2, <1>4, <1>6, <2>5, <2>6, <2>8, KnownKept DEF TypeInv, Known, app
<1>7. ASSUME aq' = [aq EXCEPT ![p] = Append(@, [send |-> m.send, data |-> m.data])],
             UNCHANGED <<poller, got, pq>>
      PROVE  TypeInv'
  <2> DEFINE e == [send |-> m.send, data |-> m.data]
             new == Append(aq[p], e)
  <2>1. e \in Arrived /\ e.send = m.send
        BY <1>3 DEF Arrived
  <2>2. aq' = [aq EXCEPT ![p] = new]
        BY <1>7
  <2> HIDE DEF e
  <2>3. /\ new \in Seq(Arrived)
        /\ \A j \in DOMAIN new : new[j] = e \/ \E k \in DOMAIN aq[p] : new[j] = aq[p][k]
    <3>1. aq[p] \in Seq(Arrived)
          BY DEF TypeOK
    <3> QED BY <2>1, <3>1, AppendEntries
  <2> HIDE DEF new
  <2>4. aq' \in [Proc -> Seq(Arrived)]
        BY <2>2, <2>3 DEF TypeOK
  <2>5. ASSUME NEW x \in Proc, NEW j \in DOMAIN aq'[x]
        PROVE  isend_pc'[aq'[x][j].send] # "idle"
    <3>1. aq'[x][j] = e \/ \E k \in DOMAIN aq[x] : aq'[x][j] = aq[x][k]
      <4>1. aq'[x] = IF x = p THEN new ELSE aq[x]
            BY <2>2 DEF TypeOK
      <4> QED BY <4>1, <2>3
    <3>2. \A k \in DOMAIN aq[x] : Started(aq[x][k].send)
          BY DEF Known, AqKnown
    <3>3. isend_pc' = isend_pc
          BY <1>4 DEF app
    <3> QED BY <1>2, <2>1, <3>1, <3>2, <3>3 DEF Started
  <2>6. TypeOK'
        BY <1>2, <1>4, <1>7, <2>4 DEF TypeOK, app, bufs
  <2> QED BY <1>1, <1>2, <1>4, <1>7, <2>5, <2>6, KnownKept
          DEF TypeInv, Known, AqKnown, Started, app
<1> QED BY <1>4, <1>5, <1>6, <1>7

\* The poller leaves a handler.
LEMMA BackToPolling ==
    ASSUME TypeInv, SendsKept, NEW p \in Proc, poller' = [poller EXCEPT ![p] = Polling]
    PROVE  poller' \in [Proc -> Poller] /\ PollerOK'
<1> TypeOK /\ PollerOK
    BY DEF TypeInv
<1>1. Polling \in Poller /\ Polling.pc = "poll" /\ Polling.send \notin Send
      BY ProtocolAssumption DEF Polling, Poller, Data
<1> HIDE DEF Polling
<1> QED BY <1>1 DEF TypeOK, PollerOK, SendsKept

\* The end of fdmi_on_recv_cq_wc_recv: an eager message completes its receive,
\* a rendezvous posts the READ.
LEMMA DeliverTypeInv ==
    ASSUME TypeInv, NEW p \in Proc, Deliver(p)
    PROVE  TypeInv'
<1> TypeOK /\ PollerOK /\ Known
    BY DEF TypeInv
<1> DEFINE s == poller[p].send
           r == poller[p].recv
<1>1. SendsKept
      BY DEF Deliver, SendsKept, Started
<1>2. s \in Send /\ r \in Recv /\ Started(s) /\ snd[s] \in Message
      BY DEF Deliver, PollerOK, Known, SendsKnown
<1>3. poller[p].data \in Data
      BY DEF TypeOK, Poller
<1>4. rbuf' \in [Recv -> Data] /\ flag' \in [Send \cup Recv -> {0, 1}]
      BY <1>3 DEF Deliver, TypeOK
<1>5. sq' \in [Proc -> [Proc -> Seq(Wr)]] /\ SqKnown'
  <2>1. CASE UNCHANGED sq
        BY <2>1, <1>1, KnownKept DEF TypeOK
  <2>2. CASE sq' = Posted(p, snd[s].src, ReadWr(s, r))
    <3>1. snd[s].src \in Proc
          BY <1>2 DEF Message
    <3>2. ReadWr(s, r) \in Wr /\ ReadWr(s, r).send = s
          BY <1>2, WrType
    <3> QED BY <2>2, <3>1, <3>2, <1>1, <1>2, PostKnown
  <2> QED BY <2>1, <2>2 DEF Deliver
<1>6. poller' \in [Proc -> Poller] /\ PollerOK'
      BY <1>1, BackToPolling DEF Deliver
<1>7. TypeOK'
      BY <1>4, <1>5, <1>6 DEF Deliver, TypeOK, hist
<1> QED BY <1>1, <1>5, <1>6, <1>7, KnownKept DEF TypeInv, Known, Deliver

\* fdmi_on_recv_cq_wc_rdma_read, fdmi_on_send_cq_wc_send: the poller completes
\* a request and goes on with a further step of the handler, or stays put.
LEMMA HandlerEntered ==
    ASSUME TypeInv, SendsKept, NEW p \in Proc, NEW s \in Send, Started(s),
           NEW pc \in {"fin", "remove"},
           poller' = [poller EXCEPT ![p] = [Polling EXCEPT !.pc = pc, !.send = s]]
    PROVE  poller' \in [Proc -> Poller] /\ PollerOK'
<1> TypeOK /\ PollerOK
    BY DEF TypeInv
<1> DEFINE e == [Polling EXCEPT !.pc = pc, !.send = s]
<1>1. e \in Poller /\ e.pc = pc /\ e.send = s
      BY DEF Polling, Poller, Data
<1>2. poller' = [poller EXCEPT ![p] = e]
      OBVIOUS
<1> HIDE DEF e
<1>3. \A x \in Proc : poller'[x] = IF x = p THEN e ELSE poller[x]
      BY <1>2 DEF TypeOK
<1>4. poller' \in [Proc -> Poller]
      BY <1>1, <1>2 DEF TypeOK
<1>5. PollerOK'
      BY <1>1, <1>3 DEF PollerOK, SendsKept
<1> QED BY <1>4, <1>5

\* fdmi_on_recv_cq_wc_rdma_read: the receive is complete.
LEMMA PollReadTypeInv ==
    ASSUME TypeInv, NEW p \in Proc, PollRead(p)
    PROVE  TypeInv'
<1> TypeOK /\ PollerOK /\ Known
    BY DEF TypeInv
<1> DEFINE wr == Head(cq[p])
<1>1. SendsKept
      BY DEF PollRead, SendsKept, Started
<1>2. /\ wr \in Wc /\ Started(wr.send)
      /\ cq' \in [Proc -> Seq(Wc)] /\ CqKnown'
      BY <1>1, CqPolled DEF PollRead
<1>3. wr.send \in Send
      BY <1>2 DEF Wc
<1>4. poller' \in [Proc -> Poller] /\ PollerOK'
  <2>1. poller' = [poller EXCEPT ![p] = [Polling EXCEPT !.pc = "fin", !.send = wr.send]]
        BY DEF PollRead
  <2> HIDE DEF wr
  <2> QED BY <1>1, <1>2, <1>3, <2>1, HandlerEntered
<1>5. flag' \in [Send \cup Recv -> {0, 1}]
      BY DEF PollRead, TypeOK
<1>6. TypeOK'
      BY <1>2, <1>4, <1>5 DEF PollRead, TypeOK, bufs, hist
<1> QED BY <1>1, <1>2, <1>4, <1>6, KnownKept DEF TypeInv, Known, PollRead

\* The FIN of a known send is posted.
LEMMA SendFinTypeInv ==
    ASSUME TypeInv, NEW p \in Proc, SendFin(p)
    PROVE  TypeInv'
<1> TypeOK /\ PollerOK /\ Known
    BY DEF TypeInv
<1> DEFINE s == poller[p].send
<1>1. SendsKept
      BY DEF SendFin, app, SendsKept, Started
<1>2. s \in Send /\ Started(s) /\ snd[s] \in Message
      BY DEF SendFin, PollerOK, Known, SendsKnown
<1>3. sq' \in [Proc -> [Proc -> Seq(Wr)]] /\ SqKnown'
  <2>1. snd[s].src \in Proc
        BY <1>2 DEF Message
  <2>2. SendWr(s, "FIN") \in Wr /\ SendWr(s, "FIN").send = s
        BY <1>2 DEF SendWr, Wr
  <2> QED BY <2>1, <2>2, <1>1, <1>2, PostKnown DEF SendFin
<1>4. poller' \in [Proc -> Poller] /\ PollerOK'
      BY <1>1, BackToPolling DEF SendFin
<1>5. TypeOK'
      BY <1>3, <1>4 DEF SendFin, TypeOK, app, bufs, hist
<1> QED BY <1>1, <1>3, <1>4, <1>5, KnownKept DEF TypeInv, Known, SendFin, app

\* fdmi_on_send_cq_wc_send: an eager send is complete.
LEMMA PollSentTypeInv ==
    ASSUME TypeInv, NEW p \in Proc, PollSent(p)
    PROVE  TypeInv'
<1> TypeOK /\ PollerOK /\ Known
    BY DEF TypeInv
<1> DEFINE s == Head(cq[p]).send
<1>1. SendsKept
      BY DEF PollSent, SendsKept, Started
<1>2. /\ s \in Send /\ Started(s)
      /\ cq' \in [Proc -> Seq(Wc)] /\ CqKnown'
      BY <1>1, CqPolled DEF PollSent, Wc
<1>3. poller' \in [Proc -> Poller] /\ PollerOK'
  <2>1. CASE UNCHANGED poller
        BY <1>1, <2>1, KnownKept DEF TypeOK
  <2>2. CASE poller' = [poller EXCEPT ![p] = [Polling EXCEPT !.pc = "remove", !.send = s]]
    <3> HIDE DEF s
    <3> QED BY <1>1, <1>2, <2>2, HandlerEntered
  <2> QED BY <2>1, <2>2 DEF PollSent
<1>4. flag' \in [Send \cup Recv -> {0, 1}]
      BY DEF PollSent, TypeOK
<1>5. TypeOK'
      BY <1>2, <1>3, <1>4 DEF PollSent, TypeOK, bufs, hist
<1> QED BY <1>1, <1>2, <1>3, <1>5, KnownKept DEF TypeInv, Known, PollSent

\* fdmi_on_recv_cq_wc_send: a FIN has been sent.
LEMMA PollFinSentTypeInv ==
    ASSUME TypeInv, NEW p \in Proc, PollFinSent(p)
    PROVE  TypeInv'
<1> TypeOK /\ PollerOK /\ Known
    BY DEF TypeInv
<1>1. SendsKept
      BY DEF PollFinSent, app, SendsKept, Started
<1>2. cq' \in [Proc -> Seq(Wc)] /\ CqKnown'
      BY <1>1, CqPolled DEF PollFinSent
<1>3. TypeOK'
      BY <1>2 DEF PollFinSent, TypeOK, app, bufs, hist
<1> QED BY <1>1, <1>2, <1>3, KnownKept DEF TypeInv, Known, PollFinSent, app

\* The request of a completed send leaves send_req_q.
LEMMA RemoveSendReqTypeInv ==
    ASSUME TypeInv, NEW p \in Proc, RemoveSendReq(p)
    PROVE  TypeInv'
<1> TypeOK /\ PollerOK /\ Known
    BY DEF TypeInv
<1>1. SendsKept
      BY DEF RemoveSendReq, SendsKept, Started
<1>2. send_req_q' \in [Proc -> Seq(Send)]
  <2>1. RemoveFirst(send_req_q[p], poller[p].send) \in Seq(Send)
        BY RemoveFirstType DEF TypeOK
  <2> QED BY <2>1 DEF RemoveSendReq, TypeOK
<1>3. poller' \in [Proc -> Poller] /\ PollerOK'
      BY <1>1, BackToPolling DEF RemoveSendReq
<1>4. TypeOK'
      BY <1>2, <1>3 DEF RemoveSendReq, TypeOK, nic, bufs, hist
<1> QED BY <1>1, <1>3, <1>4, KnownKept DEF TypeInv, Known, RemoveSendReq, nic

\* fdmi_on_send_cq_wc_recv: the request at the head of send_req_q is complete.
LEMMA PollFinTypeInv ==
    ASSUME TypeInv, NEW p \in Proc, PollFin(p)
    PROVE  TypeInv'
<1> TypeOK /\ PollerOK /\ Known
    BY DEF TypeInv
<1>1. SendsKept
      BY DEF PollFin, SendsKept, Started
<1>2. cq' \in [Proc -> Seq(Wc)] /\ CqKnown'
      BY <1>1, CqPolled DEF PollFin
<1>3. flag' \in [Send \cup Recv -> {0, 1}]
      BY DEF PollFin, TypeOK
<1>4. send_req_q' \in [Proc -> Seq(Send)]
  <2>1. PICK n \in {0, 1} :
           send_req_q' = [send_req_q EXCEPT ![p] = SubSeq(@, n + 1, Len(@))]
        BY DEF PollFin
  <2> DEFINE q == send_req_q[p]
             rest == SubSeq(q, n + 1, Len(q))
  <2>2. q \in Seq(Send) /\ Len(q) \in Nat
        BY LenProperties DEF TypeOK
  <2>3. rest \in Seq(Send)
    <3> HIDE DEF q
    <3>1. \A i \in n + 1 .. Len(q) : q[i] \in Send
          BY <2>2, ElementOfSeq
    <3> QED BY <2>2, <3>1, SubSeqProperties
  <2>4. send_req_q' = [send_req_q EXCEPT ![p] = rest]
        BY <2>1
  <2> HIDE DEF rest
  <2> QED BY <2>3, <2>4 DEF TypeOK
<1>5. TypeOK'
      BY <1>2, <1>3, <1>4 DEF PollFin, TypeOK, bufs, hist
<1> QED BY <1>1, <1>2, <1>5, KnownKept DEF TypeInv, Known, PollFin

\* Every step keeps the type invariant.
LEMMA NextTypeInv == TypeInv /\ [Next]_vars => TypeInv'
<1> SUFFICES ASSUME TypeInv, [Next]_vars PROVE TypeInv'
    OBVIOUS
<1>1. CASE UNCHANGED vars
  <2>1. UNCHANGED <<app, aq, pq, poller, fdmi_state, nic, bufs, hist>>
        BY <1>1 DEF vars
  <2>2. SendsKept
        BY <2>1 DEF app, SendsKept, Started
  <2>3. TypeOK'
        BY <2>1 DEF TypeInv, TypeOK, app, nic, bufs, hist
  <2> QED BY <2>1, <2>2, <2>3, KnownKept DEF TypeInv, Known, app, nic
<1>2. CASE \E p \in Proc : PollerStep(p)
      BY <1>2, PollInitTypeInv, DeliverTypeInv, PollReadTypeInv, SendFinTypeInv,
         PollSentTypeInv, PollFinSentTypeInv, RemoveSendReqTypeInv, PollFinTypeInv
         DEF PollerStep
<1>3. CASE \E p, d \in Proc : \/ NicStep(p, d) \/ NicComplete(p, d)
                              \/ Break(p, d) \/ Disconnected(p, d)
      BY <1>3, NicSendTypeInv, NicReadTypeInv, NicCompleteTypeInv, BreakTypeInv,
         QuietTypeInv DEF NicStep
<1>4. CASE \/ \E p \in Proc, s \in Send : IsendEnq(p, s)
           \/ \E s \in Send : IsendPost(s) \/ ReuseSendBuffer(s)
           \/ \E p \in Proc, r \in Recv : Irecv(p, r)
      BY <1>4, IsendEnqTypeInv, IsendPostTypeInv, QuietTypeInv, IrecvTypeInv
<1> QED BY <1>1, <1>2, <1>3, <1>4 DEF Next

\* The type invariant holds throughout.
LEMMA TypeInvHolds == Spec => []TypeInv
BY InitTypeInv, NextTypeInv, PTL DEF Spec

\* Every variable keeps its type in every behaviour of the protocol, for any
\* number of processes and calls, with connections that break and with sends
\* of one process overlapping.
THEOREM TypeCorrect == Spec => []TypeOK
<1>1. TypeInv => TypeOK
      BY DEF TypeInv
<1> QED BY <1>1, TypeInvHolds, PTL

-----------------------------------------------------------------------------
(* Messages and receives that accept each other never both wait *)

\* The parameters of a call that was made do not change.
CallsKept ==
    /\ \A s \in Send : Started(s) => snd'[s] = snd[s]
    /\ \A r \in Recv : rcv[r] \in Receive => rcv'[r] = rcv[r]

\* No step rewrites the control message of a send or the parameters of a
\* receive that is under way: only the call itself writes them.
LEMMA NextCallsKept ==
    ASSUME TypeInv, [Next]_vars
    PROVE  CallsKept
<1> TypeOK
    BY DEF TypeInv
<1>1. CASE UNCHANGED <<snd, rcv>>
      BY <1>1 DEF CallsKept
<1>2. ASSUME NEW p \in Proc, NEW s \in Send, IsendEnq(p, s)
      PROVE  CallsKept
  <2>1. isend_pc[s] = "idle" /\ UNCHANGED rcv /\ \E m : snd' = [snd EXCEPT ![s] = m]
        BY <1>2 DEF IsendEnq
  <2> QED BY <2>1 DEF CallsKept, TypeOK, Started
<1>3. ASSUME NEW p \in Proc, NEW r \in Recv, Irecv(p, r)
      PROVE  CallsKept
  <2>1. rcv[r] = None /\ UNCHANGED snd /\ \E q : rcv' = [rcv EXCEPT ![r] = q]
        BY <1>3 DEF Irecv
  <2> QED BY <2>1, NoneAssumption DEF CallsKept, TypeOK
<1>4. CASE \E p \in Proc : PollerStep(p)
      BY <1>1, <1>4 DEF PollerStep, PollInit, Deliver, PollRead, SendFin, PollSent,
         PollFinSent, RemoveSendReq, PollFin, app
<1>5. CASE \E p, d \in Proc : \/ NicStep(p, d) \/ NicComplete(p, d)
                              \/ Break(p, d) \/ Disconnected(p, d)
  <2> DEFINE same == UNCHANGED <<snd, rcv>>
  <2>1. ASSUME NEW p \in Proc, NEW d \in Proc, NicSend(p, d) \/ NicRead(p, d) PROVE same
        BY <2>1 DEF NicSend, NicRead, app
  <2>2. ASSUME NEW p \in Proc, NEW d \in Proc, NicComplete(p, d) \/ Disconnected(p, d) PROVE same
        BY <2>2 DEF NicComplete, Disconnected, app
  <2>3. ASSUME NEW p \in Proc, NEW d \in Proc, Break(p, d) PROVE same
        BY <2>3 DEF Break, app
  <2> HIDE DEF same
  <2>4. same
        BY <1>5, <2>1, <2>2, <2>3 DEF NicStep
  <2> QED BY <1>1, <2>4 DEF same
<1>6. CASE \E s \in Send : IsendPost(s) \/ ReuseSendBuffer(s)
      BY <1>1, <1>6 DEF IsendPost, ReuseSendBuffer, app
<1>7. CASE UNCHANGED vars
      BY <1>1, <1>7 DEF vars, app
<1> QED BY <1>2, <1>3, <1>4, <1>5, <1>6, <1>7 DEF Next

\* Whatever waits belongs to a call whose parameters do not change.
LEMMA WaitingKept ==
    ASSUME TypeInv, CallsKept, NEW p \in Proc
    PROVE  /\ \A i \in DOMAIN aq[p] : snd'[aq[p][i].send] = snd[aq[p][i].send]
           /\ \A j \in DOMAIN pq[p] : rcv'[pq[p][j]] = rcv[pq[p][j]]
<1> TypeOK /\ Known
    BY DEF TypeInv
<1>1. \A i \in DOMAIN aq[p] : aq[p][i].send \in Send /\ Started(aq[p][i].send)
      BY EntryType DEF Known, AqKnown, Arrived
<1>2. \A j \in DOMAIN pq[p] : pq[p][j] \in Recv /\ rcv[pq[p][j]] \in Receive
      BY EntryType DEF Known, PqKnown
<1> QED BY <1>1, <1>2 DEF CallsKept

\* A step after which aq and pq hold only what they held before loses no match.
LEMMA ShrinkKeepsMatch ==
    ASSUME TypeInv, NoLostMatch, CallsKept,
           \A p \in Proc : \A i \in DOMAIN aq'[p] : \E k \in DOMAIN aq[p] : aq'[p][i] = aq[p][k],
           \A p \in Proc : \A j \in DOMAIN pq'[p] : \E k \in DOMAIN pq[p] : pq'[p][j] = pq[p][k]
    PROVE  NoLostMatch'
<1> SUFFICES ASSUME NEW p \in Proc, NEW i \in DOMAIN aq'[p], NEW j \in DOMAIN pq'[p]
             PROVE  ~ IsMatched(snd'[aq'[p][i].send], rcv'[pq'[p][j]])
    BY DEF NoLostMatch, IsMatched
<1>1. PICK k \in DOMAIN aq[p] : aq'[p][i] = aq[p][k]
      OBVIOUS
<1>2. PICK l \in DOMAIN pq[p] : pq'[p][j] = pq[p][l]
      OBVIOUS
<1>3. ~ IsMatched(snd[aq[p][k].send], rcv[pq[p][l]])
      BY DEF NoLostMatch
<1> QED BY <1>1, <1>2, <1>3, WaitingKept

\* irecv queues a receive only when nothing in aq matches it, and otherwise
\* takes a message away.
LEMMA IrecvKeepsMatch ==
    ASSUME TypeInv, NoLostMatch, CallsKept, NEW p \in Proc, NEW r \in Recv, Irecv(p, r)
    PROVE  NoLostMatch'
<1> TypeOK
    BY DEF TypeInv
<1>1. PICK q \in Receive :
        /\ rcv' = [rcv EXCEPT ![r] = q]
        /\ (\E i \in DOMAIN aq[p] : IrecvArrived(p, r, q, i)) \/ IrecvWaits(p, r, q)
      BY DEF Irecv, Receive
<1>2. ASSUME NEW i \in DOMAIN aq[p], IrecvArrived(p, r, q, i)
      PROVE  NoLostMatch'
  <2>1. \A j \in DOMAIN RemoveAt(aq[p], i) :
            \E k \in DOMAIN aq[p] : RemoveAt(aq[p], i)[j] = aq[p][k]
    <3>1. aq[p] \in Seq(Arrived) /\ i \in 1 .. Len(aq[p])
          BY LenProperties DEF TypeOK
    <3> QED BY <3>1, RemoveAtEntries
  <2>2. ASSUME NEW x \in Proc, NEW j \in DOMAIN aq'[x]
        PROVE  \E k \in DOMAIN aq[x] : aq'[x][j] = aq[x][k]
        BY <1>2, <2>1 DEF IrecvArrived, TypeOK
  <2>3. UNCHANGED pq
        BY <1>2 DEF IrecvArrived
  <2> QED BY <2>2, <2>3, ShrinkKeepsMatch
<1>3. ASSUME IrecvWaits(p, r, q)
      PROVE  NoLostMatch'
  <2>1. UNCHANGED <<aq, snd>>
        BY <1>3 DEF IrecvWaits, Irecv
  <2>2. pq' = [pq EXCEPT ![p] = Append(pq[p], r)]
        BY <1>3 DEF IrecvWaits
  <2>3. \A j \in DOMAIN Append(pq[p], r) :
              \/ Append(pq[p], r)[j] = r
              \/ \E k \in DOMAIN pq[p] : Append(pq[p], r)[j] = pq[p][k]
    <3>1. pq[p] \in Seq(Recv)
          BY DEF TypeOK
    <3> QED BY <3>1, AppendEntries
  <2> SUFFICES ASSUME NEW x \in Proc, NEW i \in DOMAIN aq'[x], NEW j \in DOMAIN pq'[x]
               PROVE  ~ IsMatched(snd'[aq'[x][i].send], rcv'[pq'[x][j]])
      BY DEF NoLostMatch, IsMatched
  <2>4. (x = p /\ pq'[x][j] = r) \/ \E k \in DOMAIN pq[x] : pq'[x][j] = pq[x][k]
        BY <2>2, <2>3 DEF TypeOK
  <2>5. CASE x = p /\ pq'[x][j] = r
    <3>1. rcv'[r] = q
          BY <1>1 DEF TypeOK
    <3>2. ~ IsMatched(snd[aq[p][i].send], q)
          BY <1>3, <2>1, <2>5 DEF IrecvWaits
    <3> QED BY <2>1, <2>5, <3>1, <3>2
  <2>6. ASSUME NEW k \in DOMAIN pq[x], pq'[x][j] = pq[x][k]
        PROVE  ~ IsMatched(snd'[aq'[x][i].send], rcv'[pq'[x][j]])
    <3>1. ~ IsMatched(snd[aq[x][i].send], rcv[pq[x][k]])
          BY <2>1 DEF NoLostMatch
    <3> QED BY <2>1, <2>6, <3>1, WaitingKept
  <2> QED BY <2>4, <2>5, <2>6
<1> QED BY <1>1, <1>2, <1>3

\* The poller queues a message only when no waiting receive matches it, and
\* otherwise takes the receive away.
LEMMA PollInitKeepsMatch ==
    ASSUME TypeInv, NoLostMatch, CallsKept, NEW p \in Proc, PollInit(p)
    PROVE  NoLostMatch'
<1> TypeOK
    BY DEF TypeInv
<1> DEFINE m == Head(cq[p])
<1>1. \/ UNCHANGED <<aq, pq>>
      \/ \E i \in DOMAIN pq[p] : pq' = [pq EXCEPT ![p] = RemoveAt(pq[p], i)] /\ UNCHANGED aq
      \/ /\ \A i \in DOMAIN pq[p] : ~ IsMatched(snd[m.send], rcv[pq[p][i]])
         /\ aq' = [aq EXCEPT ![p] = Append(aq[p], [send |-> m.send, data |-> m.data])]
         /\ UNCHANGED pq
      BY DEF PollInit
<1>2. UNCHANGED <<snd, rcv>>
      BY DEF PollInit, app
<1>3. m.send \in Send /\ m.data \in Data
  <2>1. cq[p] \in Seq(Wc) /\ cq[p] # <<>>
        BY DEF PollInit, Polled, TypeOK
  <2>2. m \in Wc
        BY <2>1, TailEntries
  <2> HIDE DEF m
  <2> QED BY <2>2 DEF Wc
<1> HIDE DEF m
<1>4. CASE UNCHANGED <<aq, pq>>
      BY <1>4, ShrinkKeepsMatch
<1>5. ASSUME NEW i \in DOMAIN pq[p], pq' = [pq EXCEPT ![p] = RemoveAt(pq[p], i)], UNCHANGED aq
      PROVE  NoLostMatch'
  <2>1. \A j \in DOMAIN RemoveAt(pq[p], i) :
            \E k \in DOMAIN pq[p] : RemoveAt(pq[p], i)[j] = pq[p][k]
    <3>1. pq[p] \in Seq(Recv) /\ i \in 1 .. Len(pq[p])
          BY LenProperties DEF TypeOK
    <3> QED BY <3>1, RemoveAtEntries
  <2>2. ASSUME NEW x \in Proc, NEW j \in DOMAIN pq'[x]
        PROVE  \E k \in DOMAIN pq[x] : pq'[x][j] = pq[x][k]
        BY <1>5, <2>1 DEF TypeOK
  <2> QED BY <1>5, <2>2, ShrinkKeepsMatch
<1>6. ASSUME \A i \in DOMAIN pq[p] : ~ IsMatched(snd[m.send], rcv[pq[p][i]]),
             aq' = [aq EXCEPT ![p] = Append(aq[p], [send |-> m.send, data |-> m.data])],
             UNCHANGED pq
      PROVE  NoLostMatch'
  <2> DEFINE e == [send |-> m.send, data |-> m.data]
             new == Append(aq[p], e)
  <2>1. e \in Arrived /\ e.send = m.send
        BY <1>3 DEF Arrived
  <2>2. aq' = [aq EXCEPT ![p] = new]
        BY <1>6
  <2> HIDE DEF e
  <2>3. \A j \in DOMAIN new : new[j] = e \/ \E k \in DOMAIN aq[p] : new[j] = aq[p][k]
        BY <2>1, AppendEntries DEF TypeOK
  <2> HIDE DEF new
  <2> SUFFICES ASSUME NEW x \in Proc, NEW i \in DOMAIN aq'[x], NEW j \in DOMAIN pq'[x]
               PROVE  ~ IsMatched(snd'[aq'[x][i].send], rcv'[pq'[x][j]])
      BY DEF NoLostMatch, IsMatched
  <2>4. (x = p /\ aq'[x][i] = e) \/ \E k \in DOMAIN aq[x] : aq'[x][i] = aq[x][k]
    <3>1. aq'[x] = IF x = p THEN new ELSE aq[x]
          BY <2>2 DEF TypeOK
    <3> QED BY <2>3, <3>1
  <2>5. CASE x = p /\ aq'[x][i] = e
        BY <1>2, <1>6, <2>1, <2>5
  <2>6. ASSUME NEW k \in DOMAIN aq[x], aq'[x][i] = aq[x][k]
        PROVE  ~ IsMatched(snd'[aq'[x][i].send], rcv'[pq'[x][j]])
    <3>1. ~ IsMatched(snd[aq[x][k].send], rcv[pq[x][j]])
          BY <1>6 DEF NoLostMatch
    <3> QED BY <1>2, <1>6, <2>6, <3>1
  <2> QED BY <2>4, <2>5, <2>6
<1> QED BY <1>1, <1>4, <1>5, <1>6

\* With the type invariant, NoLostMatch is inductive.
LEMMA NextNoLostMatch == TypeInv /\ NoLostMatch /\ [Next]_vars => NoLostMatch'
<1> SUFFICES ASSUME TypeInv, NoLostMatch, [Next]_vars PROVE NoLostMatch'
    OBVIOUS
<1>1. CallsKept
      BY NextCallsKept
<1>2. CASE UNCHANGED <<aq, pq>>
      BY <1>1, <1>2, ShrinkKeepsMatch
<1>3. CASE \E p \in Proc : PollInit(p)
      BY <1>1, <1>3, PollInitKeepsMatch
<1>4. CASE \E p \in Proc, r \in Recv : Irecv(p, r)
      BY <1>1, <1>4, IrecvKeepsMatch
<1>5. CASE \E p \in Proc : PollerStep(p) /\ ~ PollInit(p)
      BY <1>2, <1>5 DEF PollerStep, Deliver, PollRead, SendFin, PollSent,
         PollFinSent, RemoveSendReq, PollFin
<1>6. CASE \E p, d \in Proc : \/ NicStep(p, d) \/ NicComplete(p, d)
                              \/ Break(p, d) \/ Disconnected(p, d)
  <2> DEFINE same == UNCHANGED <<aq, pq>>
  <2>1. ASSUME NEW p \in Proc, NEW d \in Proc, NicSend(p, d) \/ NicRead(p, d) PROVE same
        BY <2>1 DEF NicSend, NicRead
  <2>2. ASSUME NEW p \in Proc, NEW d \in Proc, NicComplete(p, d) \/ Disconnected(p, d) PROVE same
        BY <2>2 DEF NicComplete, Disconnected
  <2>3. ASSUME NEW p \in Proc, NEW d \in Proc, Break(p, d) PROVE same
        BY <2>3 DEF Break
  <2> HIDE DEF same
  <2>4. same
        BY <1>6, <2>1, <2>2, <2>3 DEF NicStep
  <2> QED BY <1>2, <2>4 DEF same
<1>7. CASE \/ \E p \in Proc, s \in Send : IsendEnq(p, s)
           \/ \E s \in Send : IsendPost(s) \/ ReuseSendBuffer(s)
      BY <1>2, <1>7 DEF IsendEnq, IsendPost, ReuseSendBuffer
<1>8. CASE UNCHANGED vars
      BY <1>2, <1>8 DEF vars
<1> QED BY <1>3, <1>4, <1>5, <1>6, <1>7, <1>8 DEF Next

\* A message and a receive that accept each other never both wait in the
\* queues of a process, however many processes, calls and wildcards there are
\* and whichever thread comes first.
THEOREM NoMatchIsLost == Spec => []NoLostMatch
<1>1. Init => NoLostMatch
      BY DEF Init, NoLostMatch
<1> QED BY <1>1, TypeInvHolds, NextNoLostMatch, PTL DEF Spec

-----------------------------------------------------------------------------
(* Order: the messages between two processes do not overtake each other, nor  *)
(* do the receives of a process.                                             *)

\* The entries of a queue that carry a control message INIT.
InitWr == {x \in Wr : x.op = "SEND" /\ x.type = "INIT"}
InitWc == {x \in Wc : x.op = "RECV" /\ x.type = "INIT"}

\* The sends whose message is in queue q, and their order there.
Has(q, I)            == {s \in Send : \E i \in DOMAIN q : q[i] \in I /\ q[i].send = s}
Precedes(q, I, s, t) == \E i, j \in DOMAIN q : /\ i < j /\ q[i] \in I /\ q[j] \in I
                                               /\ q[i].send = s /\ q[j].send = t

\* A message goes from the work queue of its pair to the completion queue of the
\* receiver, and on to aq or into a receive.
Logged(p, d)  == Range(slog[p][d])
Leaving(p, d) == Has(sq[p][d], InitWr)
Waiting(d)    == Has(cq[d], InitWc)
Queued(d)     == Has(aq[d], Arrived)
Came(d)       == Queued(d) \cup {s \in Send : Taken(s)}

\* The log of a pair: each of its sends once.
LogInv ==
    \A p, d \in Proc :
        /\ IsInjective(slog[p][d])
        /\ \A s \in Logged(p, d) : isend_pc[s] = "posted" /\ snd[s].src = p /\ snd[s].dst = d

\* Messages are in the queues of their receiver.
RouteInv ==
    /\ \A d \in Proc : \A s \in Waiting(d) \cup Queued(d) : \E p \in Proc : s \in Logged(p, d)
    /\ \A p, d \in Proc : Leaving(p, d) \subseteq Logged(p, d)
    /\ \A r \in Recv : got[r] # None =>
          rcv[r] \in Receive /\ \E p, d \in Proc : rcv[r].at = d /\ got[r] \in Logged(p, d)

\* The stages of the way, and every queue on it, are in the order of the log.
Ahead(p, d, s, t) ==
    \/ s \in Came(d) /\ t \in Waiting(d) \cup Leaving(p, d)
    \/ s \in Waiting(d) /\ t \in Leaving(p, d)
    \/ Precedes(aq[d], Arrived, s, t)
    \/ Precedes(cq[d], InitWc, s, t)
    \/ Precedes(sq[p][d], InitWr, s, t)

AheadInv ==
    \A p, d \in Proc : \A s, t \in Logged(p, d) : Ahead(p, d, s, t) => Before(slog[p][d], s, t)

\* What is lost when a connection breaks is the end of the log.
PrefixInv ==
    \A p, d \in Proc : \A s, t \in Logged(p, d) : Before(slog[p][d], s, t) =>
        /\ t \in Came(d) => s \in Came(d)
        /\ t \in Waiting(d) => s \in Came(d) \cup Waiting(d)

LiveInv ==
    \A p, d \in Proc :
        /\ {p, d} \notin broken => Logged(p, d) \subseteq Came(d) \cup Waiting(d) \cup Leaving(p, d)
        /\ {p, d} \in broken => sq[p][d] = <<>>

WayInv       == LogInv /\ RouteInv /\ AheadInv /\ PrefixInv /\ LiveInv
SendOrderInv == WayInv /\ SendsNotOvertaken

\* The receives of a process that wait are in the order of the calls.
RecvOrderInv ==
    /\ \A r \in Recv : rcv[r] = None => got[r] = None
    /\ \A p \in Proc :
          /\ IsInjective(rlog[p])
          /\ \A r \in Range(rlog[p]) : rcv[r] \in Receive /\ rcv[r].at = p
          /\ \A r \in Range(pq[p]) : r \in Range(rlog[p]) /\ got[r] = None
          /\ \A r \in Range(rlog[p]) : got[r] = None => r \in Range(pq[p])
          /\ \A x, y \in Recv : Before(pq[p], x, y) => Before(rlog[p], x, y)

OrderInv == SendOrderInv /\ RecvOrderInv /\ RecvsNotOvertaken

-----------------------------------------------------------------------------
(* Order in queues *)

\* A message that is put at the end comes after those that are there.
LEMMA AppendOrder ==
    ASSUME NEW S, NEW q \in Seq(S), NEW x \in S, NEW I
    PROVE  /\ Has(Append(q, x), I) = Has(q, I) \cup {s \in Send : x \in I /\ x.send = s}
           /\ \A s, t : Precedes(Append(q, x), I, s, t) =>
                 Precedes(q, I, s, t) \/ (x \in I /\ x.send = t /\ (s \in Send => s \in Has(q, I)))
<1>1. PICK a : a = Append(q, x)
      OBVIOUS
<1>2. /\ Len(q) \in Nat /\ DOMAIN q = 1 .. Len(q) /\ DOMAIN a = 1 .. Len(q) + 1
      /\ a[Len(q) + 1] = x /\ \A j \in 1 .. Len(q) : a[j] = q[j]
      BY <1>1
<1>3. ASSUME NEW s \in Send
      PROVE  s \in Has(a, I) <=> s \in Has(q, I) \cup {u \in Send : x \in I /\ x.send = u}
  <2>1. ASSUME NEW i \in DOMAIN a, a[i] \in I, a[i].send = s
        PROVE  s \in Has(q, I) \/ (x \in I /\ x.send = s)
    <3>1. CASE i = Len(q) + 1
          BY <1>2, <2>1, <3>1
    <3>2. CASE i \in DOMAIN q
          BY <1>2, <2>1, <3>2 DEF Has
    <3> QED BY <1>2, <3>1, <3>2
  <2>2. ASSUME NEW i \in DOMAIN q, q[i] \in I, q[i].send = s PROVE s \in Has(a, I)
    <3>1. i \in DOMAIN a /\ a[i] = q[i]
          BY <1>2
    <3> QED BY <2>2, <3>1 DEF Has
  <2>3. ASSUME x \in I, x.send = s PROVE s \in Has(a, I)
    <3>1. Len(q) + 1 \in DOMAIN a
          BY <1>2
    <3> QED BY <1>2, <2>3, <3>1 DEF Has
  <2> QED BY <2>1, <2>2, <2>3 DEF Has
<1>4. ASSUME NEW s, NEW t, Precedes(a, I, s, t)
      PROVE  Precedes(q, I, s, t) \/ (x \in I /\ x.send = t /\ (s \in Send => s \in Has(q, I)))
  <2>1. PICK i, j \in DOMAIN a : i < j /\ a[i] \in I /\ a[j] \in I /\ a[i].send = s /\ a[j].send = t
        BY <1>4 DEF Precedes
  <2>2. i \in DOMAIN q /\ a[i] = q[i]
        BY <1>2, <2>1
  <2>3. CASE j = Len(q) + 1
        BY <1>2, <2>1, <2>2, <2>3 DEF Has
  <2>4. CASE j \in DOMAIN q
    <3>1. a[j] = q[j]
          BY <1>2, <2>4
    <3> QED BY <2>1, <2>2, <2>4, <3>1 DEF Precedes
  <2> QED BY <1>2, <2>3, <2>4
<1> HIDE DEF Has
<1>5. Has(a, I) \subseteq Send /\ Has(q, I) \subseteq Send
      BY DEF Has
<1>6. Has(a, I) = Has(q, I) \cup {s \in Send : x \in I /\ x.send = s}
      BY <1>3, <1>5
<1> QED BY <1>1, <1>4, <1>6

\* A queue without some of its entries has the others in their order.
LEMMA PartOrder ==
    ASSUME NEW q, NEW a, NEW I, NEW D \in SUBSET Nat, NEW E \in SUBSET Nat, D = DOMAIN q,
           E = DOMAIN a, NEW f \in [E -> D], \A j \in E : a[j] = q[f[j]],
           \A i, j \in E : i < j => f[i] < f[j]
    PROVE  /\ Has(a, I) \subseteq Has(q, I)
           /\ \A s, t : Precedes(a, I, s, t) => Precedes(q, I, s, t)
<1>1. ASSUME NEW s \in Has(a, I) PROVE s \in Has(q, I)
      BY DEF Has
<1>2. ASSUME NEW s, NEW t, Precedes(a, I, s, t) PROVE Precedes(q, I, s, t)
  <2>1. PICK i, j \in E : i < j /\ a[i] \in I /\ a[j] \in I /\ a[i].send = s /\ a[j].send = t
        BY <1>2 DEF Precedes
  <2>2. f[i] \in D /\ f[j] \in D /\ f[i] < f[j] /\ a[i] = q[f[i]] /\ a[j] = q[f[j]]
        BY <2>1
  <2> QED BY <2>1, <2>2 DEF Precedes
<1> QED BY <1>1, <1>2

\* The message at the head comes before the others.
LEMMA TailOrder ==
    ASSUME NEW S, NEW q \in Seq(S), q # <<>>, NEW I, NEW x, x = Head(q)
    PROVE  /\ Has(q, I) = Has(Tail(q), I) \cup {s \in Send : x \in I /\ x.send = s}
           /\ \A s, t : Precedes(Tail(q), I, s, t) => Precedes(q, I, s, t)
           /\ x \in I => \A t \in Has(Tail(q), I) : Precedes(q, I, x.send, t)
<1>1. PICK a : a = Tail(q)
      OBVIOUS
<1>2. /\ Len(q) \in Nat /\ Len(q) > 0 /\ DOMAIN q = 1 .. Len(q)
      /\ a \in Seq(S) /\ Len(a) = Len(q) - 1 /\ x = q[1]
      /\ \A j \in 1 .. Len(q) - 1 : a[j] = q[j + 1]
      BY <1>1, HeadTailProperties, LenProperties, TailEntries
<1>3. DOMAIN a = 1 .. Len(q) - 1
      BY <1>2, LenProperties
<1>4. PICK f : f = [j \in DOMAIN a |-> j + 1]
      OBVIOUS
<1>5. f \in [DOMAIN a -> DOMAIN q] /\ \A j \in DOMAIN a : a[j] = q[f[j]]
      BY <1>2, <1>3, <1>4
<1>6. \A i, j \in DOMAIN a : i < j => f[i] < f[j]
      BY <1>3, <1>4, <1>2
<1>7. DOMAIN a \subseteq Nat /\ DOMAIN q \subseteq Nat
      BY <1>2, <1>3
<1>8. Has(a, I) \subseteq Has(q, I) /\ \A s, t : Precedes(a, I, s, t) => Precedes(q, I, s, t)
      BY <1>5, <1>6, <1>7, PartOrder
<1>9. ASSUME NEW s \in Has(q, I) PROVE s \in Has(a, I) \/ (x \in I /\ x.send = s)
  <2>1. PICK i \in DOMAIN q : q[i] \in I /\ q[i].send = s
        BY <1>9 DEF Has
  <2>2. CASE i = 1
        BY <1>2, <2>1, <2>2
  <2>3. CASE i # 1
    <3>1. i - 1 \in DOMAIN a /\ a[i - 1] = q[i]
          BY <1>2, <1>3, <2>3
    <3> QED BY <2>1, <3>1 DEF Has
  <2> QED BY <2>2, <2>3
<1>10. ASSUME x \in I, NEW s \in Send, x.send = s PROVE s \in Has(q, I)
  <2>1. 1 \in DOMAIN q
        BY <1>2
  <2> QED BY <1>2, <1>10, <2>1 DEF Has
<1>11. ASSUME x \in I, NEW t \in Has(a, I) PROVE Precedes(q, I, x.send, t)
  <2>1. PICK j \in DOMAIN a : a[j] \in I /\ a[j].send = t
        BY <1>11 DEF Has
  <2>2. 1 \in DOMAIN q /\ j + 1 \in DOMAIN q /\ 1 < j + 1 /\ q[j + 1] = a[j]
        BY <1>2, <1>3, <2>1
  <2> QED BY <1>2, <1>11, <2>1, <2>2 DEF Precedes
<1> HIDE DEF Has
<1>12. Has(q, I) \subseteq Send
      BY DEF Has
<1>13. Has(q, I) = Has(a, I) \cup {s \in Send : x \in I /\ x.send = s}
      BY <1>8, <1>9, <1>10, <1>12
<1> QED BY <1>1, <1>8, <1>11, <1>13

\* Removing the entry at i keeps the others and their order.
LEMMA RemoveOrder ==
    ASSUME NEW S, NEW q \in Seq(S), NEW i \in DOMAIN q, NEW I, q[i] \in I, NEW u, u = q[i].send
    PROVE  /\ Has(RemoveAt(q, i), I) \subseteq Has(q, I)
           /\ \A s \in Has(q, I) : s \in Has(RemoveAt(q, i), I) \/ s = u
           /\ \A s, t : Precedes(RemoveAt(q, i), I, s, t) => Precedes(q, I, s, t)
<1>1. PICK a : a = RemoveAt(q, i)
      OBVIOUS
<1>2. Len(q) \in Nat /\ DOMAIN q = 1 .. Len(q) /\ i \in 1 .. Len(q)
      BY LenProperties
<1>3. /\ a \in Seq(S) /\ Len(a) = Len(q) - 1
      /\ \A j \in 1 .. Len(q) - 1 : a[j] = IF j < i THEN q[j] ELSE q[j + 1]
      BY <1>1, <1>2, RemoveAtPoints
<1>4. DOMAIN a = 1 .. Len(q) - 1
      BY <1>3, LenProperties
<1>5. PICK f : f = [j \in DOMAIN a |-> IF j < i THEN j ELSE j + 1]
      OBVIOUS
<1>6. f \in [DOMAIN a -> DOMAIN q] /\ \A j \in DOMAIN a : a[j] = q[f[j]]
      BY <1>2, <1>3, <1>4, <1>5
<1>7. \A k, j \in DOMAIN a : k < j => f[k] < f[j]
      BY <1>2, <1>4, <1>5
<1>8. DOMAIN a \subseteq Nat /\ DOMAIN q \subseteq Nat
      BY <1>2, <1>4
<1>9. Has(a, I) \subseteq Has(q, I) /\ \A s, t : Precedes(a, I, s, t) => Precedes(q, I, s, t)
      BY <1>6, <1>7, <1>8, PartOrder
<1>10. ASSUME NEW s \in Has(q, I) PROVE s \in Has(a, I) \/ s = u
  <2>1. PICK j \in DOMAIN q : q[j] \in I /\ q[j].send = s
        BY <1>10 DEF Has
  <2>2. CASE j = i
        BY <2>1, <2>2
  <2>3. CASE j < i
    <3>1. j \in DOMAIN a /\ a[j] = q[j]
          BY <1>2, <1>3, <1>4, <2>3
    <3> QED BY <1>10, <2>1, <3>1 DEF Has
  <2>4. CASE j > i
    <3>1. j - 1 \in DOMAIN a /\ a[j - 1] = q[j]
          BY <1>2, <1>3, <1>4, <2>4
    <3> QED BY <1>10, <2>1, <3>1 DEF Has
  <2> QED BY <1>2, <2>2, <2>3, <2>4
<1> QED BY <1>1, <1>9, <1>10

\* A log without repetitions orders its entries.
LEMMA BeforeStrict ==
    ASSUME NEW S, NEW q \in Seq(S), IsInjective(q), NEW x, NEW y, Before(q, x, y)
    PROVE  ~ Before(q, y, x) /\ x # y
<1>1. PICK i, j \in DOMAIN q : i < j /\ q[i] = x /\ q[j] = y
      BY DEF Before
<1>2. DOMAIN q \subseteq Nat
      BY LenProperties
<1>3. \A k, l \in DOMAIN q : q[k] = q[l] => k = l
      BY DEF IsInjective
<1>4. ASSUME NEW k \in DOMAIN q, NEW l \in DOMAIN q, k < l, q[k] = y, q[l] = x PROVE FALSE
  <2>1. k = j /\ l = i
        BY <1>1, <1>3, <1>4
  <2> QED BY <1>1, <1>2, <1>4, <2>1
<1>5. x # y
      BY <1>1, <1>2, <1>3
<1> QED BY <1>4, <1>5 DEF Before

\* Of two entries of such a log one comes first.
LEMMA BeforeRange ==
    ASSUME NEW S, NEW q \in Seq(S), NEW x, NEW y, Before(q, x, y)
    PROVE  x \in Range(q) /\ y \in Range(q)
BY DEF Before, Range

\* The log grows at its end.
LEMMA BeforeAppend ==
    ASSUME NEW S, NEW q \in Seq(S), NEW z \in S
    PROVE  /\ \A x, y : Before(q, x, y) => Before(Append(q, z), x, y)
           /\ \A x \in Range(q) : Before(Append(q, z), x, z)
           /\ \A x, y : Before(Append(q, z), x, y) => Before(q, x, y) \/ (y = z /\ x \in Range(q))
<1>1. PICK a : a = Append(q, z)
      OBVIOUS
<1>2. /\ Len(q) \in Nat /\ DOMAIN q = 1 .. Len(q) /\ DOMAIN a = 1 .. Len(q) + 1
      /\ a[Len(q) + 1] = z /\ \A j \in 1 .. Len(q) : a[j] = q[j]
      BY <1>1
<1>3. ASSUME NEW x, NEW y, Before(q, x, y) PROVE Before(a, x, y)
  <2>1. PICK i, j \in DOMAIN q : i < j /\ q[i] = x /\ q[j] = y
        BY <1>3 DEF Before
  <2>2. i \in DOMAIN a /\ j \in DOMAIN a /\ a[i] = x /\ a[j] = y
        BY <1>2, <2>1
  <2> QED BY <2>1, <2>2 DEF Before
<1>4. ASSUME NEW x \in Range(q) PROVE Before(a, x, z)
  <2>1. PICK i \in DOMAIN q : q[i] = x
        BY DEF Range
  <2>2. i \in DOMAIN a /\ Len(q) + 1 \in DOMAIN a /\ i < Len(q) + 1 /\ a[i] = x
        BY <1>2, <2>1
  <2> QED BY <1>2, <2>2 DEF Before
<1>5. ASSUME NEW x, NEW y, Before(a, x, y) PROVE Before(q, x, y) \/ (y = z /\ x \in Range(q))
  <2>1. PICK i, j \in DOMAIN a : i < j /\ a[i] = x /\ a[j] = y
        BY <1>5 DEF Before
  <2>2. i \in DOMAIN q /\ q[i] = x
        BY <1>2, <2>1
  <2>3. CASE j = Len(q) + 1
        BY <1>2, <2>1, <2>2, <2>3 DEF Range
  <2>4. CASE j \in DOMAIN q
        BY <1>2, <2>1, <2>2, <2>4 DEF Before
  <2> QED BY <1>2, <2>3, <2>4
<1> QED BY <1>1, <1>3, <1>4, <1>5

\* The order of what remains of a queue is the order it had.
LEMMA BeforeRemove ==
    ASSUME NEW S, NEW q \in Seq(S), NEW i \in DOMAIN q
    PROVE  \A x, y : Before(RemoveAt(q, i), x, y) => Before(q, x, y)
<1>1. PICK a : a = RemoveAt(q, i)
      OBVIOUS
<1>2. Len(q) \in Nat /\ DOMAIN q = 1 .. Len(q) /\ i \in 1 .. Len(q)
      BY LenProperties
<1>3. /\ a \in Seq(S) /\ Len(a) = Len(q) - 1
      /\ \A j \in 1 .. Len(q) - 1 : a[j] = IF j < i THEN q[j] ELSE q[j + 1]
      BY <1>1, <1>2, RemoveAtPoints
<1>4. DOMAIN a = 1 .. Len(q) - 1
      BY <1>3, LenProperties
<1>5. PICK f : f = [j \in DOMAIN a |-> IF j < i THEN j ELSE j + 1]
      OBVIOUS
<1>6. f \in [DOMAIN a -> DOMAIN q] /\ \A j \in DOMAIN a : a[j] = q[f[j]]
      BY <1>2, <1>3, <1>4, <1>5
<1>7. \A k, j \in DOMAIN a : k < j => f[k] < f[j]
      BY <1>2, <1>4, <1>5
<1>8. ASSUME NEW x, NEW y, Before(a, x, y) PROVE Before(q, x, y)
  <2>1. PICK k, j \in DOMAIN a : k < j /\ a[k] = x /\ a[j] = y
        BY <1>8 DEF Before
  <2>2. f[k] \in DOMAIN q /\ f[j] \in DOMAIN q /\ f[k] < f[j] /\ q[f[k]] = x /\ q[f[j]] = y
        BY <1>6, <1>7, <2>1
  <2> QED BY <2>2 DEF Before
<1> QED BY <1>1, <1>8

\* Messages that are ordered in a queue are there.
LEMMA PrecedesHas ==
    ASSUME NEW q, NEW I, NEW s \in Send, NEW t \in Send, Precedes(q, I, s, t)
    PROVE  s \in Has(q, I) /\ t \in Has(q, I)
BY DEF Precedes, Has

-----------------------------------------------------------------------------
(* What a step does to the queues *)

\* The poller takes a completion.
LEMMA CqPops ==
    ASSUME TypeOK, NEW p \in Proc, cq[p] # <<>>, cq' = [cq EXCEPT ![p] = Tail(@)],
           NEW x, x = Head(cq[p])
    PROVE  /\ x \in Wc
           /\ \A d \in Proc : \A s, t : Precedes(cq'[d], InitWc, s, t) => Precedes(cq[d], InitWc, s, t)
           /\ \A d \in Proc : d # p => Waiting(d)' = Waiting(d)
           /\ Waiting(p) = Waiting(p)' \cup {s \in Send : x \in InitWc /\ x.send = s}
           /\ x \in InitWc => \A t \in Waiting(p)' : Precedes(cq[p], InitWc, x.send, t)
<1>1. PICK q : q = cq[p] /\ q \in Seq(Wc) /\ q # <<>>
      BY DEF TypeOK
<1>2. \A d \in Proc : cq'[d] = IF d = p THEN Tail(q) ELSE cq[d]
      BY <1>1 DEF TypeOK
<1>3. PICK J : J = InitWc
      OBVIOUS
<1>4. /\ Has(q, J) = Has(Tail(q), J) \cup {s \in Send : x \in J /\ x.send = s}
      /\ \A s, t : Precedes(Tail(q), J, s, t) => Precedes(q, J, s, t)
      /\ x \in J => \A t \in Has(Tail(q), J) : Precedes(q, J, x.send, t)
      BY <1>1, TailOrder
<1>5. x \in Wc
      BY <1>1, TailEntries
<1>6. \A d \in Proc : Waiting(d) = Has(cq[d], J) /\ Waiting(d)' = Has(cq'[d], J)
      BY <1>3 DEF Waiting, InitWc, Wc, Data
<1>7. ASSUME NEW d \in Proc, NEW s, NEW t, Precedes(cq'[d], J, s, t) PROVE Precedes(cq[d], J, s, t)
      BY <1>1, <1>2, <1>4, <1>7
<1> HIDE DEF InitWc
<1> QED BY <1>1, <1>2, <1>3, <1>4, <1>5, <1>6, <1>7

\* The hardware reports a completion.
LEMMA CqGrows ==
    ASSUME TypeOK, NEW p \in Proc, NEW e \in Wc, cq' = [cq EXCEPT ![p] = Append(@, e)]
    PROVE  /\ \A d \in Proc : \A s, t : Precedes(cq'[d], InitWc, s, t) =>
                 \/ Precedes(cq[d], InitWc, s, t)
                 \/ d = p /\ e \in InitWc /\ e.send = t /\ (s \in Send => s \in Waiting(d))
           /\ \A d \in Proc : d # p => Waiting(d)' = Waiting(d)
           /\ Waiting(p)' = Waiting(p) \cup {s \in Send : e \in InitWc /\ e.send = s}
<1>1. PICK q : q = cq[p] /\ q \in Seq(Wc)
      BY DEF TypeOK
<1>2. \A d \in Proc : cq'[d] = IF d = p THEN Append(q, e) ELSE cq[d]
      BY <1>1 DEF TypeOK
<1>3. PICK J : J = InitWc
      OBVIOUS
<1>4. /\ Has(Append(q, e), J) = Has(q, J) \cup {s \in Send : e \in J /\ e.send = s}
      /\ \A s, t : Precedes(Append(q, e), J, s, t) =>
            Precedes(q, J, s, t) \/ (e \in J /\ e.send = t /\ (s \in Send => s \in Has(q, J)))
      BY <1>1, AppendOrder
<1>6. \A d \in Proc : Waiting(d) = Has(cq[d], J) /\ Waiting(d)' = Has(cq'[d], J)
      BY <1>3 DEF Waiting, InitWc, Wc, Data
<1>7. ASSUME NEW d \in Proc, NEW s, NEW t, Precedes(cq'[d], J, s, t)
      PROVE  \/ Precedes(cq[d], J, s, t)
             \/ d = p /\ e \in J /\ e.send = t /\ (s \in Send => s \in Has(cq[d], J))
  <2>1. CASE d = p
        BY <1>1, <1>2, <1>4, <1>7, <2>1
  <2>2. CASE d # p
        BY <1>2, <1>7, <2>2
  <2> QED BY <2>1, <2>2
<1> HIDE DEF InitWc
<1> QED BY <1>1, <1>2, <1>3, <1>4, <1>6, <1>7

\* A work request is posted.
SqGrown(p, d, wr) ==
    /\ \A x, y \in Proc : \A s, t : Precedes(sq'[x][y], InitWr, s, t) =>
          \/ Precedes(sq[x][y], InitWr, s, t)
          \/ x = p /\ y = d /\ wr \in InitWr /\ wr.send = t /\ (s \in Send => s \in Leaving(x, y))
    /\ \A x, y \in Proc : (x # p \/ y # d \/ {p, d} \in broken) => sq'[x][y] = sq[x][y]
    /\ \A x, y \in Proc : (x # p \/ y # d \/ {p, d} \in broken) => Leaving(x, y)' = Leaving(x, y)
    /\ {p, d} \notin broken =>
          Leaving(p, d)' = Leaving(p, d) \cup {s \in Send : wr \in InitWr /\ wr.send = s}

LEMMA SqPosts ==
    ASSUME TypeOK, NEW p \in Proc, NEW d \in Proc, NEW wr \in Wr, sq' = Posted(p, d, wr)
    PROVE  SqGrown(p, d, wr)
<1> USE DEF SqGrown
<1>0. sq[p][d] \in Seq(Wr)
      BY DEF TypeOK
<1>1. PICK q : q = sq[p][d] /\ q \in Seq(Wr)
      BY <1>0
<1>2. PICK J : J = InitWr
      OBVIOUS
<1>3. \A x, y \in Proc : Leaving(x, y) = Has(sq[x][y], J) /\ Leaving(x, y)' = Has(sq'[x][y], J)
      BY <1>2 DEF Leaving, InitWr, Wr
<1>4. CASE {p, d} \in broken
      BY <1>3, <1>4 DEF Posted
<1>5. CASE {p, d} \notin broken
  <2>1. \A x, y \in Proc : sq'[x][y] = IF x = p /\ y = d THEN Append(q, wr) ELSE sq[x][y]
        BY <1>1, <1>5 DEF Posted, TypeOK
  <2>2. /\ Has(Append(q, wr), J) = Has(q, J) \cup {s \in Send : wr \in J /\ wr.send = s}
        /\ \A s, t : Precedes(Append(q, wr), J, s, t) =>
              Precedes(q, J, s, t) \/ (wr \in J /\ wr.send = t /\ (s \in Send => s \in Has(q, J)))
        BY <1>1, AppendOrder
  <2>3. ASSUME NEW x \in Proc, NEW y \in Proc, NEW s, NEW t, Precedes(sq'[x][y], J, s, t)
        PROVE  \/ Precedes(sq[x][y], J, s, t)
               \/ x = p /\ y = d /\ wr \in J /\ wr.send = t /\ (s \in Send => s \in Has(sq[x][y], J))
    <3>1. CASE x = p /\ y = d
          BY <1>1, <2>1, <2>2, <2>3, <3>1
    <3>2. CASE ~ (x = p /\ y = d)
          BY <2>1, <2>3, <3>2
    <3> QED BY <3>1, <3>2
  <2> HIDE DEF InitWr
  <2>4. \A x, y \in Proc : (x # p \/ y # d) => sq'[x][y] = sq[x][y]
        BY <2>1
  <2>5. \A x, y \in Proc : (x # p \/ y # d) => Leaving(x, y)' = Leaving(x, y)
        BY <1>3, <2>4
  <2>6. Leaving(p, d)' = Leaving(p, d) \cup {s \in Send : wr \in J /\ wr.send = s}
        BY <1>1, <1>3, <2>1, <2>2
  <2> QED BY <1>2, <1>3, <1>5, <2>3, <2>4, <2>5, <2>6
<1> QED BY <1>4, <1>5

\* The hardware takes a work request.
SqShrunk(p, d, wr) ==
    /\ wr \in Wr
    /\ \A x, y \in Proc : \A s, t : Precedes(sq'[x][y], InitWr, s, t) =>
                                     Precedes(sq[x][y], InitWr, s, t)
    /\ \A x, y \in Proc : (x # p \/ y # d) => /\ Leaving(x, y)' = Leaving(x, y)
                                              /\ sq'[x][y] = sq[x][y]
    /\ Leaving(p, d) = Leaving(p, d)' \cup {s \in Send : wr \in InitWr /\ wr.send = s}
    /\ wr \in InitWr => \A t \in Leaving(p, d)' : Precedes(sq[p][d], InitWr, wr.send, t)

LEMMA SqPops ==
    ASSUME TypeOK, NEW p \in Proc, NEW d \in Proc, sq[p][d] # <<>>,
           sq' = [sq EXCEPT ![p][d] = Tail(@)], NEW wr, wr = Head(sq[p][d])
    PROVE  SqShrunk(p, d, wr)
<1>0. sq[p][d] \in Seq(Wr)
      BY DEF TypeOK
<1>1. PICK q : q = sq[p][d] /\ q \in Seq(Wr) /\ q # <<>> /\ wr = Head(q)
      BY <1>0
<1>2. PICK J : J = InitWr
      OBVIOUS
<1>3. \A x, y \in Proc : Leaving(x, y) = Has(sq[x][y], J) /\ Leaving(x, y)' = Has(sq'[x][y], J)
      BY <1>2 DEF Leaving, InitWr, Wr
<1>4. \A x, y \in Proc : sq'[x][y] = IF x = p /\ y = d THEN Tail(q) ELSE sq[x][y]
      BY <1>1 DEF TypeOK
<1>13. q \in Seq(Wr) /\ q # <<>> /\ wr = Head(q)
      BY <1>1
<1>5. /\ Has(q, J) = Has(Tail(q), J) \cup {s \in Send : wr \in J /\ wr.send = s}
      /\ \A s, t : Precedes(Tail(q), J, s, t) => Precedes(q, J, s, t)
      /\ wr \in J => \A t \in Has(Tail(q), J) : Precedes(q, J, wr.send, t)
      BY <1>13, TailOrder, Zenon
<1>6. wr \in Wr
      BY <1>1, TailEntries
<1>7. ASSUME NEW x \in Proc, NEW y \in Proc, NEW s, NEW t, Precedes(sq'[x][y], J, s, t)
      PROVE  Precedes(sq[x][y], J, s, t)
      BY <1>1, <1>4, <1>5, <1>7
<1> HIDE DEF InitWr
<1>8. \A x, y \in Proc : (x # p \/ y # d) => sq'[x][y] = sq[x][y]
      BY <1>4
<1>9. \A x, y \in Proc : (x # p \/ y # d) => Leaving(x, y)' = Leaving(x, y)
      BY <1>3, <1>8
<1>10. sq'[p][d] = Tail(q)
      BY <1>4
<1>11. Leaving(p, d) = Leaving(p, d)' \cup {s \in Send : wr \in J /\ wr.send = s}
      BY <1>1, <1>3, <1>5, <1>10
<1>12. wr \in J => \A t \in Leaving(p, d)' : Precedes(sq[p][d], J, wr.send, t)
      BY <1>1, <1>3, <1>5, <1>10
<1> QED BY <1>2, <1>6, <1>7, <1>8, <1>9, <1>11, <1>12 DEF SqShrunk

-----------------------------------------------------------------------------
(* Steps keep the order *)

\* Calls that have posted their message stay as they are.
PostedKept == \A s \in Send : isend_pc[s] = "posted" => isend_pc'[s] = "posted" /\ snd'[s] = snd[s]

\* Work queues keep their order, and lose messages only when the connection breaks.
SqSame ==
    /\ \A p, d \in Proc : \A s, t : Precedes(sq'[p][d], InitWr, s, t) =>
                                     Precedes(sq[p][d], InitWr, s, t)
    /\ \A p, d \in Proc : /\ Leaving(p, d)' \subseteq Leaving(p, d)
                          /\ {p, d} \notin broken' => Leaving(p, d)' = Leaving(p, d)
                          /\ {p, d} \in broken' => sq'[p][d] = <<>>
    /\ broken \subseteq broken'

\* Completion queues keep their order.
CqOrder ==
    \A d \in Proc : \A s, t : Precedes(cq'[d], InitWc, s, t) => Precedes(cq[d], InitWc, s, t)

SameOrder == CqOrder /\ SqSame

\* The logs have entries of the right kind.
LEMMA LogFacts ==
    ASSUME TypeOK, LogInv, NEW p \in Proc, NEW d \in Proc
    PROVE  /\ slog[p][d] \in Seq(Send) /\ Logged(p, d) \subseteq Send
           /\ \A s, t : Before(slog[p][d], s, t) =>
                 /\ ~ Before(slog[p][d], t, s) /\ s # t
                 /\ s \in Logged(p, d) /\ t \in Logged(p, d)
<1>1. PICK q : q = slog[p][d] /\ q \in Seq(Send)
  <2>1. slog[p][d] \in Seq(Send)
        BY DEF TypeOK
  <2> QED BY <2>1
<1>2. IsInjective(q)
      BY <1>1 DEF LogInv
<1>3. Range(q) \subseteq Send
      BY <1>1, LenProperties, ElementOfSeq DEF Range
<1>4. ASSUME NEW s, NEW t, Before(q, s, t)
      PROVE  ~ Before(q, t, s) /\ s # t /\ s \in Range(q) /\ t \in Range(q)
      BY <1>1, <1>2, <1>4, BeforeStrict, BeforeRange
<1> QED BY <1>1, <1>3, <1>4 DEF Logged

\* Calls and logs that do not change.
LEMMA LogKept ==
    ASSUME TypeOK, LogInv, PostedKept, slog' = slog
    PROVE  /\ LogInv' /\ \A p, d \in Proc : Logged(p, d)' = Logged(p, d)
           /\ \A p, d \in Proc : \A s \in Logged(p, d) :
                 snd'[s] = snd[s] /\ snd[s].src = p /\ snd[s].dst = d
<1>1. \A p, d \in Proc : Logged(p, d)' = Logged(p, d) /\ Logged(p, d) \subseteq Send
      BY LogFacts DEF Logged
<1>2. ASSUME NEW p \in Proc, NEW d \in Proc, NEW s \in Logged(p, d)
      PROVE  /\ s \in Send /\ isend_pc[s] = "posted" /\ snd[s].src = p /\ snd[s].dst = d
             /\ isend_pc'[s] = "posted" /\ snd'[s] = snd[s]
      BY <1>1 DEF LogInv, PostedKept
<1> HIDE DEF Logged
<1>3. LogInv'
      BY <1>1, <1>2 DEF LogInv
<1> QED BY <1>1, <1>2, <1>3

\* Messages stay where they are.
LEMMA StayKeeps ==
    ASSUME TypeOK, WayInv, PostedKept, slog' = slog, SameOrder, got' = got,
           \A r \in Recv : rcv[r] \in Receive => rcv'[r] = rcv[r],
           \A d \in Proc : /\ Waiting(d)' = Waiting(d) /\ Queued(d)' = Queued(d)
                           /\ \A s, t : Precedes(aq'[d], Arrived, s, t) => Precedes(aq[d], Arrived, s, t)
    PROVE  WayInv'
<1>1. LogInv /\ RouteInv /\ AheadInv /\ PrefixInv /\ LiveInv
      BY DEF WayInv
<1>2. /\ LogInv' /\ \A p, d \in Proc : Logged(p, d)' = Logged(p, d)
      /\ \A p, d \in Proc : \A s \in Logged(p, d) :
            snd'[s] = snd[s] /\ snd[s].src = p /\ snd[s].dst = d
      BY <1>1, LogKept
<1>3. \A d \in Proc : Came(d)' = Came(d)
      BY DEF Came, Taken
<1>4. ASSUME NEW p \in Proc, NEW d \in Proc, NEW s \in Logged(p, d), NEW t \in Logged(p, d),
             Ahead(p, d, s, t)'
      PROVE  Ahead(p, d, s, t)
      BY <1>3, <1>4 DEF Ahead, SameOrder, SqSame, CqOrder, InitWr, InitWc, Wr, Wc, Arrived, Data
<1> HIDE DEF Logged, Waiting, Queued, Leaving, Came, Ahead
<1>5. AheadInv'
      BY <1>1, <1>2, <1>4 DEF AheadInv
<1>6. PrefixInv'
  <2>1. ASSUME NEW p \in Proc, NEW d \in Proc, NEW s \in Logged(p, d), NEW t \in Logged(p, d),
               Before(slog[p][d], s, t)
        PROVE  /\ t \in Came(d)' => s \in Came(d)'
               /\ t \in Waiting(d)' => s \in Came(d)' \cup Waiting(d)'
        BY <1>1, <1>3, <2>1 DEF PrefixInv
  <2> QED BY <1>2, <2>1 DEF PrefixInv
<1>8. LiveInv'
      BY <1>1, <1>2, <1>3, ZenonT(120) DEF LiveInv, SameOrder, SqSame
<1>7. RouteInv'
  <2>1. ASSUME NEW d \in Proc, NEW s \in Waiting(d)' \cup Queued(d)'
        PROVE  \E p \in Proc : s \in Logged(p, d)'
        BY <1>1, <1>2, <2>1 DEF RouteInv
  <2>2. ASSUME NEW p \in Proc, NEW d \in Proc PROVE Leaving(p, d)' \subseteq Logged(p, d)'
        BY <1>1, <1>2 DEF RouteInv, SameOrder, SqSame
  <2>3. ASSUME NEW r \in Recv, got'[r] # None
        PROVE  rcv'[r] \in Receive /\ \E p, d \in Proc : rcv'[r].at = d /\ got'[r] \in Logged(p, d)'
    <3>1. PICK p, d \in Proc : rcv[r] \in Receive /\ rcv[r].at = d /\ got[r] \in Logged(p, d)
          BY <1>1, <2>3 DEF RouteInv
    <3> QED BY <1>2, <3>1
  <2> QED BY <2>1, <2>2, <2>3 DEF RouteInv
<1> QED BY <1>2, <1>5, <1>6, <1>7, <1>8 DEF WayInv

\* The hardware sends the message at the head of a work queue: it is the last one in
\* the completion queue of the receiver, and what is left in the work queue is later.
Sends(p, d, u) ==
    /\ slog' = slog /\ got' = got /\ aq' = aq /\ broken' = broken
    /\ \A r \in Recv : rcv[r] \in Receive => rcv'[r] = rcv[r]
    /\ u \in Leaving(p, d) /\ sq[p][d] # <<>>
    /\ \A x, y \in Proc : \A s, t : Precedes(sq'[x][y], InitWr, s, t) => Precedes(sq[x][y], InitWr, s, t)
    /\ \A x, y \in Proc : (x # p \/ y # d) => Leaving(x, y)' = Leaving(x, y) /\ sq'[x][y] = sq[x][y]
    /\ Leaving(p, d) = Leaving(p, d)' \cup {u}
    /\ \A t \in Leaving(p, d)' : Precedes(sq[p][d], InitWr, u, t)
    /\ \A x \in Proc : \A s, t : Precedes(cq'[x], InitWc, s, t) =>
          Precedes(cq[x], InitWc, s, t) \/ (x = d /\ t = u /\ (s \in Send => s \in Waiting(x)))
    /\ \A x \in Proc : x # d => Waiting(x)' = Waiting(x)
    /\ Waiting(d)' = Waiting(d) \cup {u}

LEMMA SendKeeps ==
    ASSUME TypeOK, WayInv, PostedKept, NEW p \in Proc, NEW d \in Proc, NEW u \in Send, Sends(p, d, u)
    PROVE  WayInv'
<1> SUFFICES
    ASSUME slog' = slog, got' = got, aq' = aq, broken' = broken,
           \A r \in Recv : rcv[r] \in Receive => rcv'[r] = rcv[r],
           u \in Leaving(p, d), sq[p][d] # <<>>,
           \A x, y \in Proc : \A s, t : Precedes(sq'[x][y], InitWr, s, t) =>
                                            Precedes(sq[x][y], InitWr, s, t),
           \A x, y \in Proc : (x # p \/ y # d) => /\ Leaving(x, y)' = Leaving(x, y)
                                                  /\ sq'[x][y] = sq[x][y],
           Leaving(p, d) = Leaving(p, d)' \cup {u},
           \A t \in Leaving(p, d)' : Precedes(sq[p][d], InitWr, u, t),
           \A x \in Proc : \A s, t : Precedes(cq'[x], InitWc, s, t) =>
              Precedes(cq[x], InitWc, s, t) \/ (x = d /\ t = u /\ (s \in Send => s \in Waiting(x))),
           \A x \in Proc : x # d => Waiting(x)' = Waiting(x), Waiting(d)' = Waiting(d) \cup {u}
    PROVE  WayInv'
    BY DEF Sends
<1>1. LogInv /\ RouteInv /\ AheadInv /\ PrefixInv /\ LiveInv
      BY DEF WayInv
<1>2. /\ LogInv' /\ \A x, y \in Proc : Logged(x, y)' = Logged(x, y)
      /\ \A x, y \in Proc : \A s \in Logged(x, y) :
            snd'[s] = snd[s] /\ snd[s].src = x /\ snd[s].dst = y
      BY <1>1, LogKept
<1>3. \A y \in Proc : Came(y)' = Came(y) /\ Queued(y)' = Queued(y)
      BY DEF Came, Taken, Queued, Arrived, Data
<1>4. u \in Logged(p, d) /\ {p, d} \notin broken
      BY <1>1 DEF RouteInv, LiveInv
<1>5. \A x, y \in Proc : u \in Logged(x, y) => x = p /\ y = d
      BY <1>2, <1>4
<1>6. \A x, y \in Proc : \A s, t : Before(slog[x][y], s, t) =>
         ~ Before(slog[x][y], t, s) /\ s # t /\ s \in Logged(x, y) /\ t \in Logged(x, y)
      BY <1>1, LogFacts, ZenonT(120)
<1>7. \A x, y \in Proc : Logged(x, y) \subseteq Send
      BY <1>1, LogFacts
<1> HIDE DEF Logged, Waiting, Queued, Leaving, Came
<1>8. ASSUME NEW x \in Proc, NEW y \in Proc, NEW s \in Logged(x, y), NEW t \in Logged(x, y),
             Ahead(x, y, s, t)'
      PROVE  Ahead(x, y, s, t)
  <2>1. CASE s \in Came(y)' /\ t \in Waiting(y)' \cup Leaving(x, y)'
    <3>1. t \in Waiting(y) \cup Leaving(x, y) \/ t = u
          BY <2>1
    <3>2. t \in Waiting(y) \cup Leaving(x, y)
          BY <1>5, <1>8, <3>1
    <3> QED BY <1>3, <2>1, <3>2 DEF Ahead
  <2>2. CASE s \in Waiting(y)' /\ t \in Leaving(x, y)'
    <3>1. t \in Leaving(x, y)
          BY <2>2
    <3>2. CASE s \in Waiting(y)
          BY <3>1, <3>2 DEF Ahead
    <3>3. CASE s \notin Waiting(y)
      <4>1. s = u /\ x = p /\ y = d
            BY <1>5, <1>8, <2>2, <3>3
      <4> QED BY <2>2, <4>1 DEF Ahead
    <3> QED BY <3>2, <3>3
  <2>3. CASE Precedes(aq'[y], Arrived, s, t)
        BY <2>3 DEF Ahead
  <2>4. CASE Precedes(cq'[y], InitWc, s, t)
    <3>1. CASE Precedes(cq[y], InitWc, s, t)
          BY <3>1 DEF Ahead
    <3>2. CASE ~ Precedes(cq[y], InitWc, s, t)
      <4>1. y = d /\ t = u /\ s \in Waiting(y)
            BY <1>7, <1>8, <2>4, <3>2
      <4>2. x = p
            BY <1>5, <1>8, <4>1
      <4> QED BY <4>1, <4>2 DEF Ahead
    <3> QED BY <3>1, <3>2
  <2>5. CASE Precedes(sq'[x][y], InitWr, s, t)
        BY <2>5 DEF Ahead
  <2> QED BY <1>8, <2>1, <2>2, <2>3, <2>4, <2>5 DEF Ahead, InitWc, InitWr, Wc, Wr, Arrived, Data
<1> HIDE DEF Ahead
<1>9. AheadInv'
      BY <1>1, <1>2, <1>8 DEF AheadInv
<1>10. ASSUME NEW t \in Leaving(p, d)' PROVE Before(slog[p][d], u, t)
  <2>1. t \in Logged(p, d)
        BY <1>1 DEF RouteInv
  <2> QED BY <1>1, <1>4, <2>1 DEF AheadInv, Ahead
<1>11. ASSUME NEW x \in Proc, NEW y \in Proc, NEW s \in Logged(x, y), NEW t \in Logged(x, y),
              Before(slog[x][y], s, t)
       PROVE  /\ t \in Came(y)' => s \in Came(y)'
              /\ t \in Waiting(y)' => s \in Came(y)' \cup Waiting(y)'
  <2>1. t \in Came(y)' => s \in Came(y)'
        BY <1>1, <1>3, <1>11 DEF PrefixInv
  <2>2. ASSUME t \in Waiting(y) PROVE s \in Came(y)' \cup Waiting(y)'
    <3>1. s \in Came(y) \cup Waiting(y)
          BY <1>1, <1>11, <2>2 DEF PrefixInv
    <3> QED BY <1>3, <3>1
  <2>3. ASSUME t = u, y = d PROVE s \in Came(y)' \cup Waiting(y)'
    <3>1. x = p /\ s # u
          BY <1>5, <1>6, <1>11, <2>3
    <3>2. s \in Came(d) \cup Waiting(d) \cup Leaving(p, d)
          BY <1>1, <1>4, <1>11, <2>3, <3>1 DEF LiveInv
    <3>3. s \notin Leaving(p, d)
      <4>1. s \notin Leaving(p, d)'
            BY <1>6, <1>10, <1>11, <2>3, <3>1
      <4> QED BY <3>1, <4>1
    <3> QED BY <1>3, <2>3, <3>2, <3>3
  <2> QED BY <2>1, <2>2, <2>3
<1>12. PrefixInv'
      BY <1>2, <1>11 DEF PrefixInv
<1>13. LiveInv'
  <2>1. ASSUME NEW x \in Proc, NEW y \in Proc, {x, y} \notin broken', NEW s \in Logged(x, y)
        PROVE  s \in Came(y)' \cup Waiting(y)' \cup Leaving(x, y)'
    <3>1. s \in Came(y) \cup Waiting(y) \cup Leaving(x, y)
          BY <1>1, <2>1 DEF LiveInv
    <3>2. s \in Waiting(y) => s \in Waiting(y)'
          OBVIOUS
    <3>3. s \in Leaving(x, y) => s \in Leaving(x, y)' \/ s \in Waiting(y)'
          OBVIOUS
    <3> QED BY <1>3, <3>1, <3>2, <3>3
  <2>2. ASSUME NEW x \in Proc, NEW y \in Proc, {x, y} \in broken' PROVE sq'[x][y] = <<>>
    <3>1. sq[x][y] = <<>>
          BY <1>1, <2>2 DEF LiveInv
    <3> QED BY <3>1
  <2>3. ASSUME NEW x \in Proc, NEW y \in Proc, {x, y} \notin broken'
        PROVE  Logged(x, y)' \subseteq Came(y)' \cup Waiting(y)' \cup Leaving(x, y)'
        BY <1>2, <2>1, <2>3
  <2> QED BY <2>2, <2>3 DEF LiveInv
<1>14. RouteInv'
  <2>1. ASSUME NEW y \in Proc, NEW s \in Waiting(y)' \cup Queued(y)'
        PROVE  \E x \in Proc : s \in Logged(x, y)'
        BY <1>1, <1>2, <1>3, <1>4, <2>1 DEF RouteInv
  <2>2. ASSUME NEW x \in Proc, NEW y \in Proc PROVE Leaving(x, y)' \subseteq Logged(x, y)'
    <3>1. Leaving(x, y)' \subseteq Leaving(x, y)
          OBVIOUS
    <3> QED BY <1>1, <1>2, <3>1 DEF RouteInv
  <2>3. ASSUME NEW r \in Recv, got'[r] # None
        PROVE  rcv'[r] \in Receive /\ \E x, y \in Proc : rcv'[r].at = y /\ got'[r] \in Logged(x, y)'
    <3>1. PICK x, y \in Proc : rcv[r] \in Receive /\ rcv[r].at = y /\ got[r] \in Logged(x, y)
          BY <1>1, <2>3 DEF RouteInv
    <3> QED BY <1>2, <3>1
  <2> QED BY <2>1, <2>2, <2>3 DEF RouteInv
<1> QED BY <1>2, <1>9, <1>12, <1>13, <1>14 DEF WayInv

\* A message u that waits at d, or is queued there, is taken or queued.
LEMMA ArriveKeeps ==
    ASSUME TypeOK, WayInv, PostedKept, slog' = slog, broken' = broken, SameOrder,
           NEW d \in Proc, NEW u \in Send, u \in Waiting(d) \cup Queued(d),
           \A x \in Proc : Came(x) \subseteq Came(x)' /\ Came(x)' \subseteq Came(x) \cup {u},
           u \in Came(d)',
           \A x \in Proc : Waiting(x)' \subseteq Waiting(x) /\ Waiting(x) \subseteq Waiting(x)' \cup {u},
           u \in Waiting(d) => \A t \in Waiting(d)' : Precedes(cq[d], InitWc, u, t),
           \A x \in Proc : \A s, t : Precedes(aq'[x], Arrived, s, t) =>
              \/ Precedes(aq[x], Arrived, s, t)
              \/ x = d /\ t = u /\ u \in Waiting(d) /\ (s \in Send => s \in Queued(d)),
           \A x \in Proc : Queued(x)' \subseteq Queued(x) \cup {s \in Send : x = d /\ s = u},
           \A r \in Recv : got'[r] # None =>
              \/ got[r] # None /\ got'[r] = got[r] /\ rcv'[r] = rcv[r]
              \/ got'[r] = u /\ rcv'[r] \in Receive /\ rcv'[r].at = d
    PROVE  WayInv' /\ \E p \in Proc : /\ u \in Logged(p, d)
                                      /\ \A s : Before(slog[p][d], s, u) => s \in Came(d)
<1>1. LogInv /\ RouteInv /\ AheadInv /\ PrefixInv /\ LiveInv
      BY DEF WayInv
<1>2. /\ LogInv' /\ \A x, y \in Proc : Logged(x, y)' = Logged(x, y)
      /\ \A x, y \in Proc : \A s \in Logged(x, y) :
            snd'[s] = snd[s] /\ snd[s].src = x /\ snd[s].dst = y
      BY <1>1, LogKept
<1>3. PICK p \in Proc : u \in Logged(p, d)
      BY <1>1 DEF RouteInv
<1>4. \A x, y \in Proc : u \in Logged(x, y) => x = p /\ y = d
      BY <1>2, <1>3
<1>5. \A x, y \in Proc : \A s, t : Before(slog[x][y], s, t) =>
         ~ Before(slog[x][y], t, s) /\ s # t /\ s \in Logged(x, y) /\ t \in Logged(x, y)
      BY <1>1, LogFacts
<1>6. \A x, y \in Proc : Logged(x, y) \subseteq Send
      BY <1>1, LogFacts
<1>7. Queued(d) \subseteq Came(d)
      BY DEF Came
<1> HIDE DEF Logged, Waiting, Queued, Leaving, Came
<1>8. ASSUME u \in Waiting(d), NEW t \in Waiting(d)', t \in Logged(p, d)
      PROVE  Before(slog[p][d], u, t)
      BY <1>1, <1>3, <1>8 DEF AheadInv, Ahead
<1>9. ASSUME NEW x \in Proc, NEW y \in Proc, NEW s \in Logged(x, y), NEW t \in Logged(x, y),
             Ahead(x, y, s, t)'
      PROVE  Before(slog[x][y], s, t)
  <2>0. ASSUME Ahead(x, y, s, t) PROVE Before(slog[x][y], s, t)
        BY <1>1, <2>0 DEF AheadInv
  <2>1. CASE s \in Came(y)' /\ t \in Waiting(y)' \cup Leaving(x, y)'
    <3>1. t \in Waiting(y) \cup Leaving(x, y)
          BY <2>1 DEF SameOrder, SqSame
    <3>2. CASE s \in Came(y)
          BY <2>0, <3>1, <3>2 DEF Ahead
    <3>3. CASE s \notin Came(y)
      <4>1. s = u /\ x = p /\ y = d
            BY <1>4, <1>9, <2>1, <3>3
      <4>2. u \in Waiting(d)
            BY <1>7, <3>3, <4>1
      <4>3. CASE t \in Waiting(y)'
            BY <1>8, <1>9, <4>1, <4>2, <4>3
      <4>4. CASE t \in Leaving(x, y)'
        <5>1. t \in Leaving(x, y)
              BY <4>4 DEF SameOrder, SqSame
        <5> QED BY <2>0, <4>1, <4>2, <5>1 DEF Ahead
      <4> QED BY <2>1, <4>3, <4>4
    <3> QED BY <3>2, <3>3
  <2>2. CASE s \in Waiting(y)' /\ t \in Leaving(x, y)'
    <3>1. s \in Waiting(y) /\ t \in Leaving(x, y)
          BY <2>2 DEF SameOrder, SqSame
    <3> QED BY <2>0, <3>1 DEF Ahead
  <2>3. CASE Precedes(aq'[y], Arrived, s, t)
    <3>1. CASE Precedes(aq[y], Arrived, s, t)
          BY <2>0, <3>1 DEF Ahead
    <3>2. CASE ~ Precedes(aq[y], Arrived, s, t)
      <4>1. y = d /\ t = u /\ u \in Waiting(d) /\ s \in Queued(d)
            BY <1>6, <1>9, <2>3, <3>2
      <4> QED BY <1>7, <2>0, <4>1 DEF Ahead
    <3> QED BY <3>1, <3>2
  <2>4. CASE Precedes(cq'[y], InitWc, s, t)
        BY <2>0, <2>4 DEF Ahead, SameOrder, SqSame, CqOrder
  <2>5. CASE Precedes(sq'[x][y], InitWr, s, t)
        BY <2>0, <2>5 DEF Ahead, SameOrder, SqSame, CqOrder
  <2> QED BY <1>9, <2>1, <2>2, <2>3, <2>4, <2>5 DEF Ahead, InitWc, InitWr, Wc, Wr, Arrived, Data
<1>10. AheadInv'
  <2> HIDE DEF Ahead
  <2> QED BY <1>2, <1>9 DEF AheadInv
<1>11. ASSUME NEW s, Before(slog[p][d], s, u) PROVE s \in Came(d)
  <2>0. \A v, t : Before(slog[p][d], v, t) =>
          ~ Before(slog[p][d], t, v) /\ v # t /\ v \in Logged(p, d) /\ t \in Logged(p, d)
        BY <1>5
  <2>1. s \in Logged(p, d) /\ s # u /\ ~ Before(slog[p][d], u, s)
        BY <1>11, <2>0
  <2>2. CASE u \in Came(d)
        BY <1>1, <1>3, <1>11, <2>1, <2>2 DEF PrefixInv
  <2>3. CASE u \in Waiting(d)
    <3>1. s \in Came(d) \cup Waiting(d)
          BY <1>1, <1>3, <1>11, <2>1, <2>3 DEF PrefixInv
    <3>2. s \notin Waiting(d)'
          BY <1>8, <2>1, <2>3
    <3> QED BY <2>1, <3>1, <3>2
  <2> QED BY <1>7, <2>2, <2>3
<1>12. ASSUME NEW x \in Proc, NEW y \in Proc, NEW s \in Logged(x, y), NEW t \in Logged(x, y),
              Before(slog[x][y], s, t)
       PROVE  /\ t \in Came(y)' => s \in Came(y)'
              /\ t \in Waiting(y)' => s \in Came(y)' \cup Waiting(y)'
  <2>1. ASSUME t \in Came(y)' PROVE s \in Came(y)'
    <3>1. CASE t \in Came(y)
          BY <1>1, <1>12, <3>1 DEF PrefixInv
    <3>2. CASE t \notin Came(y)
      <4>1. t = u /\ x = p /\ y = d
            BY <1>4, <1>12, <2>1, <3>2
      <4> QED BY <1>11, <1>12, <4>1
    <3> QED BY <3>1, <3>2
  <2>2. ASSUME t \in Waiting(y)' PROVE s \in Came(y)' \cup Waiting(y)'
    <3>1. s \in Came(y) \cup Waiting(y)
      <4>1. t \in Waiting(y)
            BY <2>2
      <4> QED BY <1>1, <1>12, <4>1 DEF PrefixInv
    <3>2. s = u => y = d
          BY <1>4, <1>12
    <3> QED BY <3>1, <3>2
  <2> QED BY <2>1, <2>2
<1>13. PrefixInv'
      BY <1>2, <1>12 DEF PrefixInv
<1>14. LiveInv'
  <2>1. ASSUME NEW x \in Proc, NEW y \in Proc, {x, y} \notin broken', NEW s \in Logged(x, y)
        PROVE  s \in Came(y)' \cup Waiting(y)' \cup Leaving(x, y)'
    <3>1. s \in Came(y) \cup Waiting(y) \cup Leaving(x, y)
          BY <1>1, <2>1 DEF LiveInv
    <3>2. Leaving(x, y)' = Leaving(x, y)
          BY <2>1 DEF SameOrder, SqSame
    <3>3. s = u => y = d
          BY <1>4, <2>1
    <3> QED BY <3>1, <3>2, <3>3
  <2>2. ASSUME NEW x \in Proc, NEW y \in Proc, {x, y} \in broken' PROVE sq'[x][y] = <<>>
        BY <2>2 DEF SameOrder, SqSame
  <2>3. ASSUME NEW x \in Proc, NEW y \in Proc, {x, y} \notin broken'
        PROVE  Logged(x, y)' \subseteq Came(y)' \cup Waiting(y)' \cup Leaving(x, y)'
        BY <1>2, <2>1, <2>3
  <2> QED BY <2>2, <2>3 DEF LiveInv
<1>15. RouteInv'
  <2>1. ASSUME NEW y \in Proc, NEW s \in Waiting(y)' \cup Queued(y)'
        PROVE  \E x \in Proc : s \in Logged(x, y)'
    <3>1. s \in Waiting(y) \cup Queued(y) \/ (y = d /\ s = u)
          BY <2>1
    <3> QED BY <1>1, <1>2, <1>3, <3>1 DEF RouteInv
  <2>2. ASSUME NEW x \in Proc, NEW y \in Proc PROVE Leaving(x, y)' \subseteq Logged(x, y)'
    <3>1. Leaving(x, y)' \subseteq Leaving(x, y)
          BY DEF SameOrder, SqSame
    <3> QED BY <1>1, <1>2, <3>1 DEF RouteInv
  <2>3. ASSUME NEW r \in Recv, got'[r] # None
        PROVE  rcv'[r] \in Receive /\ \E x, y \in Proc : rcv'[r].at = y /\ got'[r] \in Logged(x, y)'
    <3>1. CASE got'[r] = u /\ rcv'[r] \in Receive /\ rcv'[r].at = d
          BY <1>2, <1>3, <3>1
    <3>2. CASE got[r] # None /\ got'[r] = got[r] /\ rcv'[r] = rcv[r]
      <4>1. PICK x, y \in Proc : rcv[r] \in Receive /\ rcv[r].at = y /\ got[r] \in Logged(x, y)
            BY <1>1, <3>2 DEF RouteInv
      <4> QED BY <1>2, <3>2, <4>1
    <3> QED BY <2>3, <3>1, <3>2
  <2> QED BY <2>1, <2>2, <2>3 DEF RouteInv
<1>16. WayInv'
      BY <1>2, <1>10, <1>13, <1>14, <1>15 DEF WayInv
<1> QED BY <1>3, <1>11, <1>16

\* isend posts message u: the last one of the log, and of the work queue unless the
\* connection is lost.
LEMMA PostKeeps ==
    ASSUME TypeInv, WayInv, NEW u \in Send, IsendPost(u)
    PROVE  WayInv' /\ (SendsNotOvertaken => SendsNotOvertaken')
<1>1. TypeOK /\ LogInv /\ RouteInv /\ AheadInv /\ PrefixInv /\ LiveInv
      BY DEF WayInv, TypeInv
<1>2. PICK p, d \in Proc : p = snd[u].src /\ d = snd[u].dst
      BY DEF IsendPost, TypeInv, Known, SendsKnown, Started, Message
<1>3. PICK wr \in Wr : wr = SendWr(u, "INIT") /\ wr.send = u /\ wr \in InitWr
  <2>1. SendWr(u, "INIT") \in Wr
        BY DEF SendWr, Wr
  <2> QED BY <2>1 DEF SendWr, InitWr
<1>4. /\ isend_pc[u] = "enqueued" /\ isend_pc' = [isend_pc EXCEPT ![u] = "posted"]
      /\ sq' = Posted(p, d, wr)
      /\ slog' = [slog EXCEPT ![p][d] = Append(@, u)]
      /\ UNCHANGED <<snd, rcv, aq, cq, broken, got>>
      BY <1>2, <1>3 DEF IsendPost
<1>5. PICK q \in Seq(Send) : q = slog[p][d]
  <2>1. slog[p][d] \in Seq(Send)
        BY <1>1 DEF TypeOK
  <2> QED BY <2>1
<1>6. PICK a : a = Append(q, u)
      OBVIOUS
<1>7. \A x, y \in Proc : slog'[x][y] = IF x = p /\ y = d THEN a ELSE slog[x][y]
      BY <1>1, <1>4, <1>5, <1>6 DEF TypeOK
<1>8. \A x, y \in Proc : u \notin Logged(x, y)
      BY <1>1, <1>4 DEF LogInv
<1>9. IsInjective(a) /\ Range(a) = Range(q) \cup {u}
  <2>1. IsInjective(q) /\ u \notin Range(q)
        BY <1>1, <1>5, <1>8 DEF LogInv, Logged
  <2> QED BY <1>5, <1>6, <2>1, PutLast
<1>10. \A x, y \in Proc : (x # p \/ y # d) => slog'[x][y] = slog[x][y] /\ Logged(x, y)' = Logged(x, y)
      BY <1>7 DEF Logged
<1>11. Logged(p, d)' = Logged(p, d) \cup {u}
      BY <1>5, <1>7, <1>9 DEF Logged
<1>12. /\ \A s, t : Before(q, s, t) => Before(a, s, t)
       /\ \A s \in Range(q) : Before(a, s, u)
       /\ \A s, t : Before(a, s, t) => Before(q, s, t) \/ (t = u /\ s \in Range(q))
      BY <1>5, <1>6, BeforeAppend
<1>13. slog'[p][d] = a /\ Range(q) = Logged(p, d)
      BY <1>5, <1>7 DEF Logged
<1>14. \A x \in Proc : Waiting(x)' = Waiting(x) /\ Queued(x)' = Queued(x) /\ Came(x)' = Came(x)
      BY <1>4 DEF Waiting, Queued, Came, Taken, InitWc, Wc, Data, Arrived
<1>15. \A x \in Proc : u \notin Waiting(x) /\ u \notin Came(x)
  <2>1. ASSUME NEW x \in Proc PROVE u \notin Waiting(x) \cup Queued(x)
        BY <1>1, <1>8 DEF RouteInv
  <2>2. ~ Taken(u)
    <3>1. ASSUME NEW r \in Recv, got[r] = u PROVE FALSE
      <4>1. u # None
            BY ProtocolAssumption
      <4> QED BY <1>1, <1>8, <3>1, <4>1 DEF RouteInv
    <3> QED BY <3>1 DEF Taken
  <2> QED BY <2>1, <2>2 DEF Came
<1>16. /\ \A x, y \in Proc : \A s, t : Precedes(sq'[x][y], InitWr, s, t) =>
             \/ Precedes(sq[x][y], InitWr, s, t)
             \/ x = p /\ y = d /\ wr.send = t /\ (s \in Send => s \in Leaving(x, y))
       /\ \A x, y \in Proc : (x # p \/ y # d \/ {p, d} \in broken) => sq'[x][y] = sq[x][y]
       /\ \A x, y \in Proc : (x # p \/ y # d \/ {p, d} \in broken) => Leaving(x, y)' = Leaving(x, y)
       /\ {p, d} \notin broken =>
             Leaving(p, d)' = Leaving(p, d) \cup {s \in Send : wr \in InitWr /\ wr.send = s}
  <2>1. SqGrown(p, d, wr)
        BY <1>1, <1>4, SqPosts
  <2> QED BY <2>1 DEF SqGrown
<1>17. /\ \A x, y \in Proc : \A s \in Leaving(x, y)' : s \in Leaving(x, y) \/ (x = p /\ y = d /\ s = u)
       /\ \A x, y \in Proc : Leaving(x, y) \subseteq Leaving(x, y)'
       /\ {p, d} \notin broken => u \in Leaving(p, d)'
  <2>1. CASE {p, d} \in broken
        BY <1>16, <2>1
  <2>2. CASE {p, d} \notin broken
    <3>1. Leaving(p, d)' = Leaving(p, d) \cup {u}
          BY <1>3, <1>16, <2>2
    <3> QED BY <1>16, <2>2, <3>1
  <2> QED BY <2>1, <2>2
<1>18. \A x, y \in Proc : Logged(x, y) \subseteq Send /\ u \notin Leaving(x, y)
      BY <1>1, <1>8, LogFacts DEF RouteInv
<1>19. LogInv'
  <2>1. ASSUME NEW x \in Proc, NEW y \in Proc PROVE IsInjective(slog'[x][y])
        BY <1>1, <1>7, <1>9 DEF LogInv
  <2>2. ASSUME NEW x \in Proc, NEW y \in Proc, NEW s \in Logged(x, y)'
        PROVE  isend_pc'[s] = "posted" /\ snd'[s].src = x /\ snd'[s].dst = y
    <3>1. CASE s = u
      <4>1. x = p /\ y = d
            BY <1>8, <1>10, <2>2, <3>1
      <4> QED BY <1>1, <1>2, <1>4, <3>1, <4>1 DEF TypeOK
    <3>2. CASE s # u
      <4>1. s \in Logged(x, y) /\ s \in Send
            BY <1>10, <1>11, <1>18, <2>2, <3>2
      <4> QED BY <1>1, <1>4, <3>2, <4>1 DEF LogInv, TypeOK
    <3> QED BY <3>1, <3>2
  <2> HIDE DEF Logged
  <2> QED BY <2>1, <2>2 DEF LogInv
<1> HIDE DEF Logged, Waiting, Queued, Leaving, Came
<1>20. \A x, y \in Proc : Logged(x, y) \subseteq Logged(x, y)'
      BY <1>10, <1>11
<1>21. RouteInv'
  <2>1. ASSUME NEW y \in Proc, NEW s \in Waiting(y)' \cup Queued(y)'
        PROVE  \E x \in Proc : s \in Logged(x, y)'
    <3>1. PICK x \in Proc : s \in Logged(x, y)
          BY <1>1, <1>14, <2>1 DEF RouteInv
    <3> QED BY <1>20, <3>1
  <2>2. ASSUME NEW x \in Proc, NEW y \in Proc, NEW s \in Leaving(x, y)' PROVE s \in Logged(x, y)'
    <3>1. CASE s \in Leaving(x, y)
          BY <1>1, <1>20, <3>1 DEF RouteInv
    <3>2. CASE x = p /\ y = d /\ s = u
          BY <1>11, <3>2
    <3> QED BY <1>17, <2>2, <3>1, <3>2
  <2>3. ASSUME NEW r \in Recv, got'[r] # None
        PROVE  rcv'[r] \in Receive /\ \E x, y \in Proc : rcv'[r].at = y /\ got'[r] \in Logged(x, y)'
    <3>1. PICK x, y \in Proc : rcv[r] \in Receive /\ rcv[r].at = y /\ got[r] \in Logged(x, y)
          BY <1>1, <1>4, <2>3 DEF RouteInv
    <3> QED BY <1>4, <1>20, <3>1
  <2>4. \A x, y \in Proc : Leaving(x, y)' \subseteq Logged(x, y)'
        BY <2>2
  <2> QED BY <2>1, <2>3, <2>4 DEF RouteInv
<1>22. ASSUME NEW x \in Proc, NEW y \in Proc, NEW s \in Logged(x, y)', NEW t \in Logged(x, y)',
              Ahead(x, y, s, t)'
       PROVE  Before(slog'[x][y], s, t)
  <2>1. s \in Send /\ t \in Send
        BY <1>10, <1>11, <1>18, <1>22
  <2>2. s # u
    <3>1. ASSUME s = u PROVE FALSE
      <4>1. s \notin Came(y)' /\ s \notin Waiting(y)'
            BY <1>14, <1>15, <3>1
      <4>2. ~ Precedes(aq'[y], Arrived, s, t)
        <5>1. s \notin Queued(y)
              BY <1>15, <3>1 DEF Came
        <5> QED BY <1>4, <2>1, <5>1, PrecedesHas DEF Queued
      <4>3. ~ Precedes(cq'[y], InitWc, s, t)
        <5>1. s \notin Waiting(y)
              BY <1>15, <3>1
        <5> QED BY <1>4, <2>1, <5>1, PrecedesHas DEF Waiting
      <4>4. ~ Precedes(sq'[x][y], InitWr, s, t)
        <5>1. s \notin Leaving(x, y)
              BY <1>18, <3>1
        <5>2. ~ Precedes(sq[x][y], InitWr, s, t)
              BY <2>1, <5>1, PrecedesHas DEF Leaving
        <5> QED BY <1>16, <2>1, <5>1, <5>2
      <4> QED BY <1>22, <4>1, <4>2, <4>3, <4>4 DEF Ahead, InitWc, InitWr, Wc, Wr, Arrived, Data
    <3> QED BY <3>1
  <2>3. s \in Logged(x, y)
        BY <1>10, <1>11, <1>22, <2>2
  <2>4. CASE t = u
    <3>1. x = p /\ y = d
          BY <1>8, <1>10, <1>22, <2>4
    <3> QED BY <1>12, <1>13, <2>3, <2>4, <3>1
  <2>5. CASE t # u
    <3>1. t \in Logged(x, y)
          BY <1>10, <1>11, <1>22, <2>5
    <3>2. Ahead(x, y, s, t)
      <4>1. CASE s \in Came(y)' /\ t \in Waiting(y)' \cup Leaving(x, y)'
        <5>1. t \in Waiting(y) \cup Leaving(x, y)
              BY <1>14, <1>17, <2>5, <4>1
        <5> QED BY <1>14, <4>1, <5>1 DEF Ahead
      <4>2. CASE s \in Waiting(y)' /\ t \in Leaving(x, y)'
        <5>1. t \in Leaving(x, y)
              BY <1>17, <2>5, <4>2
        <5> QED BY <1>14, <4>2, <5>1 DEF Ahead
      <4>3. CASE Precedes(aq'[y], Arrived, s, t) \/ Precedes(cq'[y], InitWc, s, t)
            BY <1>4, <4>3 DEF Ahead
      <4>4. CASE Precedes(sq'[x][y], InitWr, s, t)
            BY <1>3, <1>16, <2>5, <4>4 DEF Ahead
      <4> QED BY <1>22, <4>1, <4>2, <4>3, <4>4 DEF Ahead, InitWc, InitWr, Wc, Wr, Arrived, Data
    <3>3. Before(slog[x][y], s, t)
          BY <1>1, <2>3, <3>1, <3>2 DEF AheadInv
    <3> QED BY <1>5, <1>10, <1>12, <1>13, <3>3
  <2> QED BY <2>4, <2>5
<1>23. AheadInv'
  <2> HIDE DEF Ahead
  <2> QED BY <1>22 DEF AheadInv
<1>24. ASSUME NEW x \in Proc, NEW y \in Proc, NEW s, NEW t, Before(slog'[x][y], s, t), t # u
       PROVE  Before(slog[x][y], s, t)
      BY <1>5, <1>10, <1>12, <1>13, <1>24
<1>25. PrefixInv'
  <2>1. ASSUME NEW x \in Proc, NEW y \in Proc, NEW s, NEW t, Before(slog'[x][y], s, t)
        PROVE  /\ t \in Came(y)' => s \in Came(y)'
               /\ t \in Waiting(y)' => s \in Came(y)' \cup Waiting(y)'
    <3>1. CASE t = u
          BY <1>14, <1>15, <3>1
    <3>2. CASE t # u
      <4>1. Before(slog[x][y], s, t)
            BY <1>24, <2>1, <3>2
      <4>2. s \in Logged(x, y) /\ t \in Logged(x, y)
            BY <1>1, <4>1, LogFacts
      <4> QED BY <1>1, <1>14, <4>1, <4>2 DEF PrefixInv
    <3> QED BY <3>1, <3>2
  <2> QED BY <2>1 DEF PrefixInv
<1>26. LiveInv'
  <2>1. ASSUME NEW x \in Proc, NEW y \in Proc, {x, y} \notin broken', NEW s \in Logged(x, y)'
        PROVE  s \in Came(y)' \cup Waiting(y)' \cup Leaving(x, y)'
    <3>1. CASE s = u
      <4>1. x = p /\ y = d
            BY <1>8, <1>10, <2>1, <3>1
      <4> QED BY <1>4, <1>17, <2>1, <3>1, <4>1
    <3>2. CASE s # u
      <4>1. s \in Logged(x, y)
            BY <1>10, <1>11, <2>1, <3>2
      <4>2. s \in Came(y) \cup Waiting(y) \cup Leaving(x, y)
            BY <1>1, <1>4, <2>1, <4>1 DEF LiveInv
      <4> QED BY <1>14, <1>17, <4>2
    <3> QED BY <3>1, <3>2
  <2>2. ASSUME NEW x \in Proc, NEW y \in Proc, {x, y} \in broken' PROVE sq'[x][y] = <<>>
    <3>1. sq[x][y] = <<>> /\ {x, y} \in broken
          BY <1>1, <1>4, <2>2 DEF LiveInv
    <3>2. sq'[x][y] = sq[x][y]
          BY <1>16, <3>1
    <3> QED BY <3>1, <3>2
  <2>3. \A x, y \in Proc : {x, y} \notin broken' =>
           Logged(x, y)' \subseteq Came(y)' \cup Waiting(y)' \cup Leaving(x, y)'
        BY <2>1
  <2> QED BY <2>2, <2>3 DEF LiveInv
<1>27. ASSUME SendsNotOvertaken PROVE SendsNotOvertaken'
  <2>1. ASSUME NEW r \in Recv, got'[r] # None, NEW s \in Send,
               Before(slog'[snd'[got'[r]].src][snd'[got'[r]].dst], s, got'[r]),
               IsMatched(snd'[s], rcv'[r])
        PROVE  Taken(s)'
    <3>1. PICK x, y \in Proc : got[r] \in Logged(x, y)
          BY <1>1, <1>4, <2>1 DEF RouteInv
    <3>2. x = snd[got[r]].src /\ y = snd[got[r]].dst /\ got[r] # u
          BY <1>1, <1>8, <3>1 DEF LogInv
    <3>3. Before(slog'[x][y], s, got[r])
          BY <1>4, <2>1, <3>2
    <3>4. Before(slog[x][y], s, got[r])
          BY <1>24, <3>2, <3>3
    <3>5. Taken(s)
          BY <1>4, <1>27, <2>1, <3>2, <3>4 DEF SendsNotOvertaken
    <3> QED BY <1>4, <3>5 DEF Taken
  <2> QED BY <2>1 DEF SendsNotOvertaken, IsMatched, MatchField
<1> QED BY <1>19, <1>21, <1>23, <1>25, <1>26, <1>27 DEF WayInv

\* A message that is taken is the first one of its sender that the receive accepts.
LEMMA TakeKeeps ==
    ASSUME TypeOK, LogInv, RouteInv, PostedKept, slog' = slog, SendsNotOvertaken,
           NEW R \in SUBSET Recv, NEW u,
           \A r \in Recv \ R : got'[r] = got[r] /\ (got[r] # None => rcv'[r] = rcv[r]),
           \A r \in R : got[r] = None /\ got'[r] = u,
           R # {} => \E p, d \in Proc :
              /\ u \in Logged(p, d)
              /\ \A s \in Send, r \in R : Before(slog[p][d], s, u) /\ IsMatched(snd[s], rcv'[r])
                                             => Taken(s)
    PROVE  SendsNotOvertaken'
<1>1. ASSUME NEW s, Taken(s), s # None PROVE Taken(s)'
  <2>1. PICK r \in Recv : got[r] = s
        BY <1>1 DEF Taken
  <2>2. r \notin R
        BY <1>1, <2>1
  <2> QED BY <2>1, <2>2 DEF Taken
<1>2. \A p, d \in Proc : \A s \in Logged(p, d) :
         snd'[s] = snd[s] /\ snd[s].src = p /\ snd[s].dst = d
      BY LogKept
<1>3. ASSUME NEW r \in Recv, got'[r] # None, NEW s \in Send,
             Before(slog'[snd'[got'[r]].src][snd'[got'[r]].dst], s, got'[r]),
             IsMatched(snd'[s], rcv'[r])
      PROVE  Taken(s)'
  <2>0. s # None
        BY ProtocolAssumption
  <2>1. CASE r \in R
    <3>1. PICK p, d \in Proc : /\ u \in Logged(p, d)
              /\ \A v \in Send : Before(slog[p][d], v, u) /\ IsMatched(snd[v], rcv'[r]) => Taken(v)
          BY <2>1
    <3>2. got'[r] = u /\ snd'[u].src = p /\ snd'[u].dst = d
          BY <1>2, <2>1, <3>1
    <3>3. Before(slog[p][d], s, u)
          BY <1>3, <3>2
    <3>4. s \in Logged(p, d)
          BY <3>3, LogFacts
    <3>5. snd'[s] = snd[s]
          BY <1>2, <3>4
    <3>6. Taken(s)
          BY <1>3, <3>1, <3>3, <3>5
    <3> QED BY <1>1, <2>0, <3>6
  <2>2. CASE r \notin R
    <3>1. got'[r] = got[r] /\ got[r] # None /\ rcv'[r] = rcv[r]
          BY <1>3, <2>2
    <3>2. PICK v : v = got[r]
          OBVIOUS
    <3>3. PICK p, d \in Proc : v \in Logged(p, d)
          BY <3>1, <3>2 DEF RouteInv
    <3>4. snd'[v] = snd[v] /\ snd[v].src = p /\ snd[v].dst = d
          BY <1>2, <3>3
    <3>5. Before(slog[p][d], s, v)
          BY <1>3, <3>1, <3>2, <3>4
    <3>6. s \in Logged(p, d)
          BY <3>5, LogFacts
    <3>7. snd'[s] = snd[s]
          BY <1>2, <3>6
    <3>8. Taken(s)
          BY <1>3, <3>1, <3>2, <3>4, <3>5, <3>7 DEF SendsNotOvertaken
    <3> QED BY <1>1, <2>0, <3>8
  <2> QED BY <2>1, <2>2
<1> QED BY <1>3 DEF SendsNotOvertaken, IsMatched, MatchField

\* Calls that have posted their message have, and no step rewrites it.
LEMMA NextPostedKept ==
    ASSUME TypeInv, [Next]_vars
    PROVE  PostedKept
<1>1. CallsKept
      BY NextCallsKept
<1>2. \A s \in Send : isend_pc[s] = "posted" => snd'[s] = snd[s]
      BY <1>1 DEF CallsKept, Started
<1>3. ASSUME NEW s \in Send, isend_pc[s] = "posted" PROVE isend_pc'[s] = "posted"
  <2> TypeOK
      BY DEF TypeInv
  <2>1. CASE isend_pc' = isend_pc
        BY <1>3, <2>1
  <2>2. ASSUME NEW p \in Proc, NEW v \in Send, IsendEnq(p, v) PROVE isend_pc'[s] = "posted"
        BY <1>3, <2>2 DEF IsendEnq, TypeOK
  <2>3. ASSUME NEW v \in Send, IsendPost(v) PROVE isend_pc'[s] = "posted"
        BY <1>3, <2>3 DEF IsendPost, TypeOK
  <2>4. ASSUME NEW v \in Send, ReuseSendBuffer(v) PROVE isend_pc' = isend_pc
        BY <2>4 DEF ReuseSendBuffer, app
  <2>5. ASSUME NEW p \in Proc, NEW r \in Recv, Irecv(p, r) PROVE isend_pc' = isend_pc
        BY <2>5 DEF Irecv
  <2>6. ASSUME NEW p \in Proc, PollerStep(p) PROVE isend_pc' = isend_pc
        BY <2>6 DEF PollerStep, PollInit, Deliver, PollRead, SendFin, PollSent, PollFinSent,
                    RemoveSendReq, PollFin, app
  <2>7. ASSUME NEW p \in Proc, NEW d \in Proc, NicStep(p, d) \/ NicComplete(p, d)
        PROVE  isend_pc' = isend_pc
        BY <2>7 DEF NicStep, NicSend, NicRead, NicComplete, app
  <2>8. ASSUME NEW p \in Proc, NEW d \in Proc, Break(p, d) \/ Disconnected(p, d)
        PROVE  isend_pc' = isend_pc
        BY <2>8 DEF Break, Disconnected, app
  <2>9. CASE UNCHANGED vars
        BY <2>1, <2>9 DEF vars, app
  <2> QED BY <2>1, <2>2, <2>3, <2>4, <2>5, <2>6, <2>7, <2>8, <2>9 DEF Next
<1> QED BY <1>2, <1>3 DEF PostedKept

\* Completion queues that keep their messages.
CqSame == CqOrder /\ \A d \in Proc : Waiting(d)' = Waiting(d)

\* Steps that move no message.
LEMMA Stays ==
    ASSUME TypeInv, SendOrderInv, CallsKept, PostedKept, UNCHANGED <<aq, got, slog>>,
           CqSame, SqSame
    PROVE  SendOrderInv'
<1>1. TypeOK /\ WayInv /\ SendsNotOvertaken
      BY DEF TypeInv, SendOrderInv
<1>2. \A r \in Recv : rcv[r] \in Receive => rcv'[r] = rcv[r]
      BY DEF CallsKept
<1>3. \A d \in Proc : /\ Waiting(d)' = Waiting(d) /\ Queued(d)' = Queued(d)
                      /\ \A s, t : Precedes(aq'[d], Arrived, s, t) => Precedes(aq[d], Arrived, s, t)
      BY DEF CqSame, Queued, Arrived, Data
<1>4. SameOrder
      BY DEF CqSame, SameOrder
<1>5. WayInv'
      BY <1>1, <1>2, <1>3, <1>4, StayKeeps
<1>6. SendsNotOvertaken'
  <2>1. PICK R \in SUBSET Recv : R = {}
        OBVIOUS
  <2>2. LogInv /\ RouteInv
        BY <1>1 DEF WayInv
  <2>3. \A r \in Recv \ R : got'[r] = got[r] /\ (got[r] # None => rcv'[r] = rcv[r])
        BY <1>2, <2>2 DEF RouteInv
  <2> QED BY <1>1, <2>1, <2>2, <2>3, TakeKeeps
<1> QED BY <1>5, <1>6 DEF SendOrderInv

\* Queues that do not change.
LEMMA SameQueues ==
    ASSUME LiveInv
    PROVE  /\ cq' = cq => CqSame
           /\ sq' = sq /\ broken' = broken => SqSame
BY DEF CqSame, CqOrder, SqSame, Waiting, Leaving, InitWc, InitWr, Wr, Wc, Data, LiveInv

\* Completions and work requests that are no INIT message.
LEMMA OtherPops ==
    ASSUME TypeOK, NEW p \in Proc, cq[p] # <<>>, cq' = [cq EXCEPT ![p] = Tail(@)],
           Head(cq[p]) \notin InitWc
    PROVE  CqSame
BY CqPops DEF CqSame, CqOrder

LEMMA OtherReports ==
    ASSUME TypeOK, NEW p \in Proc, NEW e \in Wc, cq' = [cq EXCEPT ![p] = Append(@, e)],
           e \notin InitWc
    PROVE  CqSame
BY CqGrows, ZenonT(120) DEF CqSame, CqOrder

LEMMA OtherPosts ==
    ASSUME TypeOK, LiveInv, NEW p \in Proc, NEW d \in Proc, NEW wr \in Wr, wr \notin InitWr,
           sq' = Posted(p, d, wr), broken' = broken
    PROVE  SqSame
<1>1. SqGrown(p, d, wr)
      BY SqPosts
<1>2. \A x, y \in Proc : Leaving(x, y)' = Leaving(x, y)
      BY <1>1 DEF SqGrown
<1>3. \A x, y \in Proc : {x, y} \in broken => sq'[x][y] = <<>>
      BY <1>1, ZenonT(120) DEF SqGrown, LiveInv
<1> QED BY <1>1, <1>2, <1>3 DEF SqGrown, SqSame

LEMMA OtherTaken ==
    ASSUME TypeOK, LiveInv, NEW p \in Proc, NEW d \in Proc, sq[p][d] # <<>>,
           sq' = [sq EXCEPT ![p][d] = Tail(@)], Head(sq[p][d]) \notin InitWr, broken' = broken
    PROVE  SqSame
<1>1. PICK wr : wr = Head(sq[p][d])
      OBVIOUS
<1>2. /\ \A x, y \in Proc : \A s, t : Precedes(sq'[x][y], InitWr, s, t) =>
                                        Precedes(sq[x][y], InitWr, s, t)
      /\ \A x, y \in Proc : (x # p \/ y # d) => /\ Leaving(x, y)' = Leaving(x, y)
                                                /\ sq'[x][y] = sq[x][y]
      /\ Leaving(p, d) = Leaving(p, d)' \cup {s \in Send : wr \in InitWr /\ wr.send = s}
  <2>1. SqShrunk(p, d, wr)
        BY <1>1, SqPops
  <2> QED BY <2>1 DEF SqShrunk
<1>3. Leaving(p, d)' = Leaving(p, d)
      BY <1>1, <1>2
<1>4. {p, d} \notin broken
      BY DEF LiveInv
<1>5. \A x, y \in Proc : {x, y} \in broken => sq'[x][y] = <<>>
      BY <1>2, <1>4, SMTT(60) DEF LiveInv
<1> QED BY <1>2, <1>3, <1>5, ZenonT(120) DEF SqSame

LEMMA BreakLoses ==
    ASSUME TypeOK, LiveInv, NEW p \in Proc, NEW d \in Proc, Break(p, d)
    PROVE  SqSame
<1>1. broken' = broken \cup {{p, d}}
      BY DEF Break
<1>2. \A x, y \in Proc : sq'[x][y] = IF {x, y} = {p, d} THEN <<>> ELSE sq[x][y]
  <2>1. \A x, y \in Proc : {x, y} = {p, d} <=> (x = p /\ y = d) \/ (x = d /\ y = p)
        OBVIOUS
  <2>2. p # d /\ sq' = [sq EXCEPT ![p][d] = <<>>, ![d][p] = <<>>]
        BY DEF Break
  <2> QED BY <2>1, <2>2 DEF TypeOK
<1>3. PICK J : J = InitWr
      OBVIOUS
<1>4. Has(<<>>, J) = {} /\ \A s, t : ~ Precedes(<<>>, J, s, t)
      BY DEF Has, Precedes
<1>5. \A x, y \in Proc : Leaving(x, y) = Has(sq[x][y], J) /\ Leaving(x, y)' = Has(sq'[x][y], J)
      BY <1>3 DEF Leaving, InitWr, Wr
<1>6. ASSUME NEW x \in Proc, NEW y \in Proc
      PROVE  /\ Leaving(x, y)' \subseteq Leaving(x, y)
             /\ {x, y} \notin broken' => Leaving(x, y)' = Leaving(x, y)
             /\ {x, y} \in broken' => sq'[x][y] = <<>>
  <2>1. CASE {x, y} = {p, d}
        BY <1>1, <1>2, <1>4, <1>5, <2>1
  <2>2. CASE {x, y} # {p, d}
    <3>1. sq'[x][y] = sq[x][y]
          BY <1>2, <2>2
    <3>2. {x, y} \in broken' <=> {x, y} \in broken
          BY <1>1, <2>2
    <3> QED BY <1>5, <3>1, <3>2 DEF LiveInv
  <2> QED BY <2>1, <2>2
<1>7. ASSUME NEW x \in Proc, NEW y \in Proc, NEW s, NEW t, Precedes(sq'[x][y], J, s, t)
      PROVE  Precedes(sq[x][y], J, s, t)
  <2>1. sq'[x][y] = sq[x][y]
        BY <1>2, <1>4, <1>7
  <2> QED BY <1>7, <2>1
<1> HIDE DEF Leaving
<1>8. \A x, y \in Proc : \A s, t : Precedes(sq'[x][y], InitWr, s, t) =>
                                     Precedes(sq[x][y], InitWr, s, t)
      BY <1>3, <1>7
<1> QED BY <1>1, <1>6, <1>8 DEF SqSame

\* A step that takes no INIT message from a queue and puts none into one.
Moves ==
    \/ \E s \in Send : IsendPost(s)
    \/ \E p, d \in Proc : NicSend(p, d) /\ Head(sq[p][d]).type = "INIT"
    \/ \E p \in Proc : PollInit(p)
    \/ \E p \in Proc, r \in Recv : Irecv(p, r)

\* Handlers of other completions.
LEMMA PollStays ==
    ASSUME TypeInv, LiveInv, NEW p \in Proc,
           PollRead(p) \/ PollFinSent(p) \/ PollSent(p) \/ PollFin(p)
    PROVE  UNCHANGED <<aq, got, slog>> /\ CqSame /\ SqSame
<1>0. TypeOK
      BY DEF TypeInv
<1>1. UNCHANGED <<aq, got, slog, sq, broken>>
      BY DEF PollRead, PollFinSent, PollSent, PollFin, hist
<1>2. \/ Polled(p, "READ", "INIT") \/ Polled(p, "SEND", "FIN")
      \/ Polled(p, "SEND", "INIT") \/ Polled(p, "RECV", "FIN")
      BY DEF PollRead, PollFinSent, PollSent, PollFin
<1>3. cq[p] # <<>> /\ cq' = [cq EXCEPT ![p] = Tail(@)] /\ Head(cq[p]) \notin InitWc
      BY <1>2 DEF Polled, InitWc
<1> QED BY <1>0, <1>1, <1>3, OtherPops, SameQueues

\* Handlers that post.
LEMMA PostStays ==
    ASSUME TypeInv, LiveInv, NEW p \in Proc, Deliver(p) \/ SendFin(p)
    PROVE  UNCHANGED <<aq, got, slog>> /\ CqSame /\ SqSame
<1>0. TypeOK /\ PollerOK /\ SendsKnown
      BY DEF TypeInv, Known
<1>1. UNCHANGED <<aq, got, slog, cq, broken>>
      BY DEF Deliver, SendFin, hist
<1>2. PICK s, r : s = poller[p].send /\ r = poller[p].recv
      OBVIOUS
<1>3. s \in Send /\ snd[s].src \in Proc
  <2>1. poller[p].pc \in {"matched", "fin"}
        BY DEF Deliver, SendFin
  <2>2. s \in Send /\ Started(s)
        BY <1>0, <1>2, <2>1 DEF PollerOK
  <2> QED BY <1>0, <2>2 DEF SendsKnown, Message
<1>4. \/ sq' = sq
      \/ r \in Recv /\ sq' = Posted(p, snd[s].src, ReadWr(s, r))
      \/ sq' = Posted(p, snd[s].src, SendWr(s, "FIN"))
      BY <1>0, <1>2 DEF Deliver, SendFin, PollerOK
<1>5. SqSame
  <2>1. CASE sq' = sq
        BY <1>1, <2>1, SameQueues
  <2>2. CASE r \in Recv /\ sq' = Posted(p, snd[s].src, ReadWr(s, r))
    <3>1. ReadWr(s, r) \in Wr /\ ReadWr(s, r) \notin InitWr
          BY <1>3, <2>2, WrType DEF ReadWr, InitWr
    <3> QED BY <1>0, <1>1, <1>3, <2>2, <3>1, OtherPosts
  <2>3. CASE sq' = Posted(p, snd[s].src, SendWr(s, "FIN"))
    <3>1. SendWr(s, "FIN") \in Wr /\ SendWr(s, "FIN") \notin InitWr
          BY <1>3 DEF SendWr, InitWr, Wr
    <3> QED BY <1>0, <1>1, <1>3, <2>3, <3>1, OtherPosts
  <2> QED BY <1>4, <2>1, <2>2, <2>3
<1> QED BY <1>1, <1>5, SameQueues

\* The hardware takes or reports other work requests.
LEMMA NicStays ==
    ASSUME TypeInv, LiveInv, NEW p \in Proc, NEW d \in Proc,
           \/ NicRead(p, d) \/ NicComplete(p, d)
           \/ NicSend(p, d) /\ Head(sq[p][d]).type # "INIT"
    PROVE  UNCHANGED <<aq, got, slog>> /\ CqSame /\ SqSame
<1>0. TypeOK
      BY DEF TypeInv
<1>1. UNCHANGED <<aq, got, slog, broken>>
      BY DEF NicRead, NicComplete, NicSend, hist
<1>2. CASE NicRead(p, d)
  <2>1. /\ sq[p][d] # <<>> /\ sq' = [sq EXCEPT ![p][d] = Tail(@)] /\ cq' = cq
        /\ Head(sq[p][d]) \notin InitWr
        BY <1>2 DEF NicRead, InitWr
  <2> QED BY <1>0, <1>1, <2>1, OtherTaken, SameQueues
<1>3. CASE NicComplete(p, d)
  <2>0. done[p][d] \in Seq(Wr) /\ done[p][d] # <<>>
        BY <1>0, <1>3 DEF NicComplete, TypeOK
  <2>1. PICK q : q = done[p][d] /\ q \in Seq(Wr) /\ q # <<>>
        BY <2>0
  <2>2. PICK wr : wr = Head(q)
        OBVIOUS
  <2>3. wr \in Wr
        BY <2>1, <2>2, TailEntries
  <2>4. PICK e : e = [op |-> wr.op, type |-> wr.type, send |-> wr.send, recv |-> wr.recv,
                      data |-> "none"]
        OBVIOUS
  <2>5. e \in Wc /\ e \notin InitWc
        BY <2>3, <2>4 DEF Wr, Wc, Data, InitWc
  <2>6. cq' = [cq EXCEPT ![p] = Append(@, e)] /\ sq' = sq
        BY <1>3, <2>1, <2>2, <2>4 DEF NicComplete
  <2> QED BY <1>0, <1>1, <2>5, <2>6, OtherReports, SameQueues
<1>4. CASE NicSend(p, d) /\ Head(sq[p][d]).type # "INIT"
  <2>0. sq[p][d] \in Seq(Wr) /\ sq[p][d] # <<>>
        BY <1>0, <1>4 DEF NicSend, TypeOK
  <2>1. PICK q : q = sq[p][d] /\ q \in Seq(Wr) /\ q # <<>>
        BY <2>0
  <2>2. PICK wr : wr = Head(q)
        OBVIOUS
  <2>3. wr \in Wr
        BY <2>1, <2>2, TailEntries
  <2>4. wr.send \in Send /\ wr.type = "FIN" /\ wr \notin InitWr
        BY <1>4, <2>1, <2>2, <2>3 DEF Wr, InitWr
  <2>5. PICK e : e = [op |-> "RECV", type |-> wr.type, send |-> wr.send, recv |-> None,
                      data |-> "none"]
        OBVIOUS
  <2>6. e \in Wc /\ e \notin InitWc
        BY <2>4, <2>5 DEF Wc, Data, InitWc
  <2>7. cq' = [cq EXCEPT ![d] = Append(@, e)]
        BY <1>4, <2>1, <2>2, <2>4, <2>5 DEF NicSend
  <2>8. sq' = [sq EXCEPT ![p][d] = Tail(@)]
        BY <1>4 DEF NicSend
  <2>9. CqSame
        BY <1>0, <2>6, <2>7, OtherReports
  <2>10. SqSame
        BY <1>0, <1>1, <2>1, <2>2, <2>4, <2>8, OtherTaken
  <2> QED BY <1>1, <2>9, <2>10
<1> QED BY <1>2, <1>3, <1>4

\* Steps other than the four that move a message keep the order.
LEMMA QuietStep ==
    ASSUME TypeInv, SendOrderInv, [Next]_vars, ~ Moves
    PROVE  SendOrderInv'
<1>0. CallsKept /\ PostedKept /\ LiveInv /\ TypeOK
      BY NextCallsKept, NextPostedKept DEF SendOrderInv, WayInv, TypeInv
<1>1. UNCHANGED <<aq, got, slog>> /\ CqSame /\ SqSame
  <2>1. CASE UNCHANGED <<aq, got, slog, cq, sq, broken>>
        BY <1>0, <2>1, SameQueues
  <2>2. ASSUME NEW p \in Proc, NEW s \in Send, IsendEnq(p, s)
        PROVE  UNCHANGED <<aq, got, slog, cq, sq, broken>>
        BY <2>2 DEF IsendEnq, nic, hist
  <2>3. ASSUME NEW s \in Send, ReuseSendBuffer(s) PROVE UNCHANGED <<aq, got, slog, cq, sq, broken>>
        BY <2>3 DEF ReuseSendBuffer, nic, hist
  <2>4. ASSUME NEW p \in Proc, PollerStep(p)
        PROVE  UNCHANGED <<aq, got, slog>> /\ CqSame /\ SqSame
    <3>1. CASE RemoveSendReq(p)
      <4>1. UNCHANGED <<aq, got, slog, cq, sq, broken>>
            BY <3>1 DEF RemoveSendReq, nic, hist
      <4> QED BY <2>1, <4>1
    <3>2. CASE PollRead(p) \/ PollFinSent(p) \/ PollSent(p) \/ PollFin(p)
          BY <1>0, <3>2, PollStays
    <3>3. CASE Deliver(p) \/ SendFin(p)
          BY <1>0, <3>3, PostStays
    <3>4. ~ PollInit(p)
          BY DEF Moves
    <3> QED BY <2>4, <3>1, <3>2, <3>3, <3>4 DEF PollerStep
  <2>5. ASSUME NEW p \in Proc, NEW d \in Proc, NicStep(p, d) \/ NicComplete(p, d)
        PROVE  UNCHANGED <<aq, got, slog>> /\ CqSame /\ SqSame
    <3>1. \/ NicRead(p, d) \/ NicComplete(p, d)
          \/ NicSend(p, d) /\ Head(sq[p][d]).type # "INIT"
          BY <2>5 DEF NicStep, Moves
    <3> QED BY <1>0, <3>1, NicStays
  <2>6. ASSUME NEW p \in Proc, NEW d \in Proc, Break(p, d)
        PROVE  UNCHANGED <<aq, got, slog>> /\ CqSame /\ SqSame
    <3>1. UNCHANGED <<aq, got, slog, cq>>
          BY <2>6 DEF Break, hist
    <3> QED BY <1>0, <2>6, <3>1, BreakLoses, SameQueues
  <2>7. ASSUME NEW p \in Proc, NEW d \in Proc, Disconnected(p, d)
        PROVE  UNCHANGED <<aq, got, slog, cq, sq, broken>>
        BY <2>7 DEF Disconnected, nic, hist
  <2>8. CASE UNCHANGED vars
        BY <2>1, <2>8 DEF vars, nic, hist
  <2> QED BY <2>1, <2>2, <2>3, <2>4, <2>5, <2>6, <2>7, <2>8 DEF Next, Moves
<1> QED BY <1>0, <1>1, Stays

-----------------------------------------------------------------------------
(* The steps that move a message *)

\* No receive takes a message in the step.
LEMMA NoneTaken ==
    ASSUME TypeInv, SendOrderInv, CallsKept, PostedKept, UNCHANGED <<got, slog>>
    PROVE  SendsNotOvertaken'
<1>1. TypeOK /\ LogInv /\ RouteInv /\ SendsNotOvertaken
      BY DEF TypeInv, SendOrderInv, WayInv
<1>2. PICK R \in SUBSET Recv : R = {}
      OBVIOUS
<1>3. \A r \in Recv \ R : got'[r] = got[r] /\ (got[r] # None => rcv'[r] = rcv[r])
      BY <1>1 DEF RouteInv, CallsKept
<1> QED BY <1>1, <1>2, <1>3, TakeKeeps

\* Receive r takes message u.
LEMMA OneTaken ==
    ASSUME TypeInv, SendOrderInv, CallsKept, PostedKept, slog' = slog,
           NEW r \in Recv, got[r] = None, NEW u \in Send, got' = [got EXCEPT ![r] = u],
           NEW p \in Proc, NEW d \in Proc, u \in Logged(p, d),
           \A s \in Send : Before(slog[p][d], s, u) /\ IsMatched(snd[s], rcv'[r]) => Taken(s)
    PROVE  SendsNotOvertaken'
<1>1. TypeOK /\ LogInv /\ RouteInv /\ SendsNotOvertaken
      BY DEF TypeInv, SendOrderInv, WayInv
<1>2. PICK R \in SUBSET Recv : R = {r}
      OBVIOUS
<1>3. \A x \in Recv \ R : got'[x] = got[x] /\ (got[x] # None => rcv'[x] = rcv[x])
  <2>1. \A x \in Recv : x # r => got'[x] = got[x]
        BY <1>1 DEF TypeOK
  <2> QED BY <1>1, <1>2, <2>1 DEF RouteInv, CallsKept
<1>4. \A x \in R : got[x] = None /\ got'[x] = u
      BY <1>1, <1>2 DEF TypeOK
<1>5. \A s \in Send, x \in R : Before(slog[p][d], s, u) /\ IsMatched(snd[s], rcv'[x]) => Taken(s)
      BY <1>2
<1> QED BY <1>1, <1>3, <1>4, <1>5, TakeKeeps, ZenonT(120)

LEMMA TakenGrows ==
    ASSUME TypeOK, NEW r \in Recv, got[r] = None, NEW u \in Send, got' = [got EXCEPT ![r] = u]
    PROVE  \A s \in Send : Taken(s)' <=> Taken(s) \/ s = u
<1>1. \A x \in Recv : got'[x] = IF x = r THEN u ELSE got[x]
      BY DEF TypeOK
<1>2. ASSUME NEW s \in Send, Taken(s)' PROVE Taken(s) \/ s = u
      BY <1>1, <1>2 DEF Taken
<1>3. ASSUME NEW s \in Send, Taken(s) PROVE Taken(s)'
  <2>1. PICK x \in Recv : got[x] = s
        BY <1>3 DEF Taken
  <2>2. x # r
        BY <2>1, ProtocolAssumption
  <2> QED BY <1>1, <2>1, <2>2 DEF Taken
<1>4. Taken(u)'
      BY <1>1 DEF Taken
<1> QED BY <1>2, <1>3, <1>4

\* The hardware sends the message at the head of a work queue.
LEMMA NicSendOrder ==
    ASSUME TypeInv, SendOrderInv, CallsKept, PostedKept, NEW p \in Proc, NEW d \in Proc,
           NicSend(p, d), Head(sq[p][d]).type = "INIT"
    PROVE  SendOrderInv'
<1>0. TypeOK /\ WayInv
      BY DEF TypeInv, SendOrderInv
<1>1. slog' = slog /\ got' = got /\ aq' = aq /\ broken' = broken
      BY DEF NicSend, hist, app
<1>1b. sq[p][d] # <<>> /\ sq' = [sq EXCEPT ![p][d] = Tail(@)]
      BY DEF NicSend
<1>2. PICK wr : wr = Head(sq[p][d])
      OBVIOUS
<1>2b. SqShrunk(p, d, wr)
      BY <1>0, <1>1b, <1>2, SqPops
<1>3. /\ wr \in Wr
      /\ \A x, y \in Proc : \A s, t : Precedes(sq'[x][y], InitWr, s, t) =>
                                        Precedes(sq[x][y], InitWr, s, t)
      /\ \A x, y \in Proc : (x # p \/ y # d) => /\ Leaving(x, y)' = Leaving(x, y)
                                                /\ sq'[x][y] = sq[x][y]
      /\ Leaving(p, d) = Leaving(p, d)' \cup {s \in Send : wr \in InitWr /\ wr.send = s}
      /\ wr \in InitWr => \A t \in Leaving(p, d)' : Precedes(sq[p][d], InitWr, wr.send, t)
      BY <1>2b DEF SqShrunk
<1>4. PICK u : u = wr.send
      OBVIOUS
<1>5. u \in Send /\ wr.type = "INIT" /\ wr \in InitWr
      BY <1>2, <1>3, <1>4 DEF NicSend, Wr, InitWr
<1>6. \E e \in Wc : /\ cq' = [cq EXCEPT ![d] = Append(@, e)] /\ e.op = "RECV" /\ e.type = "INIT"
                    /\ e.send = u
  <2>1. PICK v : v = IF wr.type = "INIT" /\ snd[wr.send].opcode = "EAGER" THEN sbuf[wr.send] ELSE "none"
        OBVIOUS
  <2>2. sbuf[wr.send] \in {"orig", "reused"}
        BY <1>0, <1>4, <1>5 DEF TypeOK
  <2>3. v \in Data
        BY <2>1, <2>2 DEF Data
  <2>4. PICK e : e = [op |-> "RECV", type |-> wr.type, send |-> wr.send, recv |-> None, data |-> v]
        OBVIOUS
  <2>5. e \in Wc /\ e.op = "RECV" /\ e.type = "INIT" /\ e.send = u
        BY <1>4, <1>5, <2>3, <2>4 DEF Wc
  <2>6. cq' = [cq EXCEPT ![d] = Append(@, e)]
        BY <1>2, <2>1, <2>4 DEF NicSend
  <2> QED BY <2>5, <2>6
<1>7. PICK e \in Wc : /\ cq' = [cq EXCEPT ![d] = Append(@, e)] /\ e.op = "RECV" /\ e.type = "INIT"
                      /\ e.send = u
      BY <1>6
<1>8. e \in InitWc
      BY <1>7 DEF InitWc
<1>9. /\ \A x \in Proc : \A s, t : Precedes(cq'[x], InitWc, s, t) =>
            \/ Precedes(cq[x], InitWc, s, t)
            \/ x = d /\ e \in InitWc /\ e.send = t /\ (s \in Send => s \in Waiting(x))
      /\ \A x \in Proc : x # d => Waiting(x)' = Waiting(x)
      /\ Waiting(d)' = Waiting(d) \cup {s \in Send : e \in InitWc /\ e.send = s}
      BY <1>0, <1>7, CqGrows
<1>10. Waiting(d)' = Waiting(d) \cup {u}
      BY <1>5, <1>7, <1>8, <1>9
<1>11. Leaving(p, d) = Leaving(p, d)' \cup {u}
      BY <1>3, <1>4, <1>5
<1>12. \A t \in Leaving(p, d)' : Precedes(sq[p][d], InitWr, u, t)
      BY <1>3, <1>4, <1>5
<1>13. \A x \in Proc : \A s, t : Precedes(cq'[x], InitWc, s, t) =>
          Precedes(cq[x], InitWc, s, t) \/ (x = d /\ t = u /\ (s \in Send => s \in Waiting(x)))
      BY <1>7, <1>9
<1>14. \A r \in Recv : rcv[r] \in Receive => rcv'[r] = rcv[r]
      BY DEF CallsKept
<1>15. u \in Leaving(p, d)
      BY <1>11
<1>16. WayInv'
  <2> HIDE DEF Leaving, Waiting, Precedes, InitWr, InitWc
  <2>1. Sends(p, d, u)
        BY <1>1, <1>1b, <1>3, <1>9, <1>10, <1>11, <1>12, <1>13, <1>14, <1>15 DEF Sends
  <2> QED BY <1>0, <1>5, <2>1, SendKeeps
<1>17. SendsNotOvertaken'
      BY <1>1, NoneTaken
<1> QED BY <1>16, <1>17 DEF SendOrderInv

\* A message is put into aq.
LEMMA AqGrows ==
    ASSUME TypeOK, NEW p \in Proc, NEW e \in Arrived, NEW u \in Send, u = e.send,
           aq' = [aq EXCEPT ![p] = Append(@, e)]
    PROVE  /\ \A x \in Proc : \A s, t : Precedes(aq'[x], Arrived, s, t) =>
                 Precedes(aq[x], Arrived, s, t) \/ (x = p /\ t = u /\ (s \in Send => s \in Queued(x)))
           /\ \A x \in Proc : x # p => Queued(x)' = Queued(x)
           /\ Queued(p)' = Queued(p) \cup {u}
<1>1. PICK q : q = aq[p] /\ q \in Seq(Arrived)
      BY DEF TypeOK
<1>2. \A x \in Proc : aq'[x] = IF x = p THEN Append(q, e) ELSE aq[x]
      BY <1>1 DEF TypeOK
<1>3. PICK J : J = Arrived
      OBVIOUS
<1>4. /\ Has(Append(q, e), J) = Has(q, J) \cup {s \in Send : e \in J /\ e.send = s}
      /\ \A s, t : Precedes(Append(q, e), J, s, t) =>
            Precedes(q, J, s, t) \/ (e \in J /\ e.send = t /\ (s \in Send => s \in Has(q, J)))
      BY <1>1, AppendOrder
<1>5. \A x \in Proc : Queued(x) = Has(aq[x], J) /\ Queued(x)' = Has(aq'[x], J)
      BY <1>3 DEF Queued, Arrived, Data
<1>6. ASSUME NEW x \in Proc, NEW s, NEW t, Precedes(aq'[x], J, s, t)
      PROVE  Precedes(aq[x], J, s, t) \/ (x = p /\ t = u /\ (s \in Send => s \in Has(aq[x], J)))
  <2>1. CASE x = p
        BY <1>1, <1>2, <1>4, <1>6, <2>1
  <2>2. CASE x # p
        BY <1>2, <1>6, <2>2
  <2> QED BY <2>1, <2>2
<1>7. Has(Append(q, e), J) = Has(q, J) \cup {u}
      BY <1>3, <1>4
<1> HIDE DEF Queued
<1>8. \A x \in Proc : x # p => Queued(x)' = Queued(x)
      BY <1>2, <1>5
<1>9. Queued(p)' = Queued(p) \cup {u}
      BY <1>1, <1>2, <1>5, <1>7
<1> QED BY <1>3, <1>5, <1>6, <1>8, <1>9

\* A message leaves aq.
AqShrunk(p, u) ==
    /\ \A x \in Proc : \A s, t : Precedes(aq'[x], Arrived, s, t) => Precedes(aq[x], Arrived, s, t)
    /\ \A x \in Proc : Queued(x)' \subseteq Queued(x)
    /\ \A x \in Proc : Queued(x) \subseteq Queued(x)' \cup {u}
    /\ u \in Queued(p)

LEMMA AqShrinks ==
    ASSUME TypeOK, NEW p \in Proc, NEW i \in DOMAIN aq[p], NEW u, u = aq[p][i].send,
           aq' = [aq EXCEPT ![p] = RemoveAt(@, i)]
    PROVE  AqShrunk(p, u)
<1>1. PICK q : q = aq[p] /\ q \in Seq(Arrived) /\ i \in DOMAIN q
      BY DEF TypeOK
<1>2. \A x \in Proc : aq'[x] = IF x = p THEN RemoveAt(q, i) ELSE aq[x]
      BY <1>1 DEF TypeOK
<1>3. PICK J : J = Arrived
      OBVIOUS
<1>4. q[i] \in Arrived /\ u = q[i].send /\ u \in Send
  <2>1. q[i] \in Arrived
        BY <1>1, EntryType
  <2> QED BY <1>1, <2>1 DEF Arrived
<1>5. /\ Has(RemoveAt(q, i), J) \subseteq Has(q, J)
      /\ \A s \in Has(q, J) : s \in Has(RemoveAt(q, i), J) \/ s = u
      /\ \A s, t : Precedes(RemoveAt(q, i), J, s, t) => Precedes(q, J, s, t)
      BY <1>1, <1>3, <1>4, RemoveOrder
<1>6. \A x \in Proc : Queued(x) = Has(aq[x], J) /\ Queued(x)' = Has(aq'[x], J)
      BY <1>3 DEF Queued, Arrived, Data
<1>7. \A x \in Proc : \A s, t : Precedes(aq'[x], J, s, t) => Precedes(aq[x], J, s, t)
      BY <1>1, <1>2, <1>5
<1>8. u \in Has(q, J)
      BY <1>1, <1>3, <1>4 DEF Has
<1> HIDE DEF Queued, Has
<1>9. ASSUME NEW x \in Proc
      PROVE  Queued(x)' \subseteq Queued(x) /\ Queued(x) \subseteq Queued(x)' \cup {u}
  <2>1. CASE x = p
        BY <1>1, <1>2, <1>5, <1>6, <2>1
  <2>2. CASE x # p
        BY <1>2, <1>6, <2>2
  <2> QED BY <2>1, <2>2
<1> QED BY <1>1, <1>3, <1>6, <1>7, <1>8, <1>9 DEF AqShrunk

\* The test for FDMI_FORCE discards nothing.
LEMMA NeverDiscarded ==
    ASSUME TypeInv, NEW p \in Proc, NEW s \in Send, Started(s)
    PROVE  ~ Discarded(p, s)
<1>1. snd[s].op \in Nat
  <2>1. snd[s] \in Message
        BY DEF TypeInv, Known, SendsKnown
  <2> QED BY <2>1, ProtocolAssumption DEF Message
<1>2. PICK n \in Nat : n = snd[s].op
      BY <1>1
<1>3. OrForce(n) # 0
  <2>1. CASE (n \div FDMI_FORCE) % 2 = 1
    <3>1. n # 0
          BY <2>1 DEF FDMI_FORCE
    <3> QED BY <2>1, <3>1 DEF OrForce
  <2>2. CASE (n \div FDMI_FORCE) % 2 # 1
        BY <2>2 DEF OrForce, FDMI_FORCE
  <2> QED BY <2>1, <2>2
<1> QED BY <1>2, <1>3 DEF Discarded

\* The two ways in which the poller handles an INIT.
LEMMA PollInitCases ==
    ASSUME TypeInv, NEW p \in Proc, PollInit(p)
    PROVE  \E x \in InitWc : \E u \in Send :
              /\ cq[p] # <<>> /\ x = Head(cq[p]) /\ u = x.send /\ Started(u)
              /\ \/ \E i \in DOMAIN pq[p] :
                       /\ FirstInPq(p, u, i) /\ aq' = aq
                       /\ got' = [got EXCEPT ![pq[p][i]] = u]
                       /\ pq' = [pq EXCEPT ![p] = RemoveAt(@, i)]
                 \/ /\ UNCHANGED <<got, pq>>
                    /\ \E e \in Arrived : e.send = u /\ aq' = [aq EXCEPT ![p] = Append(@, e)]
<1>1. TypeOK /\ CqKnown
      BY DEF TypeInv, Known
<1>2. PICK x : x = Head(cq[p])
      OBVIOUS
<1>3. cq[p] \in Seq(Wc) /\ cq[p] # <<>> /\ x.op = "RECV" /\ x.type = "INIT"
      BY <1>1, <1>2 DEF TypeOK, PollInit, Polled
<1>4. x \in Wc /\ 1 \in DOMAIN cq[p] /\ x = cq[p][1]
      BY <1>2, <1>3, TailEntries
<1>5. PICK u : u = x.send
      OBVIOUS
<1>6. x \in InitWc /\ u \in Send /\ Started(u) /\ x.data \in Data
      BY <1>1, <1>3, <1>4, <1>5 DEF InitWc, Wc, CqKnown
<1>7. ~ Discarded(p, u)
      BY <1>6, NeverDiscarded
<1>8. \/ \E i \in DOMAIN pq[p] :
            /\ FirstInPq(p, u, i) /\ aq' = aq
            /\ got' = [got EXCEPT ![pq[p][i]] = u]
            /\ pq' = [pq EXCEPT ![p] = RemoveAt(@, i)]
      \/ /\ UNCHANGED <<got, pq>>
         /\ aq' = [aq EXCEPT ![p] = Append(@, [send |-> u, data |-> x.data])]
      BY <1>2, <1>5, <1>7 DEF PollInit
<1>9. [send |-> u, data |-> x.data] \in Arrived /\ [send |-> u, data |-> x.data].send = u
      BY <1>6 DEF Arrived
<1> QED BY <1>2, <1>3, <1>5, <1>6, <1>8, <1>9

\* The poller takes message u from its completion queue.
LEMMA PollInitTakes ==
    ASSUME TypeInv, LiveInv, NEW p \in Proc, PollInit(p), NEW x \in InitWc, NEW u \in Send,
           x = Head(cq[p]), u = x.send
    PROVE  /\ UNCHANGED <<slog, broken, rcv>> /\ SameOrder /\ u \in Waiting(p)
           /\ \A y \in Proc : Waiting(y)' \subseteq Waiting(y) /\ Waiting(y) \subseteq Waiting(y)' \cup {u}
           /\ \A t \in Waiting(p)' : Precedes(cq[p], InitWc, u, t)
<1>1. TypeOK
      BY DEF TypeInv
<1>2. UNCHANGED <<slog, broken, rcv, sq>>
      BY DEF PollInit, app
<1>3. cq[p] # <<>> /\ cq' = [cq EXCEPT ![p] = Tail(@)]
      BY DEF PollInit, Polled
<1>4. /\ \A d \in Proc : \A s, t : Precedes(cq'[d], InitWc, s, t) => Precedes(cq[d], InitWc, s, t)
      /\ \A d \in Proc : d # p => Waiting(d)' = Waiting(d)
      /\ Waiting(p) = Waiting(p)' \cup {s \in Send : x \in InitWc /\ x.send = s}
      /\ x \in InitWc => \A t \in Waiting(p)' : Precedes(cq[p], InitWc, x.send, t)
      BY <1>1, <1>3, CqPops
<1>5. Waiting(p) = Waiting(p)' \cup {u}
      BY <1>4
<1>6. SqSame
      BY <1>2, SameQueues
<1>7. SameOrder
      BY <1>4, <1>6 DEF SameOrder, CqOrder
<1>8. \A y \in Proc : Waiting(y)' \subseteq Waiting(y) /\ Waiting(y) \subseteq Waiting(y)' \cup {u}
      BY <1>4, <1>5
<1> QED BY <1>2, <1>4, <1>5, <1>7, <1>8

LEMMA PollInitOrder ==
    ASSUME TypeInv, SendOrderInv, RecvOrderInv, NoLostMatch, CallsKept, PostedKept,
           NEW p \in Proc, PollInit(p)
    PROVE  SendOrderInv'
<1>1. TypeOK /\ WayInv /\ LiveInv
      BY DEF TypeInv, SendOrderInv, WayInv
<1>2. PICK x \in InitWc : \E u \in Send :
         /\ cq[p] # <<>> /\ x = Head(cq[p]) /\ u = x.send /\ Started(u)
         /\ \/ \E i \in DOMAIN pq[p] :
                  /\ FirstInPq(p, u, i) /\ aq' = aq
                  /\ got' = [got EXCEPT ![pq[p][i]] = u]
                  /\ pq' = [pq EXCEPT ![p] = RemoveAt(@, i)]
            \/ /\ UNCHANGED <<got, pq>>
               /\ \E e \in Arrived : e.send = u /\ aq' = [aq EXCEPT ![p] = Append(@, e)]
      BY PollInitCases
<1>3. PICK u \in Send :
         /\ cq[p] # <<>> /\ x = Head(cq[p]) /\ u = x.send /\ Started(u)
         /\ \/ \E i \in DOMAIN pq[p] :
                  /\ FirstInPq(p, u, i) /\ aq' = aq
                  /\ got' = [got EXCEPT ![pq[p][i]] = u]
                  /\ pq' = [pq EXCEPT ![p] = RemoveAt(@, i)]
            \/ /\ UNCHANGED <<got, pq>>
               /\ \E e \in Arrived : e.send = u /\ aq' = [aq EXCEPT ![p] = Append(@, e)]
      BY <1>2
<1>4. /\ UNCHANGED <<slog, broken, rcv>> /\ SameOrder /\ u \in Waiting(p)
      /\ \A y \in Proc : Waiting(y)' \subseteq Waiting(y) /\ Waiting(y) \subseteq Waiting(y)' \cup {u}
      /\ \A t \in Waiting(p)' : Precedes(cq[p], InitWc, u, t)
      BY <1>1, <1>3, PollInitTakes
<1>4b. slog' = slog /\ broken' = broken /\ rcv' = rcv /\ u \in Waiting(p) \cup Queued(p)
      BY <1>4
<1>5. ASSUME NEW e \in Arrived, e.send = u, aq' = [aq EXCEPT ![p] = Append(@, e)], got' = got
      PROVE  SendOrderInv'
  <2>1. /\ \A y \in Proc : \A s, t : Precedes(aq'[y], Arrived, s, t) =>
              Precedes(aq[y], Arrived, s, t) \/ (y = p /\ t = u /\ (s \in Send => s \in Queued(y)))
        /\ \A y \in Proc : y # p => Queued(y)' = Queued(y)
        /\ Queued(p)' = Queued(p) \cup {u}
    <3>1. u = e.send
          BY <1>5
    <3> QED BY <1>1, <1>5, <3>1, AqGrows, Zenon
  <2>2. \A s : Taken(s)' <=> Taken(s)
        BY <1>5 DEF Taken
  <2>3. \A y \in Proc : Queued(y) \subseteq Queued(y)' /\ Queued(y)' \subseteq Queued(y) \cup {u}
        BY <2>1
  <2>4. /\ \A y \in Proc : Came(y) \subseteq Came(y)' /\ Came(y)' \subseteq Came(y) \cup {u}
        /\ u \in Came(p)'
    <3> HIDE DEF Queued, Taken
    <3> QED BY <2>1, <2>2, <2>3 DEF Came
  <2>5. \A y \in Proc : \A s, t : Precedes(aq'[y], Arrived, s, t) =>
              \/ Precedes(aq[y], Arrived, s, t)
              \/ y = p /\ t = u /\ u \in Waiting(p) /\ (s \in Send => s \in Queued(p))
        BY <1>4, <2>1
  <2>6. \A y \in Proc : Queued(y)' \subseteq Queued(y) \cup {s \in Send : y = p /\ s = u}
    <3>1. ASSUME NEW y \in Proc, NEW s \in Queued(y)' PROVE s \in Queued(y) \/ (y = p /\ s = u)
          BY <2>1, <3>1
    <3>2. \A y \in Proc : Queued(y) \subseteq Send
          BY DEF Queued, Has
    <3> HIDE DEF Queued
    <3> QED BY <3>1, <3>2
  <2>7. \A r \in Recv : got'[r] # None =>
           \/ got[r] # None /\ got'[r] = got[r] /\ rcv'[r] = rcv[r]
           \/ got'[r] = u /\ rcv'[r] \in Receive /\ rcv'[r].at = p
        BY <1>4b, <1>5
  <2>8. WayInv'
        BY <1>1, <1>4, <1>4b, <2>4, <2>5, <2>6, <2>7, ArriveKeeps, ZenonT(60)
  <2>9. SendsNotOvertaken'
        BY <1>4, <1>5, NoneTaken
  <2> QED BY <2>8, <2>9 DEF SendOrderInv
<1>6. ASSUME NEW i \in DOMAIN pq[p], FirstInPq(p, u, i), aq' = aq,
             got' = [got EXCEPT ![pq[p][i]] = u]
      PROVE  SendOrderInv'
  <2>1. PICK r : r = pq[p][i]
        OBVIOUS
  <2>2. r \in Recv /\ r \in Range(pq[p])
    <3>1. pq[p] \in Seq(Recv)
          BY <1>1 DEF TypeOK
    <3> QED BY <2>1, <3>1, TakeAt
  <2>3. got[r] = None /\ rcv[r] \in Receive /\ rcv[r].at = p
        BY <2>2 DEF RecvOrderInv
  <2>4. \A s \in Send : Taken(s)' <=> Taken(s) \/ s = u
        BY <1>1, <1>6, <2>1, <2>2, <2>3, TakenGrows
  <2>5. \A y \in Proc : Queued(y)' = Queued(y)
        BY <1>6 DEF Queued, Arrived, Data
  <2>6. /\ \A y \in Proc : Came(y) \subseteq Came(y)' /\ Came(y)' \subseteq Came(y) \cup {u}
        /\ u \in Came(p)'
    <3> HIDE DEF Queued, Taken
    <3> QED BY <2>4, <2>5 DEF Came
  <2>7. \A y \in Proc : \A s, t : Precedes(aq'[y], Arrived, s, t) =>
              \/ Precedes(aq[y], Arrived, s, t)
              \/ y = p /\ t = u /\ u \in Waiting(p) /\ (s \in Send => s \in Queued(p))
        BY <1>6
  <2>8. \A y \in Proc : Queued(y)' \subseteq Queued(y) \cup {s \in Send : y = p /\ s = u}
        BY <2>5
  <2>9. \A z \in Recv : got'[z] # None =>
           \/ got[z] # None /\ got'[z] = got[z] /\ rcv'[z] = rcv[z]
           \/ got'[z] = u /\ rcv'[z] \in Receive /\ rcv'[z].at = p
        BY <1>1, <1>4b, <1>6, <2>1, <2>2, <2>3 DEF TypeOK
  <2>10. WayInv' /\ \E q \in Proc : /\ u \in Logged(q, p)
                                    /\ \A s : Before(slog[q][p], s, u) => s \in Came(p)
        BY <1>1, <1>4, <1>4b, <2>6, <2>7, <2>8, <2>9, ArriveKeeps, ZenonT(60)
  <2>11. PICK q \in Proc : u \in Logged(q, p) /\ \A s : Before(slog[q][p], s, u) => s \in Came(p)
        BY <2>10
  <2>12. ASSUME NEW s \in Send, Before(slog[q][p], s, u), IsMatched(snd[s], rcv'[r]) PROVE Taken(s)
    <3>1. s \in Came(p)
          BY <2>11, <2>12
    <3>2. ASSUME s \in Queued(p) PROVE FALSE
      <4>1. PICK k \in DOMAIN aq[p] : aq[p][k].send = s
            BY <3>2 DEF Queued, Has
      <4>2. ~ IsMatched(snd[s], rcv[r])
            BY <2>1, <4>1 DEF NoLostMatch
      <4> QED BY <1>4b, <2>12, <4>2
    <3> QED BY <3>1, <3>2 DEF Came
  <2>13. SendsNotOvertaken'
        BY <1>4b, <1>6, <2>1, <2>2, <2>3, <2>11, <2>12, OneTaken
  <2> QED BY <2>10, <2>13 DEF SendOrderInv
<1> QED BY <1>3, <1>5, <1>6

\* The two ways in which irecv is answered.
FoundInAq(p, r, q, i) ==
    /\ FirstInAq(p, q, i) /\ aq' = [aq EXCEPT ![p] = RemoveAt(@, i)]
    /\ got' = [got EXCEPT ![r] = aq[p][i].send] /\ pq' = pq /\ SqSame

PutIntoPq(p, r, q) ==
    /\ \A i \in DOMAIN aq[p] : ~ IsMatched(snd[aq[p][i].send], q)
    /\ pq' = [pq EXCEPT ![p] = Append(@, r)] /\ UNCHANGED <<aq, got>> /\ SqSame

LEMMA IrecvCases ==
    ASSUME TypeInv, LiveInv, NEW p \in Proc, NEW r \in Recv, Irecv(p, r)
    PROVE  /\ rcv[r] = None /\ slog' = slog /\ broken' = broken /\ cq' = cq /\ snd' = snd
           /\ rlog' = [rlog EXCEPT ![p] = Append(@, r)]
           /\ \E q \in Receive : /\ q.at = p /\ rcv' = [rcv EXCEPT ![r] = q]
                                 /\ \/ \E i \in DOMAIN aq[p] : FoundInAq(p, r, q, i)
                                    \/ PutIntoPq(p, r, q)
<1>1. TypeOK /\ Known
      BY DEF TypeInv
<1>2. /\ rcv[r] = None /\ slog' = slog /\ broken' = broken /\ cq' = cq /\ snd' = snd
      /\ rlog' = [rlog EXCEPT ![p] = Append(@, r)]
      BY DEF Irecv
<1>3. PICK src \in (Proc \ {p}) \cup {FMI_ANY_SOURCE}, t \in Tag \cup {FMI_ANY_TAG}, c \in Comm :
         LET q == [at |-> p, src |-> src, tag |-> t, comm |-> c] IN
         /\ rcv' = [rcv EXCEPT ![r] = q]
         /\ \/ \E i \in DOMAIN aq[p] : IrecvArrived(p, r, q, i)
            \/ IrecvWaits(p, r, q)
      BY DEF Irecv
<1>4. PICK q : q = [at |-> p, src |-> src, tag |-> t, comm |-> c]
      OBVIOUS
<1>5. q \in Receive /\ q.at = p
      BY <1>4 DEF Receive
<1>6. /\ rcv' = [rcv EXCEPT ![r] = q]
      /\ (\E i \in DOMAIN aq[p] : IrecvArrived(p, r, q, i)) \/ IrecvWaits(p, r, q)
      BY <1>3, <1>4
<1>7. ASSUME NEW i \in DOMAIN aq[p], IrecvArrived(p, r, q, i) PROVE FoundInAq(p, r, q, i)
  <2>1. PICK s : s = aq[p][i].send
        OBVIOUS
  <2>2. s \in Send /\ Started(s)
        BY <1>1, <2>1, EntryType DEF Arrived, Known, AqKnown
  <2>3. snd[s].src \in Proc
        BY <1>1, <2>2 DEF Known, SendsKnown, Message
  <2>4. sq' = sq \/ sq' = Posted(p, snd[s].src, ReadWr(s, r))
        BY <1>7, <2>1 DEF IrecvArrived
  <2>5. ReadWr(s, r) \in Wr /\ ReadWr(s, r) \notin InitWr
        BY <2>2, WrType DEF ReadWr, InitWr
  <2>6. SqSame
        BY <1>1, <1>2, <2>2, <2>3, <2>4, <2>5, OtherPosts, SameQueues
  <2>7. /\ FirstInAq(p, q, i) /\ aq' = [aq EXCEPT ![p] = RemoveAt(@, i)]
        /\ got' = [got EXCEPT ![r] = aq[p][i].send] /\ pq' = pq
        BY <1>7 DEF IrecvArrived
  <2> QED BY <2>6, <2>7 DEF FoundInAq
<1>8. ASSUME IrecvWaits(p, r, q) PROVE PutIntoPq(p, r, q)
  <2>1. SqSame
        BY <1>2, <1>8, SameQueues DEF IrecvWaits
  <2> QED BY <1>8, <2>1 DEF IrecvWaits, PutIntoPq
<1> QED BY <1>2, <1>5, <1>6, <1>7, <1>8

LEMMA IrecvOrder ==
    ASSUME TypeInv, SendOrderInv, RecvOrderInv, CallsKept, PostedKept,
           NEW p \in Proc, NEW r \in Recv, Irecv(p, r)
    PROVE  SendOrderInv'
<1>1. TypeOK /\ WayInv /\ LiveInv /\ LogInv /\ RouteInv /\ AheadInv
      BY DEF TypeInv, SendOrderInv, WayInv
<1>2. rcv[r] = None /\ slog' = slog /\ broken' = broken /\ cq' = cq
      BY <1>1, IrecvCases
<1>3. PICK q \in Receive : /\ q.at = p /\ rcv' = [rcv EXCEPT ![r] = q]
                           /\ \/ \E i \in DOMAIN aq[p] : FoundInAq(p, r, q, i)
                              \/ PutIntoPq(p, r, q)
      BY <1>1, IrecvCases
<1>4. CqSame
      BY <1>1, <1>2, SameQueues
<1>5. CASE PutIntoPq(p, r, q)
  <2>1. UNCHANGED <<aq, got, slog>> /\ SqSame
        BY <1>2, <1>5 DEF PutIntoPq
  <2> QED BY <1>4, <2>1, Stays
<1>6. ASSUME NEW i \in DOMAIN aq[p], FoundInAq(p, r, q, i) PROVE SendOrderInv'
  <2>1. PICK u : u = aq[p][i].send
        OBVIOUS
  <2>2. u \in Send /\ aq[p][i] \in Arrived
        BY <1>1, <2>1, EntryType DEF Arrived
  <2>3. got[r] = None
        BY <1>2 DEF RecvOrderInv
  <2>4. /\ got' = [got EXCEPT ![r] = u] /\ SqSame /\ aq' = [aq EXCEPT ![p] = RemoveAt(@, i)]
        /\ FirstInAq(p, q, i)
        BY <1>6, <2>1 DEF FoundInAq
  <2>5. \A s \in Send : Taken(s)' <=> Taken(s) \/ s = u
        BY <1>1, <2>2, <2>3, <2>4, TakenGrows
  <2>6. /\ \A x \in Proc : \A s, t : Precedes(aq'[x], Arrived, s, t) => Precedes(aq[x], Arrived, s, t)
        /\ \A x \in Proc : Queued(x)' \subseteq Queued(x)
        /\ \A x \in Proc : Queued(x) \subseteq Queued(x)' \cup {u}
        /\ u \in Queued(p)
    <3>1. AqShrunk(p, u)
          BY <1>1, <2>1, <2>4, AqShrinks
    <3> QED BY <3>1 DEF AqShrunk
  <2>7. \A x \in Proc : Queued(x) \subseteq Send
        BY DEF Queued, Has
  <2>8. /\ \A y \in Proc : Came(y) \subseteq Came(y)' /\ Came(y)' \subseteq Came(y) \cup {u}
        /\ u \in Came(p)' /\ u \in Came(p)
    <3> HIDE DEF Queued, Taken
    <3> QED BY <2>2, <2>5, <2>6, <2>7 DEF Came
  <2>9. PICK z \in Proc : u \in Logged(z, p)
        BY <1>1, <2>6 DEF RouteInv
  <2>10. u \notin Waiting(p)
    <3>1. ASSUME u \in Waiting(p) PROVE FALSE
      <4>1. Ahead(z, p, u, u)
            BY <2>8, <3>1 DEF Ahead
      <4>2. Before(slog[z][p], u, u)
            BY <1>1, <2>9, <4>1 DEF AheadInv
      <4> QED BY <1>1, <4>2, LogFacts
    <3> QED BY <3>1
  <2>11. \A x \in Proc : Waiting(x)' \subseteq Waiting(x) /\ Waiting(x) \subseteq Waiting(x)' \cup {u}
        BY <1>4 DEF CqSame
  <2>12. u \in Waiting(p) => \A t \in Waiting(p)' : Precedes(cq[p], InitWc, u, t)
        BY <2>10
  <2>13. SameOrder
        BY <1>4, <2>4 DEF SameOrder, CqSame
  <2>14. \A y \in Proc : \A s, t : Precedes(aq'[y], Arrived, s, t) =>
              \/ Precedes(aq[y], Arrived, s, t)
              \/ y = p /\ t = u /\ u \in Waiting(p) /\ (s \in Send => s \in Queued(p))
        BY <2>6
  <2>15. \A y \in Proc : Queued(y)' \subseteq Queued(y) \cup {s \in Send : y = p /\ s = u}
        BY <2>6
  <2>16. \A x \in Recv : got'[x] # None =>
           \/ got[x] # None /\ got'[x] = got[x] /\ rcv'[x] = rcv[x]
           \/ got'[x] = u /\ rcv'[x] \in Receive /\ rcv'[x].at = p
        BY <1>1, <1>3, <2>3, <2>4 DEF TypeOK
  <2>17. u \in Waiting(p) \cup Queued(p)
        BY <2>6
  <2>18. WayInv' /\ \E y \in Proc : /\ u \in Logged(y, p)
                                    /\ \A s : Before(slog[y][p], s, u) => s \in Came(p)
        BY <1>1, <1>2, <2>2, <2>8, <2>11, <2>12, <2>13, <2>14, <2>15, <2>16, <2>17,
           ArriveKeeps, ZenonT(60)
  <2>19. PICK y \in Proc : u \in Logged(y, p) /\ \A s : Before(slog[y][p], s, u) => s \in Came(p)
        BY <2>18
  <2>20. ASSUME NEW s \in Send, Before(slog[y][p], s, u), IsMatched(snd[s], rcv'[r]) PROVE Taken(s)
    <3>1. s \in Came(p) /\ IsMatched(snd[s], q)
          BY <1>1, <1>3, <2>19, <2>20 DEF TypeOK
    <3>2. ~ Before(slog[y][p], u, s) /\ s # u /\ s \in Logged(y, p)
          BY <1>1, <2>20, LogFacts
    <3>3. ASSUME s \in Queued(p) PROVE FALSE
      <4>1. PICK k \in DOMAIN aq[p] : aq[p][k] \in Arrived /\ aq[p][k].send = s
            BY <3>3 DEF Queued, Has
      <4>2. DOMAIN aq[p] \subseteq Nat /\ k # i
        <5>1. aq[p] \in Seq(Arrived)
              BY <1>1 DEF TypeOK
        <5> QED BY <2>1, <3>2, <4>1, <5>1, LenProperties
      <4>3. ~ (k < i)
        <5>1. k \in Nat /\ i \in Nat /\ k # 0
          <6>1. aq[p] \in Seq(Arrived)
                BY <1>1 DEF TypeOK
          <6> QED BY <4>1, <6>1, LenProperties
        <5>2. k < i => k \in 1 .. i - 1
              BY <5>1
        <5> QED BY <2>4, <3>1, <4>1, <5>2 DEF FirstInAq
      <4>4. i < k
            BY <4>1, <4>2, <4>3
      <4>5. Precedes(aq[p], Arrived, u, s)
            BY <2>1, <2>2, <4>1, <4>4 DEF Precedes
      <4>6. Before(slog[y][p], u, s)
            BY <1>1, <2>19, <3>2, <4>5 DEF AheadInv, Ahead
      <4> QED BY <3>2, <4>6
    <3> QED BY <3>1, <3>3 DEF Came
  <2>21. SendsNotOvertaken'
        BY <1>2, <2>2, <2>3, <2>4, <2>19, <2>20, OneTaken
  <2> QED BY <2>18, <2>21 DEF SendOrderInv
<1> QED BY <1>3, <1>5, <1>6

\* Every step keeps the order of the messages.
LEMMA NextSendOrder ==
    ASSUME TypeInv, SendOrderInv, RecvOrderInv, NoLostMatch, [Next]_vars
    PROVE  SendOrderInv'
<1>1. CallsKept /\ PostedKept
      BY NextCallsKept, NextPostedKept
<1>2. CASE Moves
  <2>1. ASSUME NEW s \in Send, IsendPost(s) PROVE SendOrderInv'
        BY <2>1, PostKeeps DEF SendOrderInv
  <2>2. ASSUME NEW p \in Proc, NEW d \in Proc, NicSend(p, d), Head(sq[p][d]).type = "INIT"
        PROVE  SendOrderInv'
        BY <1>1, <2>2, NicSendOrder
  <2>3. ASSUME NEW p \in Proc, PollInit(p) PROVE SendOrderInv'
        BY <1>1, <2>3, PollInitOrder
  <2>4. ASSUME NEW p \in Proc, NEW r \in Recv, Irecv(p, r) PROVE SendOrderInv'
        BY <1>1, <2>4, IrecvOrder
  <2> QED BY <1>2, <2>1, <2>2, <2>3, <2>4 DEF Moves
<1> QED BY <1>2, QuietStep

-----------------------------------------------------------------------------
(* The order of the receives *)

\* What RecvOrderInv says of one process.
CallOrder(p) ==
    /\ IsInjective(rlog[p])
    /\ \A r \in Range(rlog[p]) : rcv[r] \in Receive /\ rcv[r].at = p
    /\ \A r \in Range(pq[p]) : r \in Range(rlog[p]) /\ got[r] = None
    /\ \A r \in Range(rlog[p]) : got[r] = None => r \in Range(pq[p])
    /\ \A x, y \in Recv : Before(pq[p], x, y) => Before(rlog[p], x, y)

\* A receive waits once.
LEMMA PqInjective ==
    ASSUME TypeOK, NEW p \in Proc, CallOrder(p)
    PROVE  /\ pq[p] \in Seq(Recv) /\ rlog[p] \in Seq(Recv) /\ IsInjective(pq[p])
           /\ Range(pq[p]) \subseteq Recv /\ Range(rlog[p]) \subseteq Recv
<1>1. pq[p] \in Seq(Recv) /\ rlog[p] \in Seq(Recv)
      BY DEF TypeOK
<1>2. Range(pq[p]) \subseteq Recv /\ Range(rlog[p]) \subseteq Recv
      BY <1>1, ElementOfSeq, LenProperties DEF Range
<1>3. ASSUME NEW i \in DOMAIN pq[p], NEW j \in DOMAIN pq[p], i < j, pq[p][i] = pq[p][j] PROVE FALSE
  <2>1. Before(pq[p], pq[p][i], pq[p][i]) /\ pq[p][i] \in Recv
        BY <1>1, <1>3, ElementOfSeq, LenProperties DEF Before
  <2>2. Before(rlog[p], pq[p][i], pq[p][i])
        BY <2>1 DEF CallOrder
  <2> QED BY <1>1, <2>2, BeforeStrict DEF CallOrder
<1>4. DOMAIN pq[p] \subseteq Int
      BY <1>1, LenProperties
<1>5. ASSUME NEW i \in DOMAIN pq[p], NEW j \in DOMAIN pq[p], pq[p][i] = pq[p][j] PROVE i = j
  <2>1. ~ (i < j) /\ ~ (j < i)
        BY <1>3, <1>5
  <2> QED BY <1>4, <2>1
<1> QED BY <1>1, <1>2, <1>5 DEF IsInjective

\* What was matched stays as it was.
LEMMA GotKept ==
    ASSUME TypeInv, SendOrderInv, PostedKept, NEW r \in Recv, got[r] # None
    PROVE  snd'[got[r]] = snd[got[r]] /\ got[r] \in Send /\ rcv[r] \in Receive
<1>1. TypeOK /\ LogInv /\ RouteInv
      BY DEF TypeInv, SendOrderInv, WayInv
<1>2. got[r] \in Send
      BY <1>1 DEF TypeOK
<1>3. PICK p, d \in Proc : rcv[r] \in Receive /\ got[r] \in Logged(p, d)
      BY <1>1 DEF RouteInv
<1>4. isend_pc[got[r]] = "posted"
      BY <1>1, <1>3 DEF LogInv
<1> QED BY <1>2, <1>3, <1>4 DEF PostedKept

\* Steps that neither make nor answer a receive.
LEMMA RecvStays ==
    ASSUME TypeInv, SendOrderInv, RecvOrderInv, RecvsNotOvertaken, PostedKept,
           UNCHANGED <<pq, got, rcv, rlog>>
    PROVE  RecvOrderInv' /\ RecvsNotOvertaken'
<1>1. RecvOrderInv'
      BY DEF RecvOrderInv, Before, Receive, IsInjective, Range
<1>2. ASSUME NEW r1 \in Recv, NEW r2 \in Recv, got'[r2] # None,
             NEW p \in Proc, Before(rlog'[p], r1, r2), IsMatched(snd'[got'[r2]], rcv'[r1])
      PROVE  got'[r1] # None
  <2>1. snd'[got[r2]] = snd[got[r2]]
        BY <1>2, GotKept
  <2> QED BY <1>2, <2>1 DEF RecvsNotOvertaken
<1> QED BY <1>1, <1>2 DEF RecvsNotOvertaken, IsMatched, MatchField, Before

\* The first waiting receive that accepts the message gets it.
LEMMA MatchedRecv ==
    ASSUME TypeInv, SendOrderInv, RecvOrderInv, RecvsNotOvertaken, PostedKept,
           NEW p \in Proc, NEW i \in DOMAIN pq[p], NEW u \in Send, FirstInPq(p, u, i),
           snd' = snd, rcv' = rcv, rlog' = rlog,
           got' = [got EXCEPT ![pq[p][i]] = u], pq' = [pq EXCEPT ![p] = RemoveAt(@, i)]
    PROVE  RecvOrderInv' /\ RecvsNotOvertaken'
<1>0. TypeOK
      BY DEF TypeInv
<1>1. \A y \in Proc : CallOrder(y)
      BY DEF RecvOrderInv, CallOrder
<1>2. \A y \in Proc : /\ pq[y] \in Seq(Recv) /\ rlog[y] \in Seq(Recv) /\ IsInjective(pq[y])
                      /\ Range(pq[y]) \subseteq Recv /\ Range(rlog[y]) \subseteq Recv
      BY <1>0, <1>1, PqInjective
<1>3. PICK r : r = pq[p][i]
      OBVIOUS
<1>4. PICK q : q = RemoveAt(pq[p], i)
      OBVIOUS
<1>5. r \in Recv /\ r \in Range(pq[p]) /\ Range(q) = Range(pq[p]) \ {r}
      BY <1>2, <1>3, <1>4, TakeAt
<1>6. r \in Range(rlog[p]) /\ got[r] = None /\ rcv[r] \in Receive /\ rcv[r].at = p
      BY <1>1, <1>5 DEF CallOrder
<1>7. \A x \in Recv : got'[x] = IF x = r THEN u ELSE got[x]
      BY <1>0, <1>3 DEF TypeOK
<1>8. u # None
      BY ProtocolAssumption
<1>9. \A y \in Proc : pq'[y] = IF y = p THEN q ELSE pq[y]
      BY <1>0, <1>4 DEF TypeOK
<1>10. \A y \in Proc : y # p => r \notin Range(rlog[y])
      BY <1>1, <1>6 DEF CallOrder
<1>11. ASSUME NEW y \in Proc PROVE CallOrder(y)'
  <2>1. /\ IsInjective(rlog'[y])
        /\ \A x \in Range(rlog'[y]) : rcv'[x] \in Receive /\ rcv'[x].at = y
        BY <1>1 DEF CallOrder
  <2>2. Range(pq'[y]) = Range(pq[y]) \ {r}
    <3>1. CASE y = p
          BY <1>5, <1>9, <3>1
    <3>2. CASE y # p
          BY <1>1, <1>9, <1>10, <3>2 DEF CallOrder
    <3> QED BY <3>1, <3>2
  <2>3. \A x \in Range(pq'[y]) : x \in Range(rlog'[y]) /\ got'[x] = None
        BY <1>1, <1>2, <1>7, <2>2 DEF CallOrder
  <2>4. \A x \in Range(rlog'[y]) : got'[x] = None => x \in Range(pq'[y])
        BY <1>1, <1>2, <1>7, <1>8, <2>2 DEF CallOrder
  <2>5. ASSUME NEW x \in Recv, NEW z \in Recv, Before(pq'[y], x, z) PROVE Before(rlog'[y], x, z)
    <3>1. Before(pq[y], x, z)
      <4>1. CASE y = p
        <5>1. \A v, w : Before(q, v, w) => Before(pq[p], v, w)
              BY <1>2, <1>4, BeforeRemove
        <5> QED BY <1>9, <2>5, <4>1, <5>1
      <4>2. CASE y # p
            BY <1>9, <2>5, <4>2
      <4> QED BY <4>1, <4>2
    <3> QED BY <1>1, <3>1 DEF CallOrder
  <2> QED BY <2>1, <2>3, <2>4, <2>5 DEF CallOrder, Before, Receive, IsInjective, Range
<1>12. \A x \in Recv : rcv'[x] = None => got'[x] = None
      BY <1>6, <1>7, NoneAssumption DEF RecvOrderInv
<1>13. RecvOrderInv'
  <2> HIDE DEF Receive, IsInjective, Range, Before
  <2> QED BY <1>11, <1>12 DEF RecvOrderInv, CallOrder
<1>14. ASSUME NEW r1 \in Recv, NEW r2 \in Recv, got'[r2] # None, got'[r1] = None,
              NEW y \in Proc, Before(rlog[y], r1, r2), IsMatched(snd[got'[r2]], rcv[r1])
       PROVE  FALSE
  <2>1. got[r1] = None /\ r1 # r
        BY <1>7, <1>8, <1>14
  <2>2. CASE r2 # r
    <3>1. got'[r2] = got[r2]
          BY <1>7, <2>2
    <3> QED BY <1>14, <2>1, <3>1 DEF RecvsNotOvertaken
  <2>3. CASE r2 = r
    <3>1. r1 \in Range(rlog[y]) /\ r2 \in Range(rlog[y])
          BY <1>2, <1>14, BeforeRange
    <3>2. y = p
          BY <1>10, <2>3, <3>1
    <3>3. r1 \in Range(pq[p])
          BY <1>1, <2>1, <3>1, <3>2 DEF CallOrder
    <3>4. PICK j \in DOMAIN pq[p] : pq[p][j] = r1
          BY <3>3 DEF Range
    <3>5. IsMatched(snd[u], rcv[pq[p][j]])
          BY <1>7, <1>14, <2>3, <3>4
    <3>6. i \in Nat /\ j \in Nat /\ j # 0
          BY <1>2, <3>4, LenProperties
    <3>7. ~ (j < i)
      <4>1. j < i => j \in 1 .. i - 1
            BY <3>6
      <4> QED BY <3>5, <4>1 DEF FirstInPq
    <3>8. i < j
          BY <1>3, <2>1, <3>4, <3>6, <3>7
    <3>9. Before(pq[p], r, r1)
          BY <1>3, <3>4, <3>8 DEF Before
    <3>10. Before(rlog[p], r, r1)
          BY <1>1, <1>5, <3>9 DEF CallOrder
    <3>11. IsInjective(rlog[p]) /\ Before(rlog[p], r1, r)
          BY <1>1, <1>14, <2>3, <3>2 DEF CallOrder
    <3> QED BY <1>2, <3>10, <3>11, BeforeStrict
  <2> QED BY <2>2, <2>3
<1>15. RecvsNotOvertaken'
  <2> HIDE DEF IsMatched, Before
  <2>1. ASSUME NEW r1 \in Recv, NEW r2 \in Recv, got'[r2] # None,
               NEW y \in Proc, Before(rlog'[y], r1, r2), IsMatched(snd'[got'[r2]], rcv'[r1])
        PROVE  got'[r1] # None
        BY <1>14, <2>1
  <2> QED BY <2>1 DEF RecvsNotOvertaken, IsMatched, MatchField, Before
<1> QED BY <1>13, <1>15

\* A receive comes last in the log of its process.
LEMMA NewRecv ==
    ASSUME TypeInv, SendOrderInv, RecvOrderInv, RecvsNotOvertaken, NoLostMatch, PostedKept,
           NEW p \in Proc, NEW r \in Recv, Irecv(p, r)
    PROVE  RecvOrderInv' /\ RecvsNotOvertaken'
<1>0. TypeOK /\ LiveInv
      BY DEF TypeInv, SendOrderInv, WayInv
<1>1. \A y \in Proc : CallOrder(y)
      BY DEF RecvOrderInv, CallOrder
<1>2. \A y \in Proc : /\ pq[y] \in Seq(Recv) /\ rlog[y] \in Seq(Recv) /\ IsInjective(pq[y])
                      /\ Range(pq[y]) \subseteq Recv /\ Range(rlog[y]) \subseteq Recv
      BY <1>0, <1>1, PqInjective
<1>3. rcv[r] = None /\ snd' = snd /\ rlog' = [rlog EXCEPT ![p] = Append(@, r)]
      BY <1>0, IrecvCases
<1>4. PICK q \in Receive : /\ q.at = p /\ rcv' = [rcv EXCEPT ![r] = q]
                           /\ \/ \E i \in DOMAIN aq[p] : FoundInAq(p, r, q, i)
                              \/ PutIntoPq(p, r, q)
      BY <1>0, IrecvCases
<1>5. PICK l : l = Append(rlog[p], r)
      OBVIOUS
<1>6. got[r] = None /\ \A y \in Proc : r \notin Range(rlog[y]) /\ r \notin Range(pq[y])
      BY <1>1, <1>3, NoneAssumption DEF RecvOrderInv, CallOrder
<1>7. Range(l) = Range(rlog[p]) \cup {r} /\ IsInjective(l)
      BY <1>1, <1>2, <1>5, <1>6, PutLast DEF CallOrder
<1>8. /\ \A x, y : Before(rlog[p], x, y) => Before(l, x, y)
      /\ \A x \in Range(rlog[p]) : Before(l, x, r)
      /\ \A x, y : Before(l, x, y) => Before(rlog[p], x, y) \/ (y = r /\ x \in Range(rlog[p]))
      BY <1>2, <1>5, BeforeAppend
<1>9. \A y \in Proc : rlog'[y] = IF y = p THEN l ELSE rlog[y]
      BY <1>0, <1>3, <1>5 DEF TypeOK
<1>10. \A x \in Recv : rcv'[x] = IF x = r THEN q ELSE rcv[x]
      BY <1>0, <1>4 DEF TypeOK
<1>11. \A x \in Recv : x # r => got'[x] = got[x]
      BY <1>0, <1>4 DEF TypeOK, FoundInAq, PutIntoPq
<1>12. \A y \in Proc : Range(rlog'[y]) = Range(rlog[y]) \cup {x \in Recv : y = p /\ x = r}
      BY <1>7, <1>9
<1>13. \A x \in Recv : rcv'[x] = None => got'[x] = None
      BY <1>4, <1>10, <1>11, NoneAssumption DEF RecvOrderInv
<1>14. ASSUME NEW y \in Proc
       PROVE  /\ IsInjective(rlog'[y])
              /\ \A x \in Range(rlog'[y]) : rcv'[x] \in Receive /\ rcv'[x].at = y
  <2>1. IsInjective(rlog'[y])
        BY <1>1, <1>7, <1>9 DEF CallOrder
  <2>2. ASSUME NEW x \in Range(rlog'[y]) PROVE rcv'[x] \in Receive /\ rcv'[x].at = y
    <3>1. CASE x = r
      <4>1. y = p
            BY <1>6, <1>12, <2>2, <3>1
      <4> QED BY <1>4, <1>10, <3>1, <4>1
    <3>2. CASE x # r
      <4>1. x \in Range(rlog[y]) /\ x \in Recv
            BY <1>2, <1>12, <2>2, <3>2
      <4> QED BY <1>1, <1>10, <3>2, <4>1 DEF CallOrder
    <3> QED BY <3>1, <3>2
  <2> QED BY <2>1, <2>2
<1>15. ASSUME NEW y \in Proc, NEW x, NEW z, Before(rlog[y], x, z) PROVE Before(rlog'[y], x, z)
  <2>1. CASE y = p
        BY <1>8, <1>9, <1>15, <2>1
  <2>2. CASE y # p
        BY <1>9, <1>15, <2>2
  <2> QED BY <2>1, <2>2
<1>16. CASE PutIntoPq(p, r, q)
  <2>1. PICK k : k = Append(pq[p], r)
        OBVIOUS
  <2>2. \A y \in Proc : pq'[y] = IF y = p THEN k ELSE pq[y]
        BY <1>0, <1>16, <2>1 DEF TypeOK, PutIntoPq
  <2>3. Range(k) = Range(pq[p]) \cup {r}
        BY <1>2, <2>1, PutLast
  <2>4. \A x, y : Before(k, x, y) => Before(pq[p], x, y) \/ (y = r /\ x \in Range(pq[p]))
        BY <1>2, <2>1, BeforeAppend
  <2>5. got' = got
        BY <1>16 DEF PutIntoPq
  <2>6. \A y \in Proc : Range(pq'[y]) = Range(pq[y]) \cup {x \in Recv : y = p /\ x = r}
        BY <2>2, <2>3
  <2>7. ASSUME NEW y \in Proc PROVE CallOrder(y)'
    <3>1. \A x \in Range(pq'[y]) : x \in Range(rlog'[y]) /\ got'[x] = None
          BY <1>1, <1>6, <1>12, <2>5, <2>6 DEF CallOrder
    <3>2. \A x \in Range(rlog'[y]) : got'[x] = None => x \in Range(pq'[y])
          BY <1>1, <1>12, <2>5, <2>6 DEF CallOrder
    <3>3. ASSUME NEW x \in Recv, NEW z \in Recv, Before(pq'[y], x, z) PROVE Before(rlog'[y], x, z)
      <4>1. CASE Before(pq[y], x, z)
            BY <1>1, <1>15, <4>1 DEF CallOrder
      <4>2. CASE y = p /\ z = r /\ x \in Range(pq[p])
            BY <1>1, <1>8, <1>9, <4>2 DEF CallOrder
      <4> QED BY <2>2, <2>4, <3>3, <4>1, <4>2
    <3> QED BY <1>14, <3>1, <3>2, <3>3 DEF CallOrder, Before, Receive, IsInjective, Range
  <2> HIDE DEF CallOrder
  <2>8. RecvOrderInv'
    <3> HIDE DEF Receive, IsInjective, Range, Before
    <3> QED BY <1>13, <2>7 DEF RecvOrderInv, CallOrder
  <2>9. ASSUME NEW r1 \in Recv, NEW r2 \in Recv, got[r2] # None,
               NEW y \in Proc, Before(rlog'[y], r1, r2), IsMatched(snd[got[r2]], rcv'[r1])
        PROVE  got[r1] # None
    <3>1. r2 # r
          BY <1>6, <2>9
    <3>2. Before(rlog[y], r1, r2)
          BY <1>8, <1>9, <2>9, <3>1
    <3>3. r1 # r
          BY <1>2, <1>6, <3>2, BeforeRange
    <3> QED BY <1>10, <2>9, <3>2, <3>3 DEF RecvsNotOvertaken
  <2> QED BY <1>3, <2>5, <2>8, <2>9 DEF RecvsNotOvertaken, IsMatched, MatchField, Before
<1>17. ASSUME NEW i \in DOMAIN aq[p], FoundInAq(p, r, q, i)
       PROVE  RecvOrderInv' /\ RecvsNotOvertaken'
  <2>1. PICK u : u = aq[p][i].send
        OBVIOUS
  <2>2. u \in Send /\ u # None
        BY <1>0, <2>1, EntryType, ProtocolAssumption DEF Arrived
  <2>3. got'[r] = u /\ pq' = pq
        BY <1>0, <1>17, <2>1 DEF FoundInAq, TypeOK
  <2>4. ASSUME NEW y \in Proc PROVE CallOrder(y)'
    <3>1. \A x \in Range(pq'[y]) : x \in Range(rlog'[y]) /\ got'[x] = None
          BY <1>1, <1>2, <1>6, <1>11, <1>12, <2>3 DEF CallOrder
    <3>2. \A x \in Range(rlog'[y]) : got'[x] = None => x \in Range(pq'[y])
          BY <1>1, <1>2, <1>11, <1>12, <2>2, <2>3, SMTT(60) DEF CallOrder
    <3>3. ASSUME NEW x \in Recv, NEW z \in Recv, Before(pq'[y], x, z) PROVE Before(rlog'[y], x, z)
          BY <1>1, <1>15, <2>3, <3>3 DEF CallOrder
    <3> QED BY <1>14, <3>1, <3>2, <3>3 DEF CallOrder, Before, Receive, IsInjective, Range
  <2> HIDE DEF CallOrder
  <2>5. RecvOrderInv'
    <3> HIDE DEF Receive, IsInjective, Range, Before
    <3> QED BY <1>13, <2>4 DEF RecvOrderInv, CallOrder
  <2>6. ASSUME NEW r1 \in Recv, NEW r2 \in Recv, got'[r2] # None, got'[r1] = None,
               NEW y \in Proc, Before(rlog'[y], r1, r2), IsMatched(snd[got'[r2]], rcv'[r1])
        PROVE  FALSE
    <3>1. r1 # r /\ got[r1] = None
          BY <1>11, <2>2, <2>3, <2>6
    <3>2. CASE r2 # r
      <4>1. Before(rlog[y], r1, r2) /\ got'[r2] = got[r2]
            BY <1>8, <1>9, <1>11, <2>6, <3>2
      <4> QED BY <1>10, <2>6, <3>1, <4>1 DEF RecvsNotOvertaken
    <3>3. CASE r2 = r
      <4>1. y = p /\ r1 \in Range(rlog[p])
        <5>1. CASE y = p
              BY <1>2, <1>6, <1>8, <1>9, <2>6, <3>3, <5>1, BeforeRange
        <5>2. CASE y # p
          <6>1. Before(rlog[y], r1, r)
                BY <1>9, <2>6, <3>3, <5>2
          <6> QED BY <1>2, <1>6, <6>1, BeforeRange
        <5> QED BY <5>1, <5>2
      <4>2. r1 \in Range(pq[p])
            BY <1>1, <3>1, <4>1 DEF CallOrder
      <4>3. PICK j \in DOMAIN pq[p] : pq[p][j] = r1
            BY <4>2 DEF Range
      <4>4. ~ IsMatched(snd[u], rcv[r1])
            BY <2>1, <4>3 DEF NoLostMatch
      <4> QED BY <1>10, <2>3, <2>6, <3>1, <3>3, <4>4
    <3> QED BY <3>2, <3>3
  <2>7. ASSUME NEW r1 \in Recv, NEW r2 \in Recv, got'[r2] # None,
               NEW y \in Proc, Before(rlog'[y], r1, r2), IsMatched(snd'[got'[r2]], rcv'[r1])
        PROVE  got'[r1] # None
        BY <1>3, <2>6, <2>7
  <2> QED BY <2>5, <2>7 DEF RecvsNotOvertaken, IsMatched, MatchField, Before
<1> QED BY <1>4, <1>16, <1>17

\* Every step keeps the order of the receives.
LEMMA NextRecvOrder ==
    ASSUME TypeInv, SendOrderInv, RecvOrderInv, RecvsNotOvertaken, NoLostMatch, [Next]_vars
    PROVE  RecvOrderInv' /\ RecvsNotOvertaken'
<1>1. PostedKept
      BY NextPostedKept
<1>2. CASE UNCHANGED <<pq, got, rcv, rlog>>
      BY <1>1, <1>2, RecvStays
<1>3. ASSUME NEW p \in Proc, NEW r \in Recv, Irecv(p, r) PROVE RecvOrderInv' /\ RecvsNotOvertaken'
      BY <1>1, <1>3, NewRecv
<1>4. ASSUME NEW p \in Proc, PollInit(p) PROVE RecvOrderInv' /\ RecvsNotOvertaken'
  <2>1. snd' = snd /\ rcv' = rcv /\ rlog' = rlog
        BY <1>4 DEF PollInit, app
  <2>2. PICK x \in InitWc : \E u \in Send :
         /\ cq[p] # <<>> /\ x = Head(cq[p]) /\ u = x.send /\ Started(u)
         /\ \/ \E i \in DOMAIN pq[p] :
                  /\ FirstInPq(p, u, i) /\ aq' = aq
                  /\ got' = [got EXCEPT ![pq[p][i]] = u]
                  /\ pq' = [pq EXCEPT ![p] = RemoveAt(@, i)]
            \/ /\ UNCHANGED <<got, pq>>
               /\ \E e \in Arrived : e.send = u /\ aq' = [aq EXCEPT ![p] = Append(@, e)]
        BY <1>4, PollInitCases
  <2>3. \/ UNCHANGED <<got, pq>>
        \/ \E u \in Send, i \in DOMAIN pq[p] :
              /\ FirstInPq(p, u, i)
              /\ got' = [got EXCEPT ![pq[p][i]] = u]
              /\ pq' = [pq EXCEPT ![p] = RemoveAt(@, i)]
        BY <2>2
  <2>4. ASSUME NEW u \in Send, NEW i \in DOMAIN pq[p], FirstInPq(p, u, i),
               got' = [got EXCEPT ![pq[p][i]] = u], pq' = [pq EXCEPT ![p] = RemoveAt(@, i)]
        PROVE  RecvOrderInv' /\ RecvsNotOvertaken'
        BY <1>1, <2>1, <2>4, MatchedRecv
  <2> QED BY <1>2, <2>1, <2>3, <2>4
<1>5. ASSUME NEW p \in Proc, PollerStep(p), ~ PollInit(p) PROVE UNCHANGED <<pq, got, rcv, rlog>>
      BY <1>5 DEF PollerStep, Deliver, PollRead, SendFin, PollSent, PollFinSent, RemoveSendReq,
                  PollFin, app, hist
<1>6. ASSUME NEW p \in Proc, NEW d \in Proc, NicStep(p, d) \/ NicComplete(p, d)
      PROVE  UNCHANGED <<pq, got, rcv, rlog>>
      BY <1>6 DEF NicStep, NicSend, NicRead, NicComplete, app, hist
<1>7. ASSUME NEW p \in Proc, NEW d \in Proc, Break(p, d) \/ Disconnected(p, d)
      PROVE  UNCHANGED <<pq, got, rcv, rlog>>
      BY <1>7 DEF Break, Disconnected, app, hist
<1>8. ASSUME NEW p \in Proc, NEW s \in Send, IsendEnq(p, s) PROVE UNCHANGED <<pq, got, rcv, rlog>>
      BY <1>8 DEF IsendEnq, hist
<1>9. ASSUME NEW s \in Send, IsendPost(s) \/ ReuseSendBuffer(s)
      PROVE  UNCHANGED <<pq, got, rcv, rlog>>
      BY <1>9 DEF IsendPost, ReuseSendBuffer, app, hist
<1>10. CASE UNCHANGED vars
      BY <1>2, <1>10 DEF vars, app, hist
<1> QED BY <1>2, <1>3, <1>4, <1>5, <1>6, <1>7, <1>8, <1>9, <1>10 DEF Next

-----------------------------------------------------------------------------
(* Nothing overtakes *)

LEMMA InitOrder == Init => OrderInv
<1> SUFFICES ASSUME Init PROVE OrderInv
    OBVIOUS
<1>1. \A p, d \in Proc : /\ slog[p][d] = <<>> /\ sq[p][d] = <<>> /\ cq[p] = <<>> /\ aq[p] = <<>>
                         /\ pq[p] = <<>> /\ rlog[p] = <<>> /\ {p, d} \notin broken
      BY DEF Init
<1>2. \A r \in Recv : got[r] = None /\ rcv[r] = None
      BY DEF Init
<1>3. /\ \A I : Has(<<>>, I) = {} /\ \A s, t : ~ Precedes(<<>>, I, s, t)
      /\ \A s, t : ~ Before(<<>>, s, t)
      /\ Range(<<>>) = {} /\ IsInjective(<<>>)
      BY DEF Has, Precedes, Before, Range, IsInjective
<1>4. \A p, d \in Proc : /\ Logged(p, d) = {} /\ Leaving(p, d) = {} /\ Waiting(d) = {}
                         /\ Queued(d) = {}
      BY <1>1, <1>3 DEF Logged, Leaving, Waiting, Queued
<1>5. LogInv /\ RouteInv /\ AheadInv /\ PrefixInv
      BY <1>1, <1>2, <1>3, <1>4 DEF LogInv, RouteInv, AheadInv, PrefixInv
<1>6. LiveInv
      BY <1>1, <1>4 DEF LiveInv
<1>7. RecvOrderInv
      BY <1>1, <1>2, <1>3 DEF RecvOrderInv
<1>8. SendsNotOvertaken /\ RecvsNotOvertaken
      BY <1>2 DEF SendsNotOvertaken, RecvsNotOvertaken
<1> QED BY <1>5, <1>6, <1>7, <1>8 DEF OrderInv, SendOrderInv, WayInv

\* Messages between two processes are taken in the order of their isend calls, and receives
\* of a process are answered in the order of their irecv calls, whatever the number of
\* processes, of calls under way and of connections that break: the queue pair is FIFO, the
\* poller handles completions in order, and both aq and pq are searched from the head inside
\* one critical section (fdmi_on_recv_cq_wc_recv, fdmi_verbs_irecv).
THEOREM MessagesStayInOrder == Spec => []NotOvertaken
<1>1. TypeInv /\ NoLostMatch /\ OrderInv /\ [Next]_vars => OrderInv'
      BY NextSendOrder, NextRecvOrder DEF OrderInv
<1>2. OrderInv => NotOvertaken
      BY DEF OrderInv, SendOrderInv, NotOvertaken
<1> QED BY <1>1, <1>2, InitOrder, TypeInvHolds, NoMatchIsLost, PTL DEF Spec

=============================================================================
