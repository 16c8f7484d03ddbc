------------------------- MODULE FdmiDeliveryProofs -------------------------
(***************************************************************************)
(* Proofs about FdmiMessaging for any number of processes and calls: a FIN *)
(* finds a request to complete, and, while a process has one send          *)
(* outstanding, what is received is what was sent.                         *)
(***************************************************************************)
EXTENDS FdmiMessagingProofs, FiniteSetTheorems

-----------------------------------------------------------------------------
(* Where the protocol of a send has come to *)

Rendezvous(s) == snd[s].opcode = "RDMA_READ"

\* Of the work requests that are executed and not reported only a READ matters, of the
\* completions a message that comes in and the end of a READ.
Reads == {x \in Wr : x.op = "READ"}
Comes == {x \in Wc : x.op \in {"RECV", "READ"}}

Place == {"sq", "done", "cq", "aq", "poller"}

At(k, p, d, s) ==
    \/ k = "sq" /\ s \in Has(sq[p][d], Wr)
    \/ k = "done" /\ s \in Has(done[p][d], Reads)
    \/ k = "cq" /\ d = p /\ s \in Has(cq[p], Comes)
    \/ k = "aq" /\ d = p /\ s \in Has(aq[p], Arrived)
    \/ k = "poller" /\ d = p /\ poller[p].pc \in {"matched", "fin"} /\ poller[p].send = s

Underway(s) == \E k \in Place, p, d \in Proc : At(k, p, d, s)

\* A send is at one place, and there once.
OnePlace ==
    \A s \in Send, k, l \in Place, p, d, q, e \in Proc :
        At(k, p, d, s) /\ At(l, q, e, s) => k = l /\ p = q /\ d = e

Once(q, I) == \A s \in Send : ~ Precedes(q, I, s, s)

OnceEach ==
    /\ \A p, d \in Proc : Once(sq[p][d], Wr) /\ Once(done[p][d], Reads)
    /\ \A p \in Proc : Once(cq[p], Comes) /\ Once(aq[p], Arrived)

PostedFirst == \A s \in Send : Underway(s) => isend_pc[s] = "posted"

\* What the entries of the queues are about.
SqOK(p, d, x) ==
    /\ x.op = "SEND" /\ x.type = "INIT" => snd[x.send].src = p
    /\ x.op = "READ" \/ x.type = "FIN" => Rendezvous(x.send) /\ snd[x.send].src = d

DoneOK(p, x) ==
    /\ x.op = "SEND" /\ x.type = "INIT" => snd[x.send].src = p
    /\ x.op = "READ" => Rendezvous(x.send)

CqOK(p, x) ==
    /\ x.op = "SEND" /\ x.type = "INIT" => snd[x.send].src = p
    /\ x.op = "RECV" /\ x.type = "FIN" => Rendezvous(x.send) /\ snd[x.send].src = p
    /\ x.op = "READ" => Rendezvous(x.send)

PollerAt(p) ==
    /\ poller[p].pc = "fin" => Rendezvous(poller[p].send)
    /\ poller[p].pc = "remove" => ~ Rendezvous(poller[p].send)

EntriesOK ==
    /\ \A p, d \in Proc : /\ \A x \in Range(sq[p][d]) : SqOK(p, d, x)
                          /\ \A x \in Range(done[p][d]) : DoneOK(p, x)
    /\ \A p \in Proc : (\A x \in Range(cq[p]) : CqOK(p, x)) /\ PollerAt(p)

TokenInv == OnePlace /\ OnceEach /\ PostedFirst /\ EntriesOK

\* The rendezvous sends of p whose FIN p has not seen, and those in send_req_q: a FIN takes
\* one of each, though not the same.
Expected(p) ==
    {s \in Send : /\ Started(s) /\ snd[s].src = p /\ Rendezvous(s)
                  /\ isend_pc[s] = "enqueued" \/ Underway(s)}
Requests(p) == {s \in Range(send_req_q[p]) : Rendezvous(s)}

CountAt(p) ==
    /\ \A s \in Range(send_req_q[p]) : Started(s)
    /\ IsFiniteSet(Expected(p)) /\ Cardinality(Expected(p)) <= Cardinality(Requests(p))

CountInv == \A p \in Proc : CountAt(p)

-----------------------------------------------------------------------------
(* One send outstanding *)

WasRead(s) == \E r \in Recv : got[r] = s /\ rbuf[r] # "none"

IsInit(x) == x.op = "SEND" /\ x.type = "INIT"

\* The entries of the queues, their data and the receive they are for.
SqData(x) ==
    /\ x.op = "READ" => x.recv \in Recv /\ got[x.recv] = x.send
    /\ x.type = "FIN" => WasRead(x.send)

DoneData(x) == x.op = "READ" => x.recv \in Recv /\ got[x.recv] = x.send /\ rbuf[x.recv] # "none"

CqData(x) ==
    /\ x.op = "RECV" /\ x.type = "INIT" => Rendezvous(x.send) \/ x.data = "orig"
    /\ x.op = "RECV" /\ x.type = "FIN" => WasRead(x.send)
    /\ x.op = "READ" => x.recv \in Recv /\ got[x.recv] = x.send /\ rbuf[x.recv] # "none"

PollerData(p) ==
    /\ poller[p].pc = "matched" =>
          /\ got[poller[p].recv] = poller[p].send
          /\ Rendezvous(poller[p].send) \/ poller[p].data = "orig"
    /\ poller[p].pc = "fin" => WasRead(poller[p].send)

DataInv ==
    /\ \A p, d \in Proc : /\ \A x \in Range(sq[p][d]) : SqData(x)
                          /\ \A x \in Range(done[p][d]) : DoneData(x)
    /\ \A p \in Proc : /\ \A x \in Range(cq[p]) : CqData(x)
                       /\ \A x \in Range(aq[p]) : Rendezvous(x.send) \/ x.data = "orig"
                       /\ PollerData(p)
    /\ \A s \in Send : sbuf[s] = "reused" => flag[s] = 1
    /\ \A r \in Recv : rbuf[r] # "reused"

\* A SEND is executed before it is reported.
Reported(s) ==
    \/ \E p, d \in Proc : \E x \in Range(done[p][d]) : IsInit(x) /\ x.send = s
    \/ \E p \in Proc : \E x \in Range(cq[p]) : IsInit(x) /\ x.send = s

SentOnce ==
    /\ \A p, d \in Proc : \A x \in Range(sq[p][d]) : IsInit(x) => ~ Reported(x.send) /\ flag[x.send] = 0
    /\ \A s \in Send : Reported(s) => isend_pc[s] = "posted"

\* The request of the send that is outstanding is the one in send_req_q.
RequestsOK(p) ==
    /\ IsInjective(send_req_q[p])
    /\ \A s \in Range(send_req_q[p]) :
          /\ Started(s) /\ snd[s].src = p
          /\ flag[s] = 0 \/ (poller[p].pc = "remove" /\ poller[p].send = s)

SerialInv ==
    /\ \A p \in Proc, s, t \in Send : Outstanding(p, s) /\ Outstanding(p, t) => s = t
    /\ \A p \in Proc : RequestsOK(p)
    /\ \A s \in Send : /\ flag[s] = 1 => isend_pc[s] = "posted"
                       /\ Underway(s) /\ Rendezvous(s) => flag[s] = 0
                       /\ flag[s] = 1 /\ Rendezvous(s) => WasRead(s)

DeliveryInv == DataInv /\ SentOnce /\ SerialInv /\ ReceivedDataIntact

-----------------------------------------------------------------------------
(* Queues in which a send is once *)

\* The entry at the head is taken.
LEMMA TakeOnce ==
    ASSUME NEW S, NEW q \in Seq(S), q # <<>>, NEW I, NEW x, x = Head(q), x.send \in Send, Once(q, I)
    PROVE  /\ x \in S /\ x \in Range(q) /\ Tail(q) \in Seq(S)
           /\ Once(Tail(q), I) /\ Has(Tail(q), I) \subseteq Has(q, I) /\ Range(Tail(q)) \subseteq Range(q)
           /\ x \in I => x.send \in Has(q, I) /\ x.send \notin Has(Tail(q), I)
<1>1. /\ Has(q, I) = Has(Tail(q), I) \cup {s \in Send : x \in I /\ x.send = s}
      /\ \A s, t : Precedes(Tail(q), I, s, t) => Precedes(q, I, s, t)
      /\ x \in I => \A t \in Has(Tail(q), I) : Precedes(q, I, x.send, t)
  <2>1. q \in Seq(S) /\ q # <<>> /\ x = Head(q)
        OBVIOUS
  <2> QED BY <2>1, TailOrder
<1>2. /\ x \in S /\ 1 \in DOMAIN q /\ x = q[1] /\ Tail(q) \in Seq(S)
      /\ \A j \in DOMAIN Tail(q) : \E k \in DOMAIN q : Tail(q)[j] = q[k]
      BY TailEntries, Zenon
<1>3. x \in Range(q) /\ Range(Tail(q)) \subseteq Range(q)
      BY <1>2 DEF Range
<1> HIDE DEF Has, Precedes
<1>4. Once(Tail(q), I)
      BY <1>1 DEF Once
<1>5. ASSUME x \in I PROVE x.send \in Has(q, I) /\ x.send \notin Has(Tail(q), I)
      BY <1>1, <1>5 DEF Once
<1> QED BY <1>1, <1>2, <1>3, <1>4, <1>5

\* An entry is put at the end.
LEMMA PutOnce ==
    ASSUME NEW S, NEW q \in Seq(S), NEW x \in S, NEW I, Once(q, I), x \in I => x.send \notin Has(q, I)
    PROVE  /\ Once(Append(q, x), I)
           /\ \A s \in Has(Append(q, x), I) : s \in Has(q, I) \/ (x \in I /\ s = x.send)
           /\ \A y \in Range(Append(q, x)) : y \in Range(q) \/ y = x
<1>1. /\ Has(Append(q, x), I) = Has(q, I) \cup {s \in Send : x \in I /\ x.send = s}
      /\ \A s, t : Precedes(Append(q, x), I, s, t) =>
            Precedes(q, I, s, t) \/ (x \in I /\ x.send = t /\ (s \in Send => s \in Has(q, I)))
      BY AppendOrder
<1>2. Range(Append(q, x)) = Range(q) \cup {x}
      BY PutLast
<1> HIDE DEF Has, Precedes, Range
<1>3. Once(Append(q, x), I)
      BY <1>1 DEF Once
<1> QED BY <1>1, <1>2, <1>3

\* An entry is removed.
LEMMA DropOnce ==
    ASSUME NEW S, NEW q \in Seq(S), NEW i \in DOMAIN q, NEW I, q[i] \in I, Once(q, I), q[i].send \in Send
    PROVE  /\ q[i] \in Range(q) /\ Once(RemoveAt(q, i), I) /\ Has(RemoveAt(q, i), I) \subseteq Has(q, I)
           /\ Range(RemoveAt(q, i)) \subseteq Range(q)
           /\ q[i].send \in Has(q, I) /\ q[i].send \notin Has(RemoveAt(q, i), I)
<1>1. /\ Has(RemoveAt(q, i), I) \subseteq Has(q, I)
      /\ \A s, t : Precedes(RemoveAt(q, i), I, s, t) => Precedes(q, I, s, t)
      BY RemoveOrder
<1>2. i \in 1 .. Len(q) /\ Len(q) \in Nat /\ DOMAIN q = 1 .. Len(q)
      BY LenProperties
<1>3. /\ RemoveAt(q, i) \in Seq(S) /\ Len(RemoveAt(q, i)) = Len(q) - 1
      /\ \A j \in 1 .. Len(q) - 1 : RemoveAt(q, i)[j] = IF j < i THEN q[j] ELSE q[j + 1]
      BY <1>2, RemoveAtPoints
<1>4. PICK a : a = RemoveAt(q, i)
      OBVIOUS
<1>5. DOMAIN a = 1 .. Len(q) - 1 /\ \A j \in DOMAIN a : a[j] = IF j < i THEN q[j] ELSE q[j + 1]
      BY <1>3, <1>4, LenProperties
<1>6. ASSUME NEW j \in DOMAIN a PROVE \E k \in DOMAIN q : k # i /\ a[j] = q[k]
  <2>1. CASE j < i
    <3>1. j \in DOMAIN q /\ j # i /\ a[j] = q[j]
          BY <1>2, <1>5, <2>1
    <3> QED BY <3>1
  <2>2. CASE ~ (j < i)
    <3>1. j + 1 \in DOMAIN q /\ j + 1 # i /\ a[j] = q[j + 1]
          BY <1>2, <1>5, <2>2
    <3> QED BY <3>1
  <2> QED BY <2>1, <2>2
<1>7. Range(a) \subseteq Range(q) /\ q[i] \in Range(q)
      BY <1>6 DEF Range
<1>8. q[i].send \in Has(q, I)
      BY DEF Has
<1>9. q[i].send \notin Has(a, I)
  <2> SUFFICES ASSUME NEW j \in DOMAIN a, a[j] \in I, a[j].send = q[i].send PROVE FALSE
      BY DEF Has
  <2>1. PICK k \in DOMAIN q : k # i /\ a[j] = q[k]
        BY <1>6
  <2>2. k < i \/ i < k
        BY <1>2, <2>1
  <2>3. PICK s \in Send : s = q[i].send
        OBVIOUS
  <2>4. Precedes(q, I, s, s)
        BY <2>1, <2>2, <2>3 DEF Precedes
  <2> QED BY <2>3, <2>4 DEF Once
<1> HIDE DEF Has, Precedes
<1>10. Once(a, I)
       BY <1>1, <1>4 DEF Once
<1> QED BY <1>1, <1>4, <1>7, <1>8, <1>9, <1>10

\* The first entries of a queue.
LEMMA PrefixOnce ==
    ASSUME NEW S, NEW q \in Seq(S), NEW m \in 0 .. Len(q), NEW I, Once(q, I)
    PROVE  /\ Once(SubSeq(q, 1, m), I) /\ Has(SubSeq(q, 1, m), I) \subseteq Has(q, I)
           /\ Range(SubSeq(q, 1, m)) \subseteq Range(q)
<1>1. PICK a : a = SubSeq(q, 1, m)
      OBVIOUS
<1>2. Len(q) \in Nat /\ DOMAIN q = 1 .. Len(q)
      BY LenProperties
<1>3. DOMAIN a = 1 .. m /\ \A j \in 1 .. m : a[j] = q[j]
      BY <1>1, <1>2
<1>4. 1 .. m \subseteq DOMAIN q
      BY <1>2
<1>5. Has(a, I) \subseteq Has(q, I)
      BY <1>3, <1>4 DEF Has
<1>6. Range(a) \subseteq Range(q)
      BY <1>3, <1>4 DEF Range
<1>7. Once(a, I)
      BY <1>3, <1>4 DEF Once, Precedes
<1> QED BY <1>1, <1>5, <1>6, <1>7

\* Queues that lose entries, and queues one of which gets an entry.
PairLess(f, g, I) ==
    \A a, b \in Proc : /\ Once(g[a][b], I) /\ Has(g[a][b], I) \subseteq Has(f[a][b], I)
                       /\ Range(g[a][b]) \subseteq Range(f[a][b])

PairMore(f, g, I, p, d, x) ==
    \A a, b \in Proc :
        /\ Once(g[a][b], I)
        /\ \A s \in Has(g[a][b], I) : s \in Has(f[a][b], I) \/ (x \in I /\ s = x.send /\ a = p /\ b = d)
        /\ \A y \in Range(g[a][b]) : y \in Range(f[a][b]) \/ (y = x /\ a = p /\ b = d)

RowLess(f, g, I) ==
    \A a \in Proc : /\ Once(g[a], I) /\ Has(g[a], I) \subseteq Has(f[a], I)
                    /\ Range(g[a]) \subseteq Range(f[a])

RowMore(f, g, I, p, x) ==
    \A a \in Proc :
        /\ Once(g[a], I)
        /\ \A s \in Has(g[a], I) : s \in Has(f[a], I) \/ (x \in I /\ s = x.send /\ a = p)
        /\ \A y \in Range(g[a]) : y \in Range(f[a]) \/ (y = x /\ a = p)

\* The head x of the queue of p and d is taken.
PairPops(f, g, I, p, d, x) ==
    /\ PairLess(f, g, I) /\ x \in Wr /\ x \in Range(f[p][d])
    /\ x \in I => x.send \in Has(f[p][d], I) /\ x.send \notin Has(g[p][d], I)

LEMMA PairTakes ==
    ASSUME NEW f \in [Proc -> [Proc -> Seq(Wr)]], NEW g, NEW I, NEW p \in Proc, NEW d \in Proc,
           f[p][d] # <<>>, g = [f EXCEPT ![p][d] = Tail(@)], NEW x, x = Head(f[p][d]),
           \A a, b \in Proc : Once(f[a][b], I)
    PROVE  PairPops(f, g, I, p, d, x)
<1>1. \A a, b \in Proc : g[a][b] = IF a = p /\ b = d THEN Tail(f[p][d]) ELSE f[a][b]
      OBVIOUS
<1>2. f[p][d] \in Seq(Wr)
      OBVIOUS
<1>3. x \in Wr /\ x.send \in Send
  <2>1. x \in Wr
        BY <1>2, TailEntries
  <2> QED BY <2>1 DEF Wr
<1>4. PICK q \in Seq(Wr) : q = f[p][d] /\ q # <<>> /\ x = Head(q) /\ Once(q, I)
      BY <1>2
<1>5. /\ x \in Range(q)
      /\ Once(Tail(q), I) /\ Has(Tail(q), I) \subseteq Has(q, I) /\ Range(Tail(q)) \subseteq Range(q)
      /\ x \in I => x.send \in Has(q, I) /\ x.send \notin Has(Tail(q), I)
      BY <1>3, <1>4, TakeOnce
<1> HIDE DEF Once, Has, Range
<1>6. PairLess(f, g, I)
  <2> SUFFICES ASSUME NEW a \in Proc, NEW b \in Proc
               PROVE  /\ Once(g[a][b], I) /\ Has(g[a][b], I) \subseteq Has(f[a][b], I)
                      /\ Range(g[a][b]) \subseteq Range(f[a][b])
      BY DEF PairLess
  <2>1. CASE a = p /\ b = d
        BY <1>1, <1>4, <1>5, <2>1
  <2>2. CASE ~ (a = p /\ b = d)
        BY <1>1, <2>2
  <2> QED BY <2>1, <2>2
<1> QED BY <1>1, <1>3, <1>4, <1>5, <1>6 DEF PairPops

LEMMA PairPuts ==
    ASSUME NEW f \in [Proc -> [Proc -> Seq(Wr)]], NEW g, NEW I, NEW p \in Proc, NEW d \in Proc,
           NEW x \in Wr, g = [f EXCEPT ![p][d] = Append(@, x)], \A a, b \in Proc : Once(f[a][b], I),
           x \in I => x.send \notin Has(f[p][d], I)
    PROVE  PairMore(f, g, I, p, d, x)
<1>1. \A a, b \in Proc : g[a][b] = IF a = p /\ b = d THEN Append(f[p][d], x) ELSE f[a][b]
      OBVIOUS
<1>2. f[p][d] \in Seq(Wr)
      OBVIOUS
<1>3. PICK q \in Seq(Wr) : q = f[p][d] /\ Once(q, I)
      BY <1>2
<1>4. /\ Once(Append(q, x), I)
      /\ \A s \in Has(Append(q, x), I) : s \in Has(q, I) \/ (x \in I /\ s = x.send)
      /\ \A y \in Range(Append(q, x)) : y \in Range(q) \/ y = x
      BY <1>3, PutOnce
<1> HIDE DEF Once, Has, Range
<1> SUFFICES ASSUME NEW a \in Proc, NEW b \in Proc
             PROVE
        /\ Once(g[a][b], I)
        /\ \A s \in Has(g[a][b], I) : s \in Has(f[a][b], I) \/ (x \in I /\ s = x.send /\ a = p /\ b = d)
        /\ \A y \in Range(g[a][b]) : y \in Range(f[a][b]) \/ (y = x /\ a = p /\ b = d)
    BY DEF PairMore
<1>5. CASE a = p /\ b = d
      BY <1>1, <1>3, <1>4, <1>5
<1>6. CASE ~ (a = p /\ b = d)
      BY <1>1, <1>6
<1> QED BY <1>5, <1>6

RowPops(f, g, I, S, p, x) ==
    /\ RowLess(f, g, I) /\ x \in S /\ x \in Range(f[p])
    /\ x \in I => x.send \in Has(f[p], I) /\ x.send \notin Has(g[p], I)

LEMMA RowTakes ==
    ASSUME NEW S, NEW f \in [Proc -> Seq(S)], NEW g, NEW I, NEW p \in Proc, f[p] # <<>>,
           g = [f EXCEPT ![p] = Tail(@)], NEW x, x = Head(f[p]), \A y \in S : y.send \in Send,
           \A a \in Proc : Once(f[a], I)
    PROVE  RowPops(f, g, I, S, p, x)
<1>1. \A a \in Proc : g[a] = IF a = p THEN Tail(f[p]) ELSE f[a]
      OBVIOUS
<1>2. f[p] \in Seq(S)
      OBVIOUS
<1>3. x \in S /\ x.send \in Send
      BY <1>2, TailEntries
<1>4. PICK q \in Seq(S) : q = f[p] /\ q # <<>> /\ x = Head(q) /\ Once(q, I)
      BY <1>2
<1>5. /\ x \in Range(q)
      /\ Once(Tail(q), I) /\ Has(Tail(q), I) \subseteq Has(q, I) /\ Range(Tail(q)) \subseteq Range(q)
      /\ x \in I => x.send \in Has(q, I) /\ x.send \notin Has(Tail(q), I)
      BY <1>3, <1>4, TakeOnce
<1> HIDE DEF Once, Has, Range
<1>6. RowLess(f, g, I)
      BY <1>1, <1>4, <1>5 DEF RowLess
<1> QED BY <1>1, <1>3, <1>4, <1>5, <1>6 DEF RowPops

LEMMA RowPuts ==
    ASSUME NEW S, NEW f \in [Proc -> Seq(S)], NEW g, NEW I, NEW p \in Proc,
           NEW x \in S, g = [f EXCEPT ![p] = Append(@, x)], \A a \in Proc : Once(f[a], I),
           x \in I => x.send \notin Has(f[p], I)
    PROVE  RowMore(f, g, I, p, x)
<1>1. \A a \in Proc : g[a] = IF a = p THEN Append(f[p], x) ELSE f[a]
      OBVIOUS
<1>2. f[p] \in Seq(S)
      OBVIOUS
<1>3. PICK q \in Seq(S) : q = f[p] /\ Once(q, I)
      BY <1>2
<1>4. /\ Once(Append(q, x), I)
      /\ \A s \in Has(Append(q, x), I) : s \in Has(q, I) \/ (x \in I /\ s = x.send)
      /\ \A y \in Range(Append(q, x)) : y \in Range(q) \/ y = x
      BY <1>3, PutOnce
<1> HIDE DEF Once, Has, Range
<1> SUFFICES ASSUME NEW a \in Proc
             PROVE
        /\ Once(g[a], I)
        /\ \A s \in Has(g[a], I) : s \in Has(f[a], I) \/ (x \in I /\ s = x.send /\ a = p)
        /\ \A y \in Range(g[a]) : y \in Range(f[a]) \/ (y = x /\ a = p)
    BY DEF RowMore
<1>5. CASE a = p
      BY <1>1, <1>3, <1>4, <1>5
<1>6. CASE a # p
      BY <1>1, <1>6
<1> QED BY <1>5, <1>6

LEMMA RowDrops ==
    ASSUME NEW S, NEW f \in [Proc -> Seq(S)], NEW g, NEW I, NEW p \in Proc, NEW i \in DOMAIN f[p],
           g = [f EXCEPT ![p] = RemoveAt(@, i)], NEW x, x = f[p][i], x \in I, x \in S, x.send \in Send,
           \A a \in Proc : Once(f[a], I)
    PROVE  RowPops(f, g, I, S, p, x)
<1>1. \A a \in Proc : g[a] = IF a = p THEN RemoveAt(f[p], i) ELSE f[a]
      OBVIOUS
<1>2. f[p] \in Seq(S)
      OBVIOUS
<1>3. PICK q \in Seq(S) : q = f[p] /\ Once(q, I) /\ i \in DOMAIN q /\ x = q[i]
      BY <1>2
<1>4. /\ x \in Range(q) /\ Once(RemoveAt(q, i), I) /\ Has(RemoveAt(q, i), I) \subseteq Has(q, I)
      /\ Range(RemoveAt(q, i)) \subseteq Range(q)
      /\ x.send \in Has(q, I) /\ x.send \notin Has(RemoveAt(q, i), I)
      BY <1>3, DropOnce
<1> HIDE DEF Once, Has, Range
<1>5. RowLess(f, g, I)
      BY <1>1, <1>3, <1>4 DEF RowLess
<1> QED BY <1>1, <1>3, <1>4, <1>5 DEF RowPops

-----------------------------------------------------------------------------
(* A send goes from one place to another *)

\* Every queue holds what it held, but that send u may come to place k of p and d.
SqGains(u, k, p, d) ==
    \A a, b \in Proc : \A s \in Has(sq'[a][b], Wr) :
        s \in Has(sq[a][b], Wr) \/ (s = u /\ k = "sq" /\ a = p /\ b = d)
DoneGains(u, k, p, d) ==
    \A a, b \in Proc : \A s \in Has(done'[a][b], Reads) :
        s \in Has(done[a][b], Reads) \/ (s = u /\ k = "done" /\ a = p /\ b = d)
CqGains(u, k, p, d) ==
    \A a \in Proc : \A s \in Has(cq'[a], Comes) :
        s \in Has(cq[a], Comes) \/ (s = u /\ k = "cq" /\ a = p /\ d = p)
AqGains(u, k, p, d) ==
    \A a \in Proc : \A s \in Has(aq'[a], Arrived) :
        s \in Has(aq[a], Arrived) \/ (s = u /\ k = "aq" /\ a = p /\ d = p)
PollerGains(u, k, p, d) ==
    \A a \in Proc : poller'[a].pc \in {"matched", "fin"} =>
        \/ poller'[a].pc = poller[a].pc /\ poller'[a].send = poller[a].send
        \/ poller'[a].send = u /\ k = "poller" /\ a = p /\ d = p

Gains(u, k, p, d) ==
    /\ SqGains(u, k, p, d) /\ DoneGains(u, k, p, d) /\ CqGains(u, k, p, d)
    /\ AqGains(u, k, p, d) /\ PollerGains(u, k, p, d)

\* The send was nowhere, or it has left where it was.
Leaves(u) ==
    \/ ~ Underway(u)
    \/ \E l \in Place, a, b \in Proc : At(l, a, b, u) /\ ~ At(l, a, b, u)'

LEMMA GainsAt ==
    ASSUME NEW u, NEW k, NEW p, NEW d, Gains(u, k, p, d),
           NEW s \in Send, NEW l \in Place, NEW a \in Proc, NEW b \in Proc, At(l, a, b, s)'
    PROVE  At(l, a, b, s) \/ (s = u /\ l = k /\ a = p /\ b = d)
<1>1. CASE l = "sq" /\ s \in Has(sq'[a][b], Wr)
      BY <1>1 DEF Gains, SqGains, At
<1>2. CASE l = "done" /\ s \in Has(done'[a][b], Reads)
      BY <1>2 DEF Gains, DoneGains, At
<1>3. CASE l = "cq" /\ b = a /\ s \in Has(cq'[a], Comes)
      BY <1>3 DEF Gains, CqGains, At
<1>4. CASE l = "aq" /\ b = a /\ s \in Has(aq'[a], Arrived)
      BY <1>4 DEF Gains, AqGains, At
<1>5. CASE l = "poller" /\ b = a /\ poller'[a].pc \in {"matched", "fin"} /\ poller'[a].send = s
      BY <1>5 DEF Gains, PollerGains, At
<1> QED BY <1>1, <1>2, <1>3, <1>4, <1>5 DEF At, Wr, Reads, Comes, Wc, Arrived, Data

\* What is under way after the step.
LEMMA GainsUnderway ==
    ASSUME NEW u, NEW k, NEW p, NEW d, Gains(u, k, p, d),
           NEW s \in Send, Underway(s)'
    PROVE  Underway(s) \/ (s = u /\ k \in Place)
<1>1. PICK l \in Place, a, b \in Proc : At(l, a, b, s)'
      BY DEF Underway
<1>2. At(l, a, b, s) \/ (s = u /\ l = k)
      BY <1>1, GainsAt
<1> HIDE DEF At
<1> QED BY <1>2 DEF Underway

LEMMA MoveKeeps ==
    ASSUME OnePlace, NEW u, NEW k, NEW p, NEW d,
           Gains(u, k, p, d), k \in Place => Leaves(u)
    PROVE  OnePlace'
<1> HIDE DEF At, Gains
<1>1. ASSUME NEW s \in Send, NEW l \in Place, NEW m \in Place, NEW a \in Proc, NEW b \in Proc,
             NEW q \in Proc, NEW e \in Proc, At(l, a, b, s)', At(m, q, e, s)'
      PROVE  l = m /\ a = q /\ b = e
  <2>1. At(l, a, b, s) \/ (s = u /\ l = k /\ a = p /\ b = d)
        BY <1>1, GainsAt
  <2>2. At(m, q, e, s) \/ (s = u /\ m = k /\ q = p /\ e = d)
        BY <1>1, GainsAt
  <2>3. CASE At(l, a, b, s) /\ At(m, q, e, s)
        BY <2>3 DEF OnePlace
  <2>4. CASE s = u /\ k \in Place
    <3>1. ASSUME NEW n \in Place, NEW v \in Proc, NEW w \in Proc, At(n, v, w, u), At(n, v, w, u)'
          PROVE  FALSE
          BY <2>4, <3>1 DEF Leaves, Underway, OnePlace
    <3>2. l = k /\ a = p /\ b = d
          BY <1>1, <2>1, <2>4, <3>1
    <3>3. m = k /\ q = p /\ e = d
          BY <1>1, <2>2, <2>4, <3>1
    <3> QED BY <3>2, <3>3
  <2> QED BY <2>1, <2>2, <2>3, <2>4
<1> QED BY <1>1 DEF OnePlace

\* Entries that were there are still what they were.
LEMMA OldEntries ==
    ASSUME TypeInv, EntriesOK, CallsKept, NEW p \in Proc
    PROVE  /\ \A d \in Proc : /\ \A x \in Range(sq[p][d]) : SqOK(p, d, x)'
                              /\ \A x \in Range(done[p][d]) : DoneOK(p, x)'
           /\ \A x \in Range(cq[p]) : CqOK(p, x)'
<1>1. TypeOK /\ Known
      BY DEF TypeInv
<1>2. /\ \A d \in Proc : \A x \in Range(sq[p][d]) : x.send \in Send /\ Started(x.send)
      /\ \A d \in Proc : \A x \in Range(done[p][d]) : x.send \in Send /\ Started(x.send)
      /\ \A x \in Range(cq[p]) : x.send \in Send /\ Started(x.send)
      BY <1>1, EntryType DEF Known, SqKnown, DoneKnown, CqKnown, Range, Wr, Wc
<1>3. /\ \A d \in Proc : \A x \in Range(sq[p][d]) : snd'[x.send] = snd[x.send]
      /\ \A d \in Proc : \A x \in Range(done[p][d]) : snd'[x.send] = snd[x.send]
      /\ \A x \in Range(cq[p]) : snd'[x.send] = snd[x.send]
      BY <1>2 DEF CallsKept
<1>4. ASSUME NEW d \in Proc, NEW x \in Range(sq[p][d]) PROVE SqOK(p, d, x)'
      BY <1>3 DEF EntriesOK, SqOK, Rendezvous
<1>5. ASSUME NEW d \in Proc, NEW x \in Range(done[p][d]) PROVE DoneOK(p, x)'
      BY <1>3 DEF EntriesOK, DoneOK, Rendezvous
<1>6. ASSUME NEW x \in Range(cq[p]) PROVE CqOK(p, x)'
      BY <1>3 DEF EntriesOK, CqOK, Rendezvous
<1> QED BY <1>4, <1>5, <1>6

LEMMA EntriesStep ==
    ASSUME TypeInv, EntriesOK, CallsKept,
           \A a, b \in Proc : \A x \in Range(sq'[a][b]) : x \in Range(sq[a][b]) \/ SqOK(a, b, x)',
           \A a, b \in Proc : \A x \in Range(done'[a][b]) : x \in Range(done[a][b]) \/ DoneOK(a, x)',
           \A a \in Proc : \A x \in Range(cq'[a]) : x \in Range(cq[a]) \/ CqOK(a, x)',
           \A a \in Proc : poller'[a] = poller[a] \/ PollerAt(a)'
    PROVE  EntriesOK'
<1>1. \A p \in Proc : /\ \A d \in Proc : /\ \A x \in Range(sq[p][d]) : SqOK(p, d, x)'
                                         /\ \A x \in Range(done[p][d]) : DoneOK(p, x)'
                      /\ \A x \in Range(cq[p]) : CqOK(p, x)'
      BY OldEntries
<1>2. ASSUME NEW p \in Proc, poller'[p] = poller[p] PROVE PollerAt(p)'
  <2>1. PollerAt(p) /\ poller[p].pc \in {"fin", "remove"} => poller[p].send \in Send /\ Started(poller[p].send)
        BY DEF EntriesOK, TypeInv, PollerOK
  <2> QED BY <1>2, <2>1 DEF PollerAt, EntriesOK, CallsKept, Rendezvous
<1> HIDE DEF SqOK, DoneOK, CqOK, PollerAt, Range
<1> QED BY <1>1, <1>2 DEF EntriesOK

-----------------------------------------------------------------------------
(* What a step does to the queues *)

\* The queues lose entries, but that one may get an entry; a send that is under way comes to
\* place k of p and d with it.
SqMoves(u, k, p, d) ==
    \/ PairLess(sq, sq', Wr)
    \/ \E x \in Wr : /\ PairMore(sq, sq', Wr, p, d, x) /\ SqOK(p, d, x)'
                     /\ x.send = u /\ k = "sq"
DoneMoves(u, k, p, d) ==
    \/ PairLess(done, done', Reads)
    \/ \E x \in Wr, a, b \in Proc :
          /\ PairMore(done, done', Reads, a, b, x) /\ DoneOK(a, x)'
          /\ x \in Reads => x.send = u /\ k = "done" /\ a = p /\ b = d
CqMoves(u, k, p, d) ==
    \/ RowLess(cq, cq', Comes)
    \/ \E x \in Wc, a \in Proc :
          /\ RowMore(cq, cq', Comes, a, x) /\ CqOK(a, x)'
          /\ x \in Comes => x.send = u /\ k = "cq" /\ a = p /\ d = p
AqMoves(u, k, p, d) ==
    \/ RowLess(aq, aq', Arrived)
    \/ \E x \in Arrived : RowMore(aq, aq', Arrived, p, x) /\ x.send = u /\ k = "aq" /\ d = p
PollerMoves(u, k, p, d) ==
    \A a \in Proc :
        \/ poller'[a] = poller[a]
        \/ /\ PollerAt(a)'
           /\ poller'[a].pc \in {"matched", "fin"} =>
                 poller'[a].send = u /\ k = "poller" /\ a = p /\ d = p

Goes(u, k, p, d) ==
    /\ SqMoves(u, k, p, d) /\ DoneMoves(u, k, p, d) /\ CqMoves(u, k, p, d)
    /\ AqMoves(u, k, p, d) /\ PollerMoves(u, k, p, d)
    /\ k \in Place => /\ Leaves(u)
                      /\ Underway(u) \/ (isend_pc[u] = "enqueued" /\ isend_pc'[u] = "posted")

LEMMA MovesGain ==
    ASSUME NEW u, NEW k, NEW p, NEW d, Goes(u, k, p, d)
    PROVE  Gains(u, k, p, d)
<1> HIDE DEF Has, Once, Range, Wr, Wc, Reads, Comes, Arrived, SqOK, DoneOK, CqOK, PollerAt
<1>1. SqGains(u, k, p, d)
      BY DEF Goes, SqMoves, SqGains, PairLess, PairMore
<1>2. DoneGains(u, k, p, d)
  <2>1. CASE PairLess(done, done', Reads)
        BY <2>1 DEF DoneGains, PairLess
  <2>2. ASSUME NEW x \in Wr, NEW a \in Proc, NEW b \in Proc, PairMore(done, done', Reads, a, b, x),
               x \in Reads => x.send = u /\ k = "done" /\ a = p /\ b = d
        PROVE  DoneGains(u, k, p, d)
        BY <2>2 DEF DoneGains, PairMore
  <2> QED BY <2>1, <2>2 DEF Goes, DoneMoves
<1>3. CqGains(u, k, p, d)
  <2>1. CASE RowLess(cq, cq', Comes)
        BY <2>1 DEF CqGains, RowLess
  <2>2. ASSUME NEW x \in Wc, NEW a \in Proc, RowMore(cq, cq', Comes, a, x),
               x \in Comes => x.send = u /\ k = "cq" /\ a = p /\ d = p
        PROVE  CqGains(u, k, p, d)
        BY <2>2 DEF CqGains, RowMore
  <2> QED BY <2>1, <2>2 DEF Goes, CqMoves
<1>4. AqGains(u, k, p, d)
      BY DEF Goes, AqMoves, AqGains, RowLess, RowMore
<1>5. PollerGains(u, k, p, d)
      BY DEF Goes, PollerMoves, PollerGains
<1> QED BY <1>1, <1>2, <1>3, <1>4, <1>5 DEF Gains

LEMMA MovesOnce ==
    ASSUME NEW u, NEW k, NEW p, NEW d, Goes(u, k, p, d)
    PROVE  OnceEach'
<1> HIDE DEF Has, Once, Range, SqOK, DoneOK, CqOK, PollerAt
<1>1. \A a, b \in Proc : Once(sq'[a][b], Wr)
      BY DEF Goes, SqMoves, PairLess, PairMore
<1>2. \A a, b \in Proc : Once(done'[a][b], Reads)
      BY DEF Goes, DoneMoves, PairLess, PairMore
<1>3. \A a \in Proc : Once(cq'[a], Comes)
      BY DEF Goes, CqMoves, RowLess, RowMore
<1>4. \A a \in Proc : Once(aq'[a], Arrived)
      BY DEF Goes, AqMoves, RowLess, RowMore
<1>5. PICK A, B, C, D : A = Wr /\ B = Reads /\ C = Comes /\ D = Arrived
      OBVIOUS
<1>6. (A = Wr /\ B = Reads /\ C = Comes /\ D = Arrived)'
      BY <1>5 DEF Wr, Reads, Comes, Wc, Arrived, Data
<1> QED BY <1>1, <1>2, <1>3, <1>4, <1>5, <1>6 DEF OnceEach, Once, Precedes

LEMMA MovesToken ==
    ASSUME TypeInv, TokenInv, CallsKept, PostedKept,
           NEW u, NEW k, NEW p, NEW d, Goes(u, k, p, d)
    PROVE  TokenInv'
<1>1. Gains(u, k, p, d)
      BY MovesGain
<1>2. k \in Place => Leaves(u)
      BY DEF Goes
<1>3. OnePlace'
      BY <1>1, <1>2, MoveKeeps DEF TokenInv
<1>4. OnceEach'
      BY MovesOnce
<1> HIDE DEF Range, SqOK, DoneOK, CqOK, PollerAt, Underway, Leaves, Gains
<1>5. EntriesOK'
  <2>1. \A a, b \in Proc : \A x \in Range(sq'[a][b]) : x \in Range(sq[a][b]) \/ SqOK(a, b, x)'
        BY DEF Goes, SqMoves, PairLess, PairMore
  <2>2. \A a, b \in Proc : \A x \in Range(done'[a][b]) : x \in Range(done[a][b]) \/ DoneOK(a, x)'
    <3>1. CASE PairLess(done, done', Reads)
          BY <3>1 DEF PairLess
    <3>2. ASSUME NEW y \in Wr, NEW e \in Proc, NEW f \in Proc,
                 PairMore(done, done', Reads, e, f, y), DoneOK(e, y)'
          PROVE  \A a, b \in Proc : \A x \in Range(done'[a][b]) : x \in Range(done[a][b]) \/ DoneOK(a, x)'
          BY <3>2 DEF PairMore
    <3> QED BY <3>1, <3>2 DEF Goes, DoneMoves
  <2>3. \A a \in Proc : \A x \in Range(cq'[a]) : x \in Range(cq[a]) \/ CqOK(a, x)'
    <3>1. CASE RowLess(cq, cq', Comes)
          BY <3>1 DEF RowLess
    <3>2. ASSUME NEW y \in Wc, NEW e \in Proc, RowMore(cq, cq', Comes, e, y), CqOK(e, y)'
          PROVE  \A a \in Proc : \A x \in Range(cq'[a]) : x \in Range(cq[a]) \/ CqOK(a, x)'
          BY <3>2 DEF RowMore
    <3> QED BY <3>1, <3>2 DEF Goes, CqMoves
  <2>4. \A a \in Proc : poller'[a] = poller[a] \/ PollerAt(a)'
        BY DEF Goes, PollerMoves
  <2> QED BY <2>1, <2>2, <2>3, <2>4, EntriesStep DEF TokenInv
<1>6. PostedFirst'
  <2> SUFFICES ASSUME NEW s \in Send, Underway(s)' PROVE isend_pc'[s] = "posted"
      BY DEF PostedFirst
  <2>1. Underway(s) \/ (s = u /\ k \in Place)
        BY <1>1, GainsUnderway
  <2>2. CASE Underway(s)
        BY <2>2 DEF TokenInv, PostedFirst, PostedKept
  <2>3. CASE s = u /\ k \in Place
        BY <2>2, <2>3 DEF Goes
  <2> QED BY <2>1, <2>2, <2>3
<1> QED BY <1>3, <1>4, <1>5, <1>6 DEF TokenInv

\* There is a send and a place that fit.
Gone == \E u, k, p, d : Goes(u, k, p, d)

LEMMA SameLess ==
    ASSUME OnceEach
    PROVE  /\ sq' = sq => \A u, k, p, d : SqMoves(u, k, p, d)
           /\ done' = done => \A u, k, p, d : DoneMoves(u, k, p, d)
           /\ cq' = cq => \A u, k, p, d : CqMoves(u, k, p, d)
           /\ aq' = aq => \A u, k, p, d : AqMoves(u, k, p, d)
           /\ poller' = poller => \A u, k, p, d : PollerMoves(u, k, p, d)
<1> HIDE DEF Once, Has, Range
<1>1. ASSUME sq' = sq PROVE PairLess(sq, sq', Wr)
      BY <1>1 DEF OnceEach, PairLess
<1>2. ASSUME done' = done PROVE PairLess(done, done', Reads)
      BY <1>2 DEF OnceEach, PairLess
<1>3. ASSUME cq' = cq PROVE RowLess(cq, cq', Comes)
      BY <1>3 DEF OnceEach, RowLess
<1>4. ASSUME aq' = aq PROVE RowLess(aq, aq', Arrived)
      BY <1>4 DEF OnceEach, RowLess
<1> HIDE DEF PairLess, RowLess
<1> QED BY <1>1, <1>2, <1>3, <1>4 DEF SqMoves, DoneMoves, CqMoves, AqMoves, PollerMoves

\* A step that puts no entry into a queue.
LEMMA NothingMoves ==
    ASSUME OnceEach, UNCHANGED <<sq, done, cq, aq, poller>>
    PROVE  Gone
<1>1. \A u, k, p, d : /\ SqMoves(u, k, p, d) /\ DoneMoves(u, k, p, d) /\ CqMoves(u, k, p, d)
                      /\ AqMoves(u, k, p, d) /\ PollerMoves(u, k, p, d)
      BY SameLess
<1>2. "none" \notin Place
      BY DEF Place
<1>3. Goes(None, "none", None, None)
      BY <1>1, <1>2 DEF Goes
<1> QED BY <1>3 DEF Gone

\* A work request is posted.
LEMMA PostMoves ==
    ASSUME TypeInv, OnceEach, NEW p \in Proc, NEW d \in Proc, NEW x \in Wr, sq' = Posted(p, d, x),
           x.send \notin Has(sq[p][d], Wr), SqOK(p, d, x)'
    PROVE  SqMoves(x.send, "sq", p, d)
<1>1. sq \in [Proc -> [Proc -> Seq(Wr)]]
      BY DEF TypeInv, TypeOK
<1>2. CASE {p, d} \in broken
  <2>1. sq' = sq
        BY <1>2 DEF Posted
  <2> QED BY <2>1, SameLess
<1>3. CASE {p, d} \notin broken
  <2>1. sq' = [sq EXCEPT ![p][d] = Append(@, x)]
        BY <1>3 DEF Posted
  <2>2. \A a, b \in Proc : Once(sq[a][b], Wr)
        BY DEF OnceEach
  <2>3. PairMore(sq, sq', Wr, p, d, x)
        BY <1>1, <2>1, <2>2, PairPuts
  <2> QED BY <2>3 DEF SqMoves
<1> QED BY <1>2, <1>3

\* A send that is at another place is not in a work queue, and so for the other places.
LEMMA Elsewhere ==
    ASSUME OnePlace, NEW s \in Send, NEW k \in Place, NEW p \in Proc, NEW d \in Proc, At(k, p, d, s)
    PROVE  /\ Underway(s)
           /\ k # "sq" => \A a, b \in Proc : s \notin Has(sq[a][b], Wr)
           /\ k # "done" => \A a, b \in Proc : s \notin Has(done[a][b], Reads)
           /\ k # "cq" => \A a \in Proc : s \notin Has(cq[a], Comes)
           /\ k # "aq" => \A a \in Proc : s \notin Has(aq[a], Arrived)
<1> HIDE DEF Has
<1>1. Underway(s)
      BY DEF Underway
<1>2. \A l \in Place, a, b \in Proc : At(l, a, b, s) => l = k
      BY DEF OnePlace
<1>3. \A a, b \in Proc : s \in Has(sq[a][b], Wr) => At("sq", a, b, s)
      BY DEF At
<1>4. \A a, b \in Proc : s \in Has(done[a][b], Reads) => At("done", a, b, s)
      BY DEF At
<1>5. \A a \in Proc : s \in Has(cq[a], Comes) => At("cq", a, a, s)
      BY DEF At
<1>6. \A a \in Proc : s \in Has(aq[a], Arrived) => At("aq", a, a, s)
      BY DEF At
<1> HIDE DEF At
<1> QED BY <1>1, <1>2, <1>3, <1>4, <1>5, <1>6 DEF Place

\* A send that has left a place.
LEMMA HasLeft ==
    ASSUME NEW s \in Send, NEW p \in Proc, NEW d \in Proc
    PROVE  /\ s \in Has(sq[p][d], Wr) /\ s \notin Has(sq'[p][d], Wr) =>
                 At("sq", p, d, s) /\ Leaves(s)
           /\ s \in Has(done[p][d], Reads) /\ s \notin Has(done'[p][d], Reads) =>
                 At("done", p, d, s) /\ Leaves(s)
           /\ s \in Has(cq[p], Comes) /\ s \notin Has(cq'[p], Comes) =>
                 At("cq", p, p, s) /\ Leaves(s)
           /\ s \in Has(aq[p], Arrived) /\ s \notin Has(aq'[p], Arrived) =>
                 At("aq", p, p, s) /\ Leaves(s)
           /\ poller[p].pc \in {"matched", "fin"} /\ poller[p].send = s /\ poller'[p].pc = "poll" =>
                 At("poller", p, p, s) /\ Leaves(s)
<1>1. PICK A, B, C, D : A = Wr /\ B = Reads /\ C = Comes /\ D = Arrived
      OBVIOUS
<1>2. (A = Wr /\ B = Reads /\ C = Comes /\ D = Arrived)'
      BY <1>1 DEF Wr, Reads, Comes, Wc, Arrived, Data
<1> HIDE DEF Has
<1>3. /\ At("sq", p, d, s) <=> s \in Has(sq[p][d], A)
      /\ At("sq", p, d, s)' <=> s \in Has(sq'[p][d], A)
      BY <1>1, <1>2 DEF At, Has
<1>4. /\ At("done", p, d, s) <=> s \in Has(done[p][d], B)
      /\ At("done", p, d, s)' <=> s \in Has(done'[p][d], B)
      BY <1>1, <1>2 DEF At, Has
<1>5. /\ At("cq", p, p, s) <=> s \in Has(cq[p], C)
      /\ At("cq", p, p, s)' <=> s \in Has(cq'[p], C)
      BY <1>1, <1>2 DEF At, Has
<1>6. /\ At("aq", p, p, s) <=> s \in Has(aq[p], D)
      /\ At("aq", p, p, s)' <=> s \in Has(aq'[p], D)
      BY <1>1, <1>2 DEF At, Has
<1>7. /\ At("poller", p, p, s) <=> poller[p].pc \in {"matched", "fin"} /\ poller[p].send = s
      /\ At("poller", p, p, s)' <=> poller'[p].pc \in {"matched", "fin"} /\ poller'[p].send = s
      BY DEF At
<1>8. {"sq", "done", "cq", "aq", "poller"} \subseteq Place
      BY DEF Place
<1> HIDE DEF At
<1>9. \A l \in Place, a, b \in Proc : At(l, a, b, s) /\ ~ At(l, a, b, s)' => Leaves(s)
      BY DEF Leaves
<1> QED BY <1>1, <1>3, <1>4, <1>5, <1>6, <1>7, <1>8, <1>9

\* The head of a work queue, or of the executed work requests, is taken.
LEMMA SqTakes ==
    ASSUME TypeInv, OnceEach, NEW p \in Proc, NEW d \in Proc, NEW x, x = Head(sq[p][d]),
           sq[p][d] # <<>>, sq' = [sq EXCEPT ![p][d] = Tail(@)]
    PROVE  /\ PairLess(sq, sq', Wr) /\ x \in Wr /\ x \in Range(sq[p][d])
           /\ x.send \in Has(sq[p][d], Wr) /\ x.send \notin Has(sq'[p][d], Wr)
<1>1. PICK f, g : f = sq /\ g = sq'
      OBVIOUS
<1>2. /\ f \in [Proc -> [Proc -> Seq(Wr)]] /\ g = [f EXCEPT ![p][d] = Tail(@)]
      /\ f[p][d] # <<>> /\ x = Head(f[p][d]) /\ \A a, b \in Proc : Once(f[a][b], Wr)
      BY <1>1 DEF TypeInv, TypeOK, OnceEach
<1>3. PairPops(f, g, Wr, p, d, x)
      BY <1>2, PairTakes
<1> QED BY <1>1, <1>3 DEF PairPops

LEMMA DoneTakes ==
    ASSUME TypeInv, OnceEach, NEW p \in Proc, NEW d \in Proc, NEW x, x = Head(done[p][d]),
           done[p][d] # <<>>, done' = [done EXCEPT ![p][d] = Tail(@)]
    PROVE  /\ PairLess(done, done', Reads) /\ x \in Wr /\ x \in Range(done[p][d])
           /\ x \in Reads => x.send \in Has(done[p][d], Reads) /\ x.send \notin Has(done'[p][d], Reads)
<1>1. PICK f, g : f = done /\ g = done'
      OBVIOUS
<1>2. /\ f \in [Proc -> [Proc -> Seq(Wr)]] /\ g = [f EXCEPT ![p][d] = Tail(@)]
      /\ f[p][d] # <<>> /\ x = Head(f[p][d]) /\ \A a, b \in Proc : Once(f[a][b], Reads)
      BY <1>1 DEF TypeInv, TypeOK, OnceEach
<1>3. PairPops(f, g, Reads, p, d, x)
      BY <1>2, PairTakes
<1> QED BY <1>1, <1>3 DEF PairPops

\* A completion is polled.
CqHead(p, x) ==
    /\ RowLess(cq, cq', Comes) /\ x \in Wc /\ x \in Range(cq[p])
    /\ x \in Comes => x.send \in Has(cq[p], Comes) /\ x.send \notin Has(cq'[p], Comes)

LEMMA CqTakes ==
    ASSUME TypeInv, OnceEach, NEW p \in Proc, NEW x, x = Head(cq[p]),
           cq[p] # <<>>, cq' = [cq EXCEPT ![p] = Tail(@)]
    PROVE  CqHead(p, x)
<1>1. PICK f, g, I, S : f = cq /\ g = cq' /\ I = Comes /\ S = Wc
      OBVIOUS
<1>2. /\ f \in [Proc -> Seq(S)] /\ g = [f EXCEPT ![p] = Tail(@)]
      /\ f[p] # <<>> /\ x = Head(f[p]) /\ (\A a \in Proc : Once(f[a], I))
      BY <1>1 DEF TypeInv, TypeOK, OnceEach
<1>3. \A y \in S : y.send \in Send
      BY <1>1 DEF Wc
<1>4. RowPops(f, g, I, S, p, x)
      BY <1>2, <1>3, RowTakes
<1> QED BY <1>1, <1>4 DEF RowPops, CqHead

-----------------------------------------------------------------------------
(* The actions *)

LEMMA IsendPostMoves ==
    ASSUME TypeInv, TokenInv, CallsKept, NEW s \in Send, IsendPost(s)
    PROVE  Gone
<1>1. isend_pc[s] = "enqueued" /\ isend_pc'[s] = "posted" /\ snd' = snd
      /\ UNCHANGED <<done, cq, aq, poller>> /\ sq' = Posted(snd[s].src, snd[s].dst, SendWr(s, "INIT"))
      BY DEF IsendPost, TypeInv, TypeOK
<1>2. snd[s].src \in Proc /\ snd[s].dst \in Proc
      BY <1>1 DEF TypeInv, Known, SendsKnown, Started, Message
<1>3. PICK p \in Proc, d \in Proc : p = snd[s].src /\ d = snd[s].dst
      BY <1>2
<1>4. PICK x \in Wr : x = SendWr(s, "INIT") /\ x.op = "SEND" /\ x.type = "INIT" /\ x.send = s
  <2>1. /\ SendWr(s, "INIT") \in Wr /\ SendWr(s, "INIT").op = "SEND" /\ SendWr(s, "INIT").type = "INIT"
        /\ SendWr(s, "INIT").send = s
        BY DEF SendWr, Wr
  <2> QED BY <2>1
<1>5. ~ Underway(s)
      BY <1>1 DEF TokenInv, PostedFirst
<1>6. s \notin Has(sq[p][d], Wr)
      BY <1>5 DEF Underway, At, Place
<1>7. SqOK(p, d, x)'
      BY <1>1, <1>3, <1>4 DEF SqOK
<1>8. SqMoves(s, "sq", p, d)
      BY <1>1, <1>3, <1>4, <1>6, <1>7, PostMoves DEF TokenInv
<1>9. DoneMoves(s, "sq", p, d) /\ CqMoves(s, "sq", p, d) /\ AqMoves(s, "sq", p, d) /\ PollerMoves(s, "sq", p, d)
      BY <1>1, SameLess DEF TokenInv
<1>10. Leaves(s)
       BY <1>5 DEF Leaves
<1>11. Goes(s, "sq", p, d)
       BY <1>1, <1>8, <1>9, <1>10 DEF Goes
<1> QED BY <1>11 DEF Gone

LEMMA NicSendMoves ==
    ASSUME TypeInv, TokenInv, CallsKept, NEW p \in Proc, NEW d \in Proc, NicSend(p, d)
    PROVE  Gone
<1>1. /\ sq \in [Proc -> [Proc -> Seq(Wr)]] /\ done \in [Proc -> [Proc -> Seq(Wr)]] /\ cq \in [Proc -> Seq(Wc)]
      /\ sbuf \in [Send -> {"orig", "reused"}]
      BY DEF TypeInv, TypeOK
<1>2. PICK x : x = Head(sq[p][d])
      OBVIOUS
<1>3. /\ sq[p][d] # <<>> /\ x.op = "SEND" /\ sq' = [sq EXCEPT ![p][d] = Tail(@)]
      /\ done' = [done EXCEPT ![p][d] = Append(@, x)] /\ UNCHANGED <<aq, poller>> /\ snd' = snd
      BY <1>2 DEF NicSend, app
<1>4. /\ \A a, b \in Proc : Once(sq[a][b], Wr) /\ Once(done[a][b], Reads)
      /\ \A a \in Proc : Once(cq[a], Comes)
      BY DEF TokenInv, OnceEach
<1>5. /\ PairLess(sq, sq', Wr) /\ x \in Wr /\ x \in Range(sq[p][d])
      /\ x.send \in Has(sq[p][d], Wr) /\ x.send \notin Has(sq'[p][d], Wr)
      BY <1>2, <1>3, SqTakes DEF TokenInv
<1>6. x.send \in Send /\ x.type \in {"INIT", "FIN"}
      BY <1>5 DEF Wr
<1>7. PICK m : m = [op |-> "RECV", type |-> x.type, send |-> x.send, recv |-> None,
                   data |-> IF x.type = "INIT" /\ snd[x.send].opcode = "EAGER" THEN sbuf[x.send] ELSE "none"]
      OBVIOUS
<1>8. m \in Wc /\ m.op = "RECV" /\ m.type = x.type /\ m.send = x.send
      BY <1>1, <1>6, <1>7 DEF Wc, Data
<1>9. cq' = [cq EXCEPT ![d] = Append(@, m)]
      BY <1>2, <1>7 DEF NicSend
<1>10. At("sq", p, d, x.send) /\ Leaves(x.send)
       BY <1>5, <1>6, HasLeft
<1>11. Underway(x.send) /\ \A a \in Proc : x.send \notin Has(cq[a], Comes)
  <2>1. "sq" \in Place /\ "sq" # "cq"
        BY DEF Place
  <2> QED BY <1>6, <1>10, <2>1, Elsewhere DEF TokenInv
<1>12. SqOK(p, d, x)
       BY <1>5 DEF TokenInv, EntriesOK
<1>13. x \notin Reads
       BY <1>3 DEF Reads
<1>14. DoneMoves(x.send, "cq", d, d)
  <2>1. PairMore(done, done', Reads, p, d, x)
        BY <1>1, <1>3, <1>4, <1>5, <1>13, PairPuts
  <2>2. DoneOK(p, x)'
        BY <1>3, <1>12 DEF SqOK, DoneOK
  <2> QED BY <1>5, <1>13, <2>1, <2>2 DEF DoneMoves
<1>15. CqMoves(x.send, "cq", d, d)
  <2>1. RowMore(cq, cq', Comes, d, m)
        BY <1>1, <1>4, <1>8, <1>9, <1>11, RowPuts
  <2>2. CqOK(d, m)'
        BY <1>3, <1>8, <1>12 DEF SqOK, CqOK, Rendezvous
  <2> QED BY <1>8, <2>1, <2>2 DEF CqMoves
<1>16. SqMoves(x.send, "cq", d, d)
       BY <1>5 DEF SqMoves
<1>17. AqMoves(x.send, "cq", d, d) /\ PollerMoves(x.send, "cq", d, d)
       BY <1>3, SameLess DEF TokenInv
<1>18. Goes(x.send, "cq", d, d)
       BY <1>10, <1>11, <1>14, <1>15, <1>16, <1>17 DEF Goes
<1> QED BY <1>18 DEF Gone

LEMMA NicReadMoves ==
    ASSUME TypeInv, TokenInv, CallsKept, NEW p \in Proc, NEW d \in Proc, NicRead(p, d)
    PROVE  Gone
<1>1. sq \in [Proc -> [Proc -> Seq(Wr)]] /\ done \in [Proc -> [Proc -> Seq(Wr)]]
      BY DEF TypeInv, TypeOK
<1>2. PICK x : x = Head(sq[p][d])
      OBVIOUS
<1>3. /\ sq[p][d] # <<>> /\ x.op = "READ" /\ sq' = [sq EXCEPT ![p][d] = Tail(@)]
      /\ done' = [done EXCEPT ![p][d] = Append(@, x)] /\ UNCHANGED <<cq, aq, poller>> /\ snd' = snd
      BY <1>2 DEF NicRead, app
<1>4. \A a, b \in Proc : Once(sq[a][b], Wr) /\ Once(done[a][b], Reads)
      BY DEF TokenInv, OnceEach
<1>5. /\ PairLess(sq, sq', Wr) /\ x \in Wr /\ x \in Range(sq[p][d])
      /\ x.send \in Has(sq[p][d], Wr) /\ x.send \notin Has(sq'[p][d], Wr)
      BY <1>2, <1>3, SqTakes DEF TokenInv
<1>6. x.send \in Send
      BY <1>5 DEF Wr
<1>7. At("sq", p, d, x.send) /\ Leaves(x.send)
      BY <1>5, <1>6, HasLeft
<1>8. Underway(x.send) /\ \A a, b \in Proc : x.send \notin Has(done[a][b], Reads)
  <2>1. "sq" \in Place /\ "sq" # "done"
        BY DEF Place
  <2> QED BY <1>6, <1>7, <2>1, Elsewhere DEF TokenInv
<1>9. SqOK(p, d, x)
      BY <1>5 DEF TokenInv, EntriesOK
<1>10. DoneMoves(x.send, "done", p, d)
  <2>1. PairMore(done, done', Reads, p, d, x)
        BY <1>1, <1>3, <1>4, <1>5, <1>8, PairPuts
  <2>2. DoneOK(p, x)'
        BY <1>3, <1>9 DEF SqOK, DoneOK, Rendezvous
  <2> QED BY <1>5, <2>1, <2>2 DEF DoneMoves
<1>11. SqMoves(x.send, "done", p, d)
       BY <1>5 DEF SqMoves
<1>12. CqMoves(x.send, "done", p, d) /\ AqMoves(x.send, "done", p, d) /\ PollerMoves(x.send, "done", p, d)
       BY <1>3, SameLess DEF TokenInv
<1>13. Goes(x.send, "done", p, d)
       BY <1>7, <1>8, <1>10, <1>11, <1>12 DEF Goes
<1> QED BY <1>13 DEF Gone

LEMMA NicCompleteMoves ==
    ASSUME TypeInv, TokenInv, CallsKept, NEW p \in Proc, NEW d \in Proc, NicComplete(p, d)
    PROVE  Gone
<1>1. done \in [Proc -> [Proc -> Seq(Wr)]] /\ cq \in [Proc -> Seq(Wc)]
      BY DEF TypeInv, TypeOK
<1>2. PICK x : x = Head(done[p][d])
      OBVIOUS
<1>3. /\ done[p][d] # <<>> /\ done' = [done EXCEPT ![p][d] = Tail(@)]
      /\ UNCHANGED <<sq, aq, poller>> /\ snd' = snd
      BY DEF NicComplete, app
<1>4. /\ \A a, b \in Proc : Once(done[a][b], Reads)
      /\ \A a \in Proc : Once(cq[a], Comes)
      BY DEF TokenInv, OnceEach
<1>5. /\ PairLess(done, done', Reads) /\ x \in Wr /\ x \in Range(done[p][d])
      /\ x \in Reads => x.send \in Has(done[p][d], Reads) /\ x.send \notin Has(done'[p][d], Reads)
      BY <1>2, <1>3, DoneTakes DEF TokenInv
<1>6. x.send \in Send /\ x.type \in {"INIT", "FIN"} /\ x.op \in {"SEND", "READ"} /\ x.recv \in Recv \cup {None}
      BY <1>5 DEF Wr
<1>7. PICK m : m = [op |-> x.op, type |-> x.type, send |-> x.send, recv |-> x.recv, data |-> "none"]
      OBVIOUS
<1>8. m \in Wc /\ m.op = x.op /\ m.type = x.type /\ m.send = x.send
      BY <1>6, <1>7 DEF Wc, Data
<1>9. cq' = [cq EXCEPT ![p] = Append(@, m)]
      BY <1>2, <1>7 DEF NicComplete
<1>10. DoneOK(p, x)
       BY <1>5 DEF TokenInv, EntriesOK
<1>11. CqOK(p, m)'
       BY <1>3, <1>6, <1>8, <1>10 DEF DoneOK, CqOK, Rendezvous
<1>12. \A k, e : DoneMoves(x.send, k, e, e)
       BY <1>5 DEF DoneMoves
<1>13. \A k, e : SqMoves(x.send, k, e, e) /\ AqMoves(x.send, k, e, e) /\ PollerMoves(x.send, k, e, e)
       BY <1>3, SameLess DEF TokenInv
<1>14. CASE x.op = "READ"
  <2>1. x \in Reads
        BY <1>5, <1>14 DEF Reads
  <2>2. At("done", p, d, x.send) /\ Leaves(x.send)
        BY <1>5, <1>6, <2>1, HasLeft
  <2>3. Underway(x.send) /\ \A a \in Proc : x.send \notin Has(cq[a], Comes)
    <3>1. "done" \in Place /\ "done" # "cq"
          BY DEF Place
    <3> QED BY <1>6, <2>2, <3>1, Elsewhere DEF TokenInv
  <2>4. RowMore(cq, cq', Comes, p, m)
        BY <1>1, <1>4, <1>8, <1>9, <2>3, RowPuts
  <2>5. CqMoves(x.send, "cq", p, p)
        BY <1>8, <1>11, <2>4 DEF CqMoves
  <2>6. Goes(x.send, "cq", p, p)
        BY <1>12, <1>13, <2>2, <2>3, <2>5 DEF Goes
  <2> QED BY <2>6 DEF Gone
<1>15. CASE x.op = "SEND"
  <2>1. m \notin Comes
        BY <1>8, <1>15 DEF Comes
  <2>2. RowMore(cq, cq', Comes, p, m)
        BY <1>1, <1>4, <1>8, <1>9, <2>1, RowPuts
  <2>3. CqMoves(x.send, "none", p, p)
        BY <1>8, <1>11, <2>1, <2>2 DEF CqMoves
  <2>4. "none" \notin Place
        BY DEF Place
  <2>5. Goes(x.send, "none", p, p)
        BY <1>12, <1>13, <2>3, <2>4 DEF Goes
  <2> QED BY <2>5 DEF Gone
<1> QED BY <1>6, <1>14, <1>15

\* A break takes entries away.
LEMMA BreakLess ==
    ASSUME TypeInv, TokenInv, CallsKept, NEW p \in Proc, NEW d \in Proc, Break(p, d)
    PROVE  PairLess(sq, sq', Wr) /\ PairLess(done, done', Reads) /\ UNCHANGED <<cq, aq, poller>>
<1>1. sq \in [Proc -> [Proc -> Seq(Wr)]] /\ done \in [Proc -> [Proc -> Seq(Wr)]]
      BY DEF TypeInv, TypeOK
<1>2. /\ p # d /\ sq' = [sq EXCEPT ![p][d] = <<>>, ![d][p] = <<>>] /\ UNCHANGED <<cq, aq, poller>>
      BY DEF Break
<1>3. PICK m \in 0 .. Len(done[p][d]), n \in 0 .. Len(done[d][p]) :
         done' = [done EXCEPT ![p][d] = SubSeq(@, 1, m), ![d][p] = SubSeq(@, 1, n)]
      BY DEF Break
<1>4. \A a, b \in Proc : Once(sq[a][b], Wr) /\ Once(done[a][b], Reads)
      BY DEF TokenInv, OnceEach
<1>5. \A a, b \in Proc : sq'[a][b] = <<>> \/ sq'[a][b] = sq[a][b]
      BY <1>1, <1>2
<1>6. PairLess(sq, sq', Wr)
  <2>1. PICK E : E = <<>>
        OBVIOUS
  <2>2. Once(E, Wr) /\ Has(E, Wr) = {} /\ Range(E) = {}
        BY <2>1 DEF Once, Precedes, Has, Range
  <2> HIDE DEF Once, Has, Range
  <2>3. \A a, b \in Proc : sq'[a][b] = E \/ sq'[a][b] = sq[a][b]
        BY <1>5, <2>1
  <2> QED BY <1>4, <2>2, <2>3 DEF PairLess
<1>7. \A a, b \in Proc : done'[a][b] = done[a][b] \/ \E j \in 0 .. Len(done[a][b]) : done'[a][b] = SubSeq(done[a][b], 1, j)
  <2>1. \A a, b \in Proc : done'[a][b] = IF a = p /\ b = d THEN SubSeq(done[p][d], 1, m)
                                        ELSE IF a = d /\ b = p THEN SubSeq(done[d][p], 1, n) ELSE done[a][b]
    <3>1. PICK A, B : A = SubSeq(done[p][d], 1, m) /\ B = SubSeq(done[d][p], 1, n)
          OBVIOUS
    <3>2. done' = [done EXCEPT ![p][d] = A, ![d][p] = B]
          BY <1>2, <1>3, <3>1
    <3>3. \A a, b \in Proc : done'[a][b] = IF a = p /\ b = d THEN A ELSE IF a = d /\ b = p THEN B ELSE done[a][b]
      <4>1. PICK h : h = [done EXCEPT ![p][d] = A]
            OBVIOUS
      <4>2. done' = [h EXCEPT ![d][p] = B]
            BY <3>2, <4>1
      <4>3. h \in [Proc -> [Proc -> Seq(Wr) \cup {A}]]
        <5>1. \A a, b \in Proc : done[a][b] \in Seq(Wr) \cup {A}
              BY <1>1
        <5> QED BY <1>1, <4>1, <5>1
      <4>4. \A a, b \in Proc : h[a][b] = IF a = p /\ b = d THEN A ELSE done[a][b]
            BY <1>1, <4>1
      <4>5. \A a, b \in Proc : done'[a][b] = IF a = d /\ b = p THEN B ELSE h[a][b]
            BY <4>2, <4>3
      <4> QED BY <1>2, <4>4, <4>5
    <3> QED BY <3>1, <3>3
  <2> QED BY <2>1, ZenonT(120)
<1>8. PairLess(done, done', Reads)
  <2> SUFFICES ASSUME NEW a \in Proc, NEW b \in Proc
               PROVE  /\ Once(done'[a][b], Reads) /\ Has(done'[a][b], Reads) \subseteq Has(done[a][b], Reads)
                      /\ Range(done'[a][b]) \subseteq Range(done[a][b])
      BY DEF PairLess
  <2> HIDE DEF Once, Has, Range
  <2>1. CASE done'[a][b] = done[a][b]
        BY <1>4, <2>1
  <2>2. ASSUME NEW j \in 0 .. Len(done[a][b]), done'[a][b] = SubSeq(done[a][b], 1, j)
        PROVE  /\ Once(done'[a][b], Reads) /\ Has(done'[a][b], Reads) \subseteq Has(done[a][b], Reads)
               /\ Range(done'[a][b]) \subseteq Range(done[a][b])
    <3>1. done[a][b] \in Seq(Wr)
          BY <1>1
    <3>2. PICK q \in Seq(Wr) : q = done[a][b]
          BY <3>1
    <3>3. j \in 0 .. Len(q) /\ Once(q, Reads)
          BY <1>4, <3>2
    <3>4. /\ Once(SubSeq(q, 1, j), Reads) /\ Has(SubSeq(q, 1, j), Reads) \subseteq Has(q, Reads)
          /\ Range(SubSeq(q, 1, j)) \subseteq Range(q)
          BY <3>3, PrefixOnce
    <3> QED BY <2>2, <3>2, <3>4
  <2> QED BY <1>7, <2>1, <2>2
<1> QED BY <1>2, <1>6, <1>8

LEMMA BreakMoves ==
    ASSUME TypeInv, TokenInv, CallsKept, NEW p \in Proc, NEW d \in Proc, Break(p, d)
    PROVE  Gone
<1>2. PairLess(sq, sq', Wr) /\ PairLess(done, done', Reads) /\ UNCHANGED <<cq, aq, poller>>
      BY BreakLess
<1>9. SqMoves(None, "none", p, d) /\ DoneMoves(None, "none", p, d)
      BY <1>2 DEF SqMoves, DoneMoves
<1>10. CqMoves(None, "none", p, d) /\ AqMoves(None, "none", p, d) /\ PollerMoves(None, "none", p, d)
       BY <1>2, SameLess DEF TokenInv
<1>11. "none" \notin Place
       BY DEF Place
<1>12. Goes(None, "none", p, d)
       BY <1>9, <1>10, <1>11 DEF Goes
<1> QED BY <1>12 DEF Gone

\* The poller of p enters or leaves a handler.
LEMMA PollerSteps ==
    ASSUME TypeInv, NEW p \in Proc, NEW v, poller' = [poller EXCEPT ![p] = v], NEW u, NEW k,
           v.pc = "fin" => Rendezvous(v.send)', v.pc = "remove" => ~ Rendezvous(v.send)',
           v.pc \in {"matched", "fin"} => v.send = u /\ k = "poller"
    PROVE  PollerMoves(u, k, p, p)
<1>1. poller \in [Proc -> Poller]
      BY DEF TypeInv, TypeOK
<1>2. poller'[p] = v /\ \A a \in Proc : a # p => poller'[a] = poller[a]
      BY <1>1
<1>3. PollerAt(p)'
      BY <1>2 DEF PollerAt, Rendezvous
<1> HIDE DEF PollerAt
<1> QED BY <1>2, <1>3 DEF PollerMoves

\* Completions that end the way of a send, or none.
LEMMA PollEndMoves ==
    ASSUME TypeInv, TokenInv, CallsKept, NEW p \in Proc,
           PollSent(p) \/ PollFinSent(p) \/ PollFin(p) \/ RemoveSendReq(p)
    PROVE  Gone
<1>1. UNCHANGED <<sq, done, aq>> /\ snd' = snd
      BY DEF PollSent, PollFinSent, PollFin, RemoveSendReq, app, nic
<1>2. CqMoves(None, "none", p, p)
  <2>1. CASE cq' = cq
        BY <2>1, SameLess DEF TokenInv
  <2>2. CASE cq[p] # <<>> /\ cq' = [cq EXCEPT ![p] = Tail(@)]
    <3>1. PICK x : x = Head(cq[p])
          OBVIOUS
    <3>2. CqHead(p, x)
          BY <2>2, <3>1, CqTakes DEF TokenInv
    <3> QED BY <3>2 DEF CqHead, CqMoves
  <2> QED BY <2>1, <2>2 DEF PollSent, PollFinSent, PollFin, RemoveSendReq, Polled, nic
<1>3. PollerMoves(None, "none", p, p)
  <2>1. CASE poller' = poller
        BY <2>1, SameLess DEF TokenInv
  <2>2. CASE RemoveSendReq(p)
    <3>1. poller' = [poller EXCEPT ![p] = Polling] /\ Polling.pc = "poll"
          BY <2>2 DEF RemoveSendReq, Polling
    <3> QED BY <3>1, PollerSteps
  <2>3. CASE PollSent(p) /\ poller' # poller
    <3>1. PICK s : s = Head(cq[p]).send
          OBVIOUS
    <3>2. snd[s].opcode = "EAGER" /\ poller' = [poller EXCEPT ![p] = [Polling EXCEPT !.pc = "remove", !.send = s]]
          BY <2>3, <3>1 DEF PollSent
    <3>3. PICK v : v = [Polling EXCEPT !.pc = "remove", !.send = s]
          OBVIOUS
    <3>4. v.pc = "remove" /\ v.send = s
          BY <3>3 DEF Polling
    <3>5. ~ Rendezvous(s)'
          BY <1>1, <3>2 DEF Rendezvous
    <3>6. poller' = [poller EXCEPT ![p] = v]
          BY <3>2, <3>3
    <3>7. ~ Rendezvous(v.send)'
          BY <3>4, <3>5 DEF Rendezvous
    <3> QED BY <3>4, <3>6, <3>7, PollerSteps
  <2> QED BY <2>1, <2>2, <2>3 DEF PollFinSent, PollFin
<1>4. SqMoves(None, "none", p, p) /\ DoneMoves(None, "none", p, p) /\ AqMoves(None, "none", p, p)
      BY <1>1, SameLess DEF TokenInv
<1>5. "none" \notin Place
      BY DEF Place
<1>6. Goes(None, "none", p, p)
      BY <1>2, <1>3, <1>4, <1>5 DEF Goes
<1> QED BY <1>6 DEF Gone

\* A message comes in: its send goes to a receive, or to aq.
LEMMA PollInitMoves ==
    ASSUME TypeInv, TokenInv, CallsKept, NEW p \in Proc, PollInit(p)
    PROVE  Gone
<1>1. PICK x : x = Head(cq[p])
      OBVIOUS
<1>2. /\ cq[p] # <<>> /\ x.op = "RECV" /\ x.type = "INIT" /\ cq' = [cq EXCEPT ![p] = Tail(@)]
      /\ UNCHANGED <<sq, done>> /\ snd' = snd
      BY <1>1 DEF PollInit, Polled, app
<1>3. CqHead(p, x)
      BY <1>1, <1>2, CqTakes DEF TokenInv
<1>4. x \in Wc /\ x \in Comes /\ x.send \in Send /\ x.data \in Data
      BY <1>2, <1>3 DEF CqHead, Comes, Wc
<1>5. x.send \in Has(cq[p], Comes) /\ x.send \notin Has(cq'[p], Comes) /\ RowLess(cq, cq', Comes)
      BY <1>3, <1>4 DEF CqHead
<1>6. At("cq", p, p, x.send) /\ Leaves(x.send)
      BY <1>4, <1>5, HasLeft
<1>7. Underway(x.send) /\ \A a \in Proc : x.send \notin Has(aq[a], Arrived)
  <2>1. "cq" \in Place /\ "cq" # "aq"
        BY DEF Place
  <2> QED BY <1>4, <1>6, <2>1, Elsewhere DEF TokenInv
<1>8. Started(x.send)
      BY <1>4, <1>7 DEF TokenInv, PostedFirst, Started
<1>9. ~ Discarded(p, x.send)
      BY <1>4, <1>8, NeverDiscarded
<1>10. \A k : SqMoves(x.send, k, p, p) /\ DoneMoves(x.send, k, p, p)
       BY <1>2, SameLess DEF TokenInv
<1>11. \A k : CqMoves(x.send, k, p, p)
       BY <1>5 DEF CqMoves
<1>12. \/ \E v : v.pc = "matched" /\ v.send = x.send /\ poller' = [poller EXCEPT ![p] = v] /\ aq' = aq
       \/ /\ poller' = poller
          /\ aq' = [aq EXCEPT ![p] = Append(@, [send |-> x.send, data |-> x.data])]
  <2>1. \/ \E i \in DOMAIN pq[p] :
             /\ poller' = [poller EXCEPT ![p] =
                   [pc |-> "matched", send |-> x.send, data |-> x.data, recv |-> pq[p][i]]]
             /\ aq' = aq
        \/ /\ poller' = poller
           /\ aq' = [aq EXCEPT ![p] = Append(@, [send |-> x.send, data |-> x.data])]
        BY <1>1, <1>9 DEF PollInit
  <2>2. ASSUME NEW i \in DOMAIN pq[p],
               poller' = [poller EXCEPT ![p] =
                   [pc |-> "matched", send |-> x.send, data |-> x.data, recv |-> pq[p][i]]],
               aq' = aq
        PROVE  \E v : v.pc = "matched" /\ v.send = x.send /\ poller' = [poller EXCEPT ![p] = v] /\ aq' = aq
    <3>1. PICK v : v = [pc |-> "matched", send |-> x.send, data |-> x.data, recv |-> pq[p][i]]
          OBVIOUS
    <3>2. v.pc = "matched" /\ v.send = x.send /\ poller' = [poller EXCEPT ![p] = v]
          BY <2>2, <3>1
    <3> QED BY <2>2, <3>2
  <2> QED BY <2>1, <2>2
<1>13. ASSUME NEW v, v.pc = "matched", v.send = x.send, poller' = [poller EXCEPT ![p] = v], aq' = aq
       PROVE  Gone
  <2>1. PollerMoves(x.send, "poller", p, p)
        BY <1>13, PollerSteps
  <2>2. AqMoves(x.send, "poller", p, p)
        BY <1>13, SameLess DEF TokenInv
  <2>3. Goes(x.send, "poller", p, p)
        BY <1>6, <1>7, <1>10, <1>11, <2>1, <2>2 DEF Goes
  <2> QED BY <2>3 DEF Gone
<1>14. CASE /\ poller' = poller
            /\ aq' = [aq EXCEPT ![p] = Append(@, [send |-> x.send, data |-> x.data])]
  <2>1. PICK e : e = [send |-> x.send, data |-> x.data]
        OBVIOUS
  <2>2. e \in Arrived /\ e.send = x.send
        BY <1>4, <2>1 DEF Arrived
  <2>3. aq' = [aq EXCEPT ![p] = Append(@, e)] /\ aq \in [Proc -> Seq(Arrived)]
        BY <1>14, <2>1 DEF TypeInv, TypeOK
  <2>4. \A a \in Proc : Once(aq[a], Arrived)
        BY DEF TokenInv, OnceEach
  <2>5. RowMore(aq, aq', Arrived, p, e)
        BY <1>7, <2>2, <2>3, <2>4, RowPuts
  <2>6. AqMoves(x.send, "aq", p, p)
        BY <2>2, <2>5 DEF AqMoves
  <2>7. PollerMoves(x.send, "aq", p, p)
        BY <1>14, SameLess DEF TokenInv
  <2>8. Goes(x.send, "aq", p, p)
        BY <1>6, <1>7, <1>10, <1>11, <2>6, <2>7 DEF Goes
  <2> QED BY <2>8 DEF Gone
<1> QED BY <1>12, <1>13, <1>14

\* A READ is reported: the handler answers with a FIN.
LEMMA PollReadMoves ==
    ASSUME TypeInv, TokenInv, CallsKept, NEW p \in Proc, PollRead(p)
    PROVE  Gone
<1>1. PICK x : x = Head(cq[p])
      OBVIOUS
<1>2. /\ cq[p] # <<>> /\ x.op = "READ" /\ cq' = [cq EXCEPT ![p] = Tail(@)]
      /\ UNCHANGED <<sq, done, aq>> /\ snd' = snd
      /\ poller' = [poller EXCEPT ![p] = [Polling EXCEPT !.pc = "fin", !.send = x.send]]
      BY <1>1 DEF PollRead, Polled
<1>3. CqHead(p, x)
      BY <1>1, <1>2, CqTakes DEF TokenInv
<1>4. x \in Comes /\ x.send \in Send /\ x \in Range(cq[p])
      BY <1>2, <1>3 DEF CqHead, Comes, Wc
<1>5. x.send \in Has(cq[p], Comes) /\ x.send \notin Has(cq'[p], Comes) /\ RowLess(cq, cq', Comes)
      BY <1>3, <1>4 DEF CqHead
<1>6. At("cq", p, p, x.send) /\ Leaves(x.send)
      BY <1>4, <1>5, HasLeft
<1>7. Underway(x.send)
      BY <1>4, <1>6 DEF Underway, Place
<1>8. Rendezvous(x.send)
      BY <1>2, <1>4 DEF TokenInv, EntriesOK, CqOK
<1>9. PICK v : v = [Polling EXCEPT !.pc = "fin", !.send = x.send]
      OBVIOUS
<1>10. v.pc = "fin" /\ v.send = x.send /\ poller' = [poller EXCEPT ![p] = v]
       BY <1>2, <1>9 DEF Polling
<1>11. Rendezvous(v.send)'
       BY <1>2, <1>8, <1>10 DEF Rendezvous
<1>12. PollerMoves(x.send, "poller", p, p)
       BY <1>10, <1>11, PollerSteps
<1>13. /\ SqMoves(x.send, "poller", p, p) /\ DoneMoves(x.send, "poller", p, p)
       /\ AqMoves(x.send, "poller", p, p)
       BY <1>2, SameLess DEF TokenInv
<1>14. CqMoves(x.send, "poller", p, p)
       BY <1>5 DEF CqMoves
<1>15. Goes(x.send, "poller", p, p)
       BY <1>6, <1>7, <1>12, <1>13, <1>14 DEF Goes
<1> QED BY <1>15 DEF Gone

\* The poller leaves its handler.
LEMMA PollerBack ==
    ASSUME TypeInv, NEW p \in Proc, poller' = [poller EXCEPT ![p] = Polling]
    PROVE  poller'[p].pc = "poll" /\ \A u, k, d : PollerMoves(u, k, p, d)
<1>1. poller'[p] = Polling /\ (\A a \in Proc : a # p => poller'[a] = poller[a]) /\ Polling.pc = "poll"
      BY DEF TypeInv, TypeOK, Polling
<1>2. PollerAt(p)'
      BY <1>1 DEF PollerAt
<1> HIDE DEF PollerAt
<1> QED BY <1>1, <1>2 DEF PollerMoves

\* A READ or a FIN is posted for send s, which was at another place.
LEMMA AnswerMoves ==
    ASSUME TypeInv, TokenInv, CallsKept, NEW p \in Proc, NEW s \in Send, NEW x \in Wr, x.send = s,
           x.op = "READ" \/ x.type = "FIN", x.op = "SEND" => x.type = "FIN", snd' = snd,
           sq' = Posted(p, snd[s].src, x), UNCHANGED <<done, cq>>, Rendezvous(s),
           NEW l \in Place, l # "sq", At(l, p, p, s), Leaves(s),
           \A u, k, d : AqMoves(u, k, p, d) /\ PollerMoves(u, k, p, d)
    PROVE  Gone
<1>1. \A a, b \in Proc : s \notin Has(sq[a][b], Wr)
      BY Elsewhere DEF TokenInv
<1>2. Underway(s)
      BY Elsewhere DEF TokenInv
<1>3. snd[s].src \in Proc
      BY <1>2 DEF TokenInv, PostedFirst, TypeInv, Known, SendsKnown, Started, Message
<1>4. PICK d \in Proc : d = snd[s].src
      BY <1>3
<1>5. SqOK(p, d, x)'
      BY <1>4 DEF SqOK, Rendezvous
<1>6. SqMoves(s, "sq", p, d)
      BY <1>1, <1>4, <1>5, PostMoves DEF TokenInv
<1>7. DoneMoves(s, "sq", p, d) /\ CqMoves(s, "sq", p, d)
      BY SameLess DEF TokenInv
<1>8. Goes(s, "sq", p, d)
      BY <1>2, <1>6, <1>7 DEF Goes
<1> QED BY <1>8 DEF Gone

LEMMA SendFinMoves ==
    ASSUME TypeInv, TokenInv, CallsKept, NEW p \in Proc, SendFin(p)
    PROVE  Gone
<1>1. PICK s : s = poller[p].send
      OBVIOUS
<1>2. /\ poller[p].pc = "fin" /\ sq' = Posted(p, snd[s].src, SendWr(s, "FIN"))
      /\ poller' = [poller EXCEPT ![p] = Polling] /\ UNCHANGED <<aq, done, cq>> /\ snd' = snd
      BY <1>1 DEF SendFin, app
<1>3. s \in Send
      BY <1>1, <1>2 DEF TypeInv, PollerOK
<1>4. Rendezvous(s)
      BY <1>1, <1>2 DEF TokenInv, EntriesOK, PollerAt
<1>5. PICK x : x = SendWr(s, "FIN")
      OBVIOUS
<1>6. x \in Wr /\ x.send = s /\ x.op = "SEND" /\ x.type = "FIN" /\ sq' = Posted(p, snd[s].src, x)
      BY <1>2, <1>3, <1>5 DEF SendWr, Wr
<1>7. poller'[p].pc = "poll" /\ \A u, k, d : PollerMoves(u, k, p, d)
      BY <1>2, PollerBack
<1>8. At("poller", p, p, s) /\ Leaves(s)
      BY <1>1, <1>2, <1>3, <1>7, HasLeft
<1>9. \A u, k, d : AqMoves(u, k, p, d)
      BY <1>2, SameLess DEF TokenInv
<1>10. PICK l \in Place : l = "poller" /\ l # "sq"
       BY DEF Place
<1>11. At(l, p, p, s)
       BY <1>8, <1>10
<1> QED BY <1>2, <1>3, <1>4, <1>6, <1>7, <1>8, <1>9, <1>10, <1>11, AnswerMoves

\* A send that came in is the end of its way, if eager.
LEMMA EndMoves ==
    ASSUME OnceEach, NEW p \in Proc, UNCHANGED <<sq, done, cq>>,
           \A u, k, d : AqMoves(u, k, p, d) /\ PollerMoves(u, k, p, d)
    PROVE  Gone
<1>1. SqMoves(None, "none", p, p) /\ DoneMoves(None, "none", p, p) /\ CqMoves(None, "none", p, p)
      BY SameLess
<1>2. "none" \notin Place
      BY DEF Place
<1>3. Goes(None, "none", p, p)
      BY <1>1, <1>2 DEF Goes
<1> QED BY <1>3 DEF Gone

LEMMA DeliverMoves ==
    ASSUME TypeInv, TokenInv, CallsKept, NEW p \in Proc, Deliver(p)
    PROVE  Gone
<1>1. PICK s, r : s = poller[p].send /\ r = poller[p].recv
      OBVIOUS
<1>2. /\ poller[p].pc = "matched" /\ poller' = [poller EXCEPT ![p] = Polling]
      /\ UNCHANGED <<aq, done, cq>> /\ snd' = snd
      /\ \/ sq' = sq
         \/ snd[s].opcode = "RDMA_READ" /\ sq' = Posted(p, snd[s].src, ReadWr(s, r))
      BY <1>1 DEF Deliver
<1>3. s \in Send /\ r \in Recv
      BY <1>1, <1>2 DEF TypeInv, PollerOK
<1>4. poller'[p].pc = "poll" /\ \A u, k, d : PollerMoves(u, k, p, d)
      BY <1>2, PollerBack
<1>5. At("poller", p, p, s) /\ Leaves(s)
      BY <1>1, <1>2, <1>3, <1>4, HasLeft
<1>6. \A u, k, d : AqMoves(u, k, p, d)
      BY <1>2, SameLess DEF TokenInv
<1>7. CASE sq' = sq
      BY <1>2, <1>4, <1>6, <1>7, EndMoves DEF TokenInv
<1>8. CASE snd[s].opcode = "RDMA_READ" /\ sq' = Posted(p, snd[s].src, ReadWr(s, r))
  <2>1. PICK x : x = ReadWr(s, r)
        OBVIOUS
  <2>2. x \in Wr /\ x.send = s /\ x.op = "READ" /\ sq' = Posted(p, snd[s].src, x)
        BY <1>3, <1>8, <2>1 DEF ReadWr, Wr
  <2>3. Rendezvous(s)
        BY <1>8 DEF Rendezvous
  <2>4. PICK l \in Place : l = "poller" /\ l # "sq"
        BY DEF Place
  <2>5. At(l, p, p, s)
        BY <1>5, <2>4
  <2> QED BY <1>2, <1>3, <1>4, <1>5, <1>6, <2>2, <2>3, <2>4, <2>5, AnswerMoves
<1> QED BY <1>2, <1>7, <1>8

LEMMA IrecvMoves ==
    ASSUME TypeInv, TokenInv, CallsKept, NEW p \in Proc, NEW r \in Recv, Irecv(p, r)
    PROVE  Gone
<1>1. UNCHANGED <<done, cq, poller>> /\ snd' = snd
      BY DEF Irecv
<1>2. \/ UNCHANGED <<sq, aq>>
      \/ \E i \in DOMAIN aq[p] :
            /\ aq' = [aq EXCEPT ![p] = RemoveAt(@, i)]
            /\ \/ sq' = sq
               \/ /\ snd[aq[p][i].send].opcode = "RDMA_READ"
                  /\ sq' = Posted(p, snd[aq[p][i].send].src, ReadWr(aq[p][i].send, r))
  <2>1. PICK q : (\E i \in DOMAIN aq[p] : IrecvArrived(p, r, q, i)) \/ IrecvWaits(p, r, q)
        BY DEF Irecv
  <2> QED BY <2>1 DEF IrecvArrived, IrecvWaits
<1>3. CASE UNCHANGED <<sq, aq>>
      BY <1>1, <1>3, NothingMoves DEF TokenInv
<1>4. ASSUME NEW i \in DOMAIN aq[p], aq' = [aq EXCEPT ![p] = RemoveAt(@, i)],
             \/ sq' = sq
             \/ /\ snd[aq[p][i].send].opcode = "RDMA_READ"
                /\ sq' = Posted(p, snd[aq[p][i].send].src, ReadWr(aq[p][i].send, r))
      PROVE  Gone
  <2>1. aq[p][i] \in Arrived
        BY EntryType DEF TypeInv
  <2>2. PICK e \in Arrived : e = aq[p][i] /\ e.send \in Send
        BY <2>1 DEF Arrived
  <2>3. PICK s \in Send : s = e.send
        BY <2>2
  <2>4. s \in Has(aq[p], Arrived) /\ s \notin Has(aq'[p], Arrived) /\ RowLess(aq, aq', Arrived)
    <3>1. PICK f, g, S : f = aq /\ g = aq' /\ S = Arrived
          OBVIOUS
    <3>2. /\ f \in [Proc -> Seq(S)] /\ g = [f EXCEPT ![p] = RemoveAt(@, i)] /\ i \in DOMAIN f[p]
          /\ e = f[p][i] /\ e \in S /\ e.send \in Send /\ \A a \in Proc : Once(f[a], S)
          BY <1>4, <2>2, <3>1 DEF TypeInv, TypeOK, TokenInv, OnceEach
    <3>3. RowPops(f, g, S, S, p, e)
          BY <3>2, RowDrops
    <3> QED BY <2>3, <3>1, <3>2, <3>3 DEF RowPops
  <2>5. At("aq", p, p, s) /\ Leaves(s)
        BY <2>4, HasLeft
  <2>6. \A u, k, d : AqMoves(u, k, p, d) /\ PollerMoves(u, k, p, d)
        BY <1>1, <2>4, SameLess DEF TokenInv, AqMoves
  <2>7. CASE sq' = sq
        BY <1>1, <2>6, <2>7, EndMoves DEF TokenInv
  <2>8. CASE snd[s].opcode = "RDMA_READ" /\ sq' = Posted(p, snd[s].src, ReadWr(s, r))
    <3>1. PICK x : x = ReadWr(s, r)
          OBVIOUS
    <3>2. x \in Wr /\ x.send = s /\ x.op = "READ" /\ sq' = Posted(p, snd[s].src, x)
          BY <2>8, <3>1 DEF ReadWr, Wr
    <3>3. Rendezvous(s)
          BY <2>8 DEF Rendezvous
    <3>4. PICK l \in Place : l = "aq" /\ l # "sq"
          BY DEF Place
    <3>5. At(l, p, p, s)
          BY <2>5, <3>4
    <3> QED BY <1>1, <2>5, <2>6, <3>2, <3>3, <3>4, <3>5, AnswerMoves
  <2> QED BY <1>4, <2>2, <2>3, <2>7, <2>8
<1> QED BY <1>2, <1>3, <1>4

LEMMA NextMoves ==
    ASSUME TypeInv, TokenInv, [Next]_vars
    PROVE  Gone /\ CallsKept /\ PostedKept
<1>1. CallsKept /\ PostedKept
      BY NextCallsKept, NextPostedKept
<1>2. OnceEach
      BY DEF TokenInv
<1> HIDE DEF Gone
<1>3. ASSUME UNCHANGED vars PROVE Gone
      BY <1>2, <1>3, NothingMoves DEF vars, nic
<1>4. ASSUME NEW p \in Proc, NEW s \in Send, IsendEnq(p, s) PROVE Gone
      BY <1>2, <1>4, NothingMoves DEF IsendEnq, nic
<1>5. ASSUME NEW s \in Send, IsendPost(s) PROVE Gone
      BY <1>1, <1>5, IsendPostMoves
<1>6. ASSUME NEW s \in Send, ReuseSendBuffer(s) PROVE Gone
      BY <1>2, <1>6, NothingMoves DEF ReuseSendBuffer, nic
<1>7. ASSUME NEW p \in Proc, NEW r \in Recv, Irecv(p, r) PROVE Gone
      BY <1>1, <1>7, IrecvMoves
<1>8. ASSUME NEW p \in Proc, PollerStep(p) PROVE Gone
      BY <1>1, <1>8, PollInitMoves, DeliverMoves, PollReadMoves, SendFinMoves, PollEndMoves DEF PollerStep
<1>9. ASSUME NEW p \in Proc, NEW d \in Proc, NicStep(p, d) PROVE Gone
      BY <1>1, <1>9, NicSendMoves, NicReadMoves DEF NicStep
<1>10. ASSUME NEW p \in Proc, NEW d \in Proc, NicComplete(p, d) PROVE Gone
       BY <1>1, <1>10, NicCompleteMoves
<1>11. ASSUME NEW p \in Proc, NEW d \in Proc, Break(p, d) PROVE Gone
       BY <1>1, <1>11, BreakMoves
<1>12. ASSUME NEW p \in Proc, NEW d \in Proc, Disconnected(p, d) PROVE Gone
       BY <1>2, <1>12, NothingMoves DEF Disconnected, nic
<1>13. ASSUME Next PROVE Gone
       BY <1>4, <1>5, <1>6, <1>7, <1>8, <1>9, <1>10, <1>11, <1>12, <1>13 DEF Next
<1> QED BY <1>1, <1>3, <1>13

LEMMA NextToken == TypeInv /\ TokenInv /\ [Next]_vars => TokenInv'
<1> SUFFICES ASSUME TypeInv, TokenInv, [Next]_vars PROVE TokenInv'
    OBVIOUS
<1>1. Gone /\ CallsKept /\ PostedKept
      BY NextMoves
<1>2. PICK u, k, p, d : Goes(u, k, p, d)
      BY <1>1 DEF Gone
<1> QED BY <1>1, <1>2, MovesToken

LEMMA InitToken == Init => TokenInv
<1> SUFFICES ASSUME Init PROVE TokenInv
    OBVIOUS
<1>1. PICK E : E = <<>>
      OBVIOUS
<1>2. /\ \A p, d \in Proc : sq[p][d] = E /\ done[p][d] = E
      /\ \A p \in Proc : cq[p] = E /\ aq[p] = E /\ poller[p].pc = "poll"
      BY <1>1 DEF Init, Polling
<1>3. Range(E) = {} /\ \A I : Has(E, I) = {} /\ Once(E, I)
      BY <1>1 DEF Has, Range, Once, Precedes
<1> HIDE DEF Has, Once, Range
<1>4. \A k, p, d, s : p \in Proc /\ d \in Proc => ~ At(k, p, d, s)
      BY <1>2, <1>3 DEF At
<1> HIDE DEF At
<1>5. OnePlace /\ PostedFirst
      BY <1>4 DEF OnePlace, PostedFirst, Underway
<1>6. OnceEach
      BY <1>2, <1>3 DEF OnceEach
<1>7. EntriesOK
      BY <1>2, <1>3 DEF EntriesOK, PollerAt
<1> QED BY <1>5, <1>6, <1>7 DEF TokenInv

-----------------------------------------------------------------------------
(* Counting FINs and requests *)

LEMMA CountKept ==
    ASSUME NEW A, NEW B, NEW R, NEW T, IsFiniteSet(A), IsFiniteSet(R), IsFiniteSet(T),
           Cardinality(A) <= Cardinality(R), B \subseteq A, R \subseteq T
    PROVE  IsFiniteSet(B) /\ Cardinality(B) <= Cardinality(T)
<1>1. IsFiniteSet(B) /\ Cardinality(B) <= Cardinality(A)
      BY FS_Subset
<1>2. Cardinality(R) <= Cardinality(T)
      BY FS_Subset
<1>3. Cardinality(A) \in Nat /\ Cardinality(B) \in Nat /\ Cardinality(R) \in Nat /\ Cardinality(T) \in Nat
      BY <1>1, FS_CardinalityType
<1> QED BY <1>1, <1>2, <1>3

LEMMA CountMore ==
    ASSUME NEW A, NEW B, NEW R, NEW T, NEW s, IsFiniteSet(A), IsFiniteSet(R),
           Cardinality(A) <= Cardinality(R), B \subseteq A \cup {s}, T = R \cup {s}, s \notin R
    PROVE  IsFiniteSet(B) /\ Cardinality(B) <= Cardinality(T)
<1>1. Cardinality(A) \in Nat /\ Cardinality(R) \in Nat
      BY FS_CardinalityType
<1>2. IsFiniteSet(A \cup {s}) /\ Cardinality(A \cup {s}) <= Cardinality(A) + 1
  <2>1. IsFiniteSet(A \cup {s}) /\ Cardinality(A \cup {s}) = IF s \in A THEN Cardinality(A) ELSE Cardinality(A) + 1
        BY FS_AddElement
  <2> QED BY <1>1, <2>1
<1>3. IsFiniteSet(T) /\ Cardinality(T) = Cardinality(R) + 1
      BY FS_AddElement
<1>4. Cardinality(A \cup {s}) \in Nat
      BY <1>2, FS_CardinalityType
<1>5. IsFiniteSet(B) /\ Cardinality(B) <= Cardinality(A \cup {s})
      BY <1>2, FS_Subset
<1>6. Cardinality(B) \in Nat
      BY <1>5, FS_CardinalityType
<1> QED BY <1>1, <1>2, <1>3, <1>4, <1>5, <1>6

LosesOne(A, B, s)  == s \in A /\ B \subseteq A \ {s}
AtMostOne(R, T, h) == R \ {h} \subseteq T

LEMMA CountLess ==
    ASSUME NEW A, NEW B, NEW R, NEW T, NEW s, NEW h, IsFiniteSet(A), IsFiniteSet(R), IsFiniteSet(T),
           Cardinality(A) <= Cardinality(R), LosesOne(A, B, s), AtMostOne(R, T, h)
    PROVE  IsFiniteSet(B) /\ Cardinality(B) <= Cardinality(T)
<1>0. s \in A /\ B \subseteq A \ {s} /\ R \ {h} \subseteq T
      BY DEF LosesOne, AtMostOne
<1>1. Cardinality(A) \in Nat /\ Cardinality(R) \in Nat /\ Cardinality(T) \in Nat
      BY FS_CardinalityType
<1>2. IsFiniteSet(A \ {s}) /\ Cardinality(A \ {s}) = Cardinality(A) - 1
      BY <1>0, <1>1, FS_RemoveElement
<1>3. IsFiniteSet(R \ {h}) /\ Cardinality(R \ {h}) >= Cardinality(R) - 1
  <2>1. IsFiniteSet(R \ {h}) /\ Cardinality(R \ {h}) = IF h \in R THEN Cardinality(R) - 1 ELSE Cardinality(R)
        BY FS_RemoveElement
  <2> QED BY <1>1, <2>1
<1>4. Cardinality(A \ {s}) \in Nat /\ Cardinality(R \ {h}) \in Nat
      BY <1>2, <1>3, FS_CardinalityType
<1>5. Cardinality(R \ {h}) <= Cardinality(T)
      BY <1>0, FS_Subset
<1>6. IsFiniteSet(B) /\ Cardinality(B) <= Cardinality(A \ {s})
      BY <1>0, <1>2, FS_Subset
<1>7. Cardinality(B) \in Nat
      BY <1>6, FS_CardinalityType
<1> QED BY <1>1, <1>2, <1>3, <1>4, <1>5, <1>6, <1>7

LEMMA RangeCount ==
    ASSUME NEW S, NEW q \in Seq(S)
    PROVE  IsFiniteSet(Range(q)) /\ Cardinality(Range(q)) <= Len(q)
<1>1. Len(q) \in Nat /\ DOMAIN q = 1 .. Len(q)
      BY LenProperties
<1>2. IsFiniteSet(1 .. Len(q)) /\ Cardinality(1 .. Len(q)) = Len(q)
      BY <1>1, FS_Interval, SMTT(60)
<1>3. PICK f : f = [i \in 1 .. Len(q) |-> q[i]]
      OBVIOUS
<1>4. f \in Surjection(1 .. Len(q), Range(q))
      BY <1>1, <1>3 DEF Surjection, Range
<1>5. IsFiniteSet(Range(q)) /\ Cardinality(Range(q)) <= Cardinality(1 .. Len(q))
      BY <1>2, <1>4, FS_Surjection
<1> QED BY <1>2, <1>5

LEMMA RemoveFirstRange ==
    ASSUME NEW S, NEW q \in Seq(S), NEW e
    PROVE  /\ Range(q) \ {e} \subseteq Range(RemoveFirst(q, e))
           /\ Range(RemoveFirst(q, e)) \subseteq Range(q)
<1> DEFINE I == {i \in 1 .. Len(q) : q[i] = e}
<1>0. Len(q) \in Nat /\ DOMAIN q = 1 .. Len(q)
      BY LenProperties
<1>1. CASE I = {}
      BY <1>1 DEF RemoveFirst
<1>2. CASE I # {}
  <2>1. I \subseteq Nat
        BY <1>0
  <2>2. Min(I) \in I
    <3> HIDE DEF I
    <3> QED BY <1>2, <2>1, LeastPlace
  <2>3. PICK m \in 1 .. Len(q) : m = Min(I) /\ q[m] = e
        BY <2>2
  <2>4. RemoveFirst(q, e) = RemoveAt(q, m)
        BY <1>2, <2>3 DEF RemoveFirst, SelectInSeq
  <2>5. PICK a : a = RemoveAt(q, m)
        OBVIOUS
  <2>6. /\ a \in Seq(S) /\ Len(a) = Len(q) - 1
        /\ \A j \in 1 .. Len(q) - 1 : a[j] = IF j < m THEN q[j] ELSE q[j + 1]
        BY <2>5, RemoveAtPoints
  <2>7. DOMAIN a = 1 .. Len(q) - 1
        BY <2>6, LenProperties
  <2>8. ASSUME NEW x \in Range(q), x # e PROVE x \in Range(a)
    <3>1. PICK i \in 1 .. Len(q) : q[i] = x
          BY <1>0 DEF Range
    <3>2. i # m
          BY <2>3, <2>8, <3>1
    <3>3. CASE i < m
      <4>1. i \in 1 .. Len(q) - 1 /\ a[i] = q[i]
            BY <1>0, <2>6, <3>3
      <4> QED BY <2>7, <3>1, <4>1 DEF Range
    <3>4. CASE i > m
      <4>1. i - 1 \in 1 .. Len(q) - 1 /\ ~ (i - 1 < m) /\ (i - 1) + 1 = i
            BY <1>0, <3>4
      <4>2. a[i - 1] = q[i]
            BY <2>6, <4>1
      <4> QED BY <2>7, <3>1, <4>1, <4>2 DEF Range
    <3> QED BY <3>2, <3>3, <3>4
  <2>9. ASSUME NEW x \in Range(a) PROVE x \in Range(q)
    <3>1. PICK j \in 1 .. Len(q) - 1 : a[j] = x
          BY <2>7 DEF Range
    <3>2. a[j] = q[j] \/ a[j] = q[j + 1]
          BY <2>6
    <3>3. j \in DOMAIN q /\ j + 1 \in DOMAIN q
          BY <1>0
    <3> QED BY <3>1, <3>2, <3>3 DEF Range
  <2> QED BY <2>4, <2>5, <2>8, <2>9
<1> QED BY <1>1, <1>2

\* Only the call of isend makes a send expected.
LEMMA ExpectedLess ==
    ASSUME TypeInv, TokenInv, CallsKept, NEW u, NEW k, NEW p, NEW d, Goes(u, k, p, d),
           NEW s \in Send, NEW a \in Proc, s \in Expected(a)', Started(s),
           isend_pc'[s] = "enqueued" => isend_pc[s] = "enqueued"
    PROVE  s \in Expected(a)
<1>1. snd'[s] = snd[s]
      BY DEF CallsKept
<1>2. snd'[s].src = a /\ Rendezvous(s)' /\ (isend_pc'[s] = "enqueued" \/ Underway(s)')
      BY DEF Expected
<1>3. Underway(s)' => isend_pc[s] = "enqueued" \/ Underway(s)
  <2> SUFFICES ASSUME Underway(s)' PROVE isend_pc[s] = "enqueued" \/ Underway(s)
      OBVIOUS
  <2>1. Underway(s) \/ (s = u /\ k \in Place)
        BY MovesGain, GainsUnderway
  <2> HIDE DEF Underway
  <2> QED BY <2>1 DEF Goes
<1> HIDE DEF Underway
<1> QED BY <1>1, <1>2, <1>3 DEF Expected, Rendezvous

\* The requests that a step leaves.
LEMMA RequestsKept ==
    ASSUME TypeInv, CountInv, CallsKept, NEW a \in Proc
    PROVE  /\ IsFiniteSet(Requests(a))
           /\ \A s \in Range(send_req_q[a]) : s \in Send /\ Started(s) /\ (Rendezvous(s)' <=> Rendezvous(s))
<1>1. send_req_q[a] \in Seq(Send)
      BY DEF TypeInv, TypeOK
<1>2. IsFiniteSet(Range(send_req_q[a]))
      BY <1>1, RangeCount
<1>3. IsFiniteSet(Requests(a))
  <2>1. Requests(a) \subseteq Range(send_req_q[a])
        BY DEF Requests
  <2> QED BY <1>2, <2>1, FS_Subset
<1>4. \A s \in Range(send_req_q[a]) : s \in Send
      BY <1>1, LenProperties, ElementOfSeq DEF Range
<1>5. \A s \in Range(send_req_q[a]) : Started(s)
      BY DEF CountInv, CountAt
<1>6. \A s \in Range(send_req_q[a]) : snd'[s] = snd[s]
      BY <1>4, <1>5 DEF CallsKept
<1> HIDE DEF Range
<1> QED BY <1>3, <1>4, <1>5, <1>6 DEF Rendezvous

StartedKept == \A s \in Send : Started(s) => Started(s)'

\* A step that leaves the request queue of process a alone.
LEMMA CountSame ==
    ASSUME TypeInv, TokenInv, CountInv, CallsKept, StartedKept, NEW a \in Proc,
           send_req_q'[a] = send_req_q[a], Expected(a)' \subseteq Expected(a)
    PROVE  CountAt(a)'
<1>1. /\ IsFiniteSet(Requests(a))
      /\ \A s \in Range(send_req_q[a]) : s \in Send /\ Started(s) /\ (Rendezvous(s)' <=> Rendezvous(s))
      BY RequestsKept
<1> HIDE DEF Range
<1>2. \A s \in Range(send_req_q'[a]) : Started(s)'
      BY <1>1 DEF StartedKept
<1>3. PICK A, B, R, T : A = Expected(a) /\ B = Expected(a)' /\ R = Requests(a) /\ T = Requests(a)'
      OBVIOUS
<1>4. T = R
  <2>1. \A s : s \in Requests(a) <=> s \in Range(send_req_q[a]) /\ Rendezvous(s)
        BY DEF Requests
  <2>2. \A s : s \in Requests(a)' <=> s \in Range(send_req_q'[a]) /\ Rendezvous(s)'
        BY DEF Requests, Range
  <2> QED BY <1>1, <1>3, <2>1, <2>2
<1>5. IsFiniteSet(A) /\ IsFiniteSet(R) /\ Cardinality(A) <= Cardinality(R) /\ B \subseteq A
      BY <1>1, <1>3 DEF CountInv, CountAt
<1>6. IsFiniteSet(B) /\ Cardinality(B) <= Cardinality(T)
      BY <1>4, <1>5, CountKept
<1> QED BY <1>2, <1>3, <1>6 DEF CountAt, Range

\* The queue after the step is finite too, and what is in it was called.
LEMMA RequestsAfter ==
    ASSUME TypeInv', CountInv, CallsKept, StartedKept, NEW a \in Proc,
           \A s \in Range(send_req_q'[a]) : Started(s)'
    PROVE  IsFiniteSet(Requests(a)')
<1>1. send_req_q'[a] \in Seq(Send)
      BY DEF TypeInv, TypeOK
<1>2. PICK q \in Seq(Send) : q = send_req_q'[a]
      BY <1>1
<1>3. IsFiniteSet(Range(q))
      BY RangeCount
<1>4. PICK T : T = Requests(a)'
      OBVIOUS
<1>5. T \subseteq Range(q)
      BY <1>2, <1>4 DEF Requests, Range
<1>6. IsFiniteSet(T)
      BY <1>3, <1>5, FS_Subset
<1> QED BY <1>4, <1>6

LEMMA IsendEnqCount ==
    ASSUME TypeInv, TypeInv', TokenInv, CountInv, CallsKept, StartedKept, Gone,
           NEW p \in Proc, NEW v \in Send, IsendEnq(p, v)
    PROVE  CountInv'
<1>1. /\ isend_pc[v] = "idle" /\ isend_pc' = [isend_pc EXCEPT ![v] = "enqueued"]
      /\ send_req_q' = [send_req_q EXCEPT ![p] = Append(@, v)] /\ poller' = poller
      BY DEF IsendEnq
<1>2. isend_pc'[v] = "enqueued" /\ \A s \in Send : s # v => isend_pc'[s] = isend_pc[s]
      BY <1>1 DEF TypeInv, TypeOK
<1>3. snd'[v].src = p
      BY DEF IsendEnq, TypeInv, TypeOK
<1>4. PICK u, k, e, d : Goes(u, k, e, d)
      BY DEF Gone
<1>5. ASSUME NEW a \in Proc, NEW s \in Expected(a)', s # v PROVE s \in Expected(a)
  <2>1. s \in Send /\ Started(s)'
        BY DEF Expected
  <2>2. Started(s) /\ (isend_pc'[s] = "enqueued" => isend_pc[s] = "enqueued")
        BY <1>2, <1>5, <2>1 DEF Started
  <2> QED BY <1>4, <2>1, <2>2, ExpectedLess
<1>6. \A s \in Range(send_req_q[p]) : s \in Send /\ Started(s) /\ (Rendezvous(s)' <=> Rendezvous(s))
      BY RequestsKept
<1>7. IsFiniteSet(Requests(p))
      BY RequestsKept
<1>8. PICK A, B, R, T : A = Expected(p) /\ B = Expected(p)' /\ R = Requests(p) /\ T = Requests(p)'
      OBVIOUS
<1>9. IsFiniteSet(A) /\ IsFiniteSet(R) /\ Cardinality(A) <= Cardinality(R)
      BY <1>7, <1>8 DEF CountInv, CountAt
<1>10. \A s : s \in Range(send_req_q'[p]) <=> s \in Range(send_req_q[p]) \/ s = v
  <2>1. send_req_q[p] \in Seq(Send) /\ send_req_q'[p] = Append(send_req_q[p], v)
        BY <1>1 DEF TypeInv, TypeOK
  <2>2. Range(Append(send_req_q[p], v)) = Range(send_req_q[p]) \cup {v}
        BY <2>1, PutLast
  <2> QED BY <2>1, <2>2
<1> HIDE DEF Range
<1>11. v \notin Range(send_req_q[p])
       BY <1>1, <1>6 DEF Started
<1>12. /\ \A s : s \in R <=> s \in Range(send_req_q[p]) /\ Rendezvous(s)
       /\ \A s : s \in T <=> s \in Range(send_req_q'[p]) /\ Rendezvous(s)'
       BY <1>8 DEF Requests, Range
<1>13. \A s : s \in T <=> s \in R \/ (s = v /\ Rendezvous(v)')
  <2> HIDE DEF Rendezvous
  <2> QED BY <1>6, <1>10, <1>11, <1>12, Zenon
<1>14. B \subseteq A \cup {v} /\ (v \in B => Rendezvous(v)')
       BY <1>5, <1>8 DEF Expected
<1>15. IsFiniteSet(B) /\ Cardinality(B) <= Cardinality(T)
  <2>1. CASE Rendezvous(v)'
    <3>1. T = R \cup {v} /\ v \notin R
          BY <1>11, <1>12, <1>13, <2>1
    <3> QED BY <1>9, <1>14, <3>1, CountMore
  <2>2. CASE ~ Rendezvous(v)'
    <3>1. T = R /\ B \subseteq A
          BY <1>13, <1>14, <2>2
    <3> QED BY <1>9, <3>1, CountKept
  <2> QED BY <2>1, <2>2
<1>16. \A s \in Range(send_req_q'[p]) : Started(s)'
       BY <1>2, <1>6, <1>10 DEF Started, StartedKept
<1>17. CountAt(p)'
       BY <1>8, <1>15, <1>16 DEF CountAt, Range
<1>18. ASSUME NEW a \in Proc, a # p PROVE CountAt(a)'
  <2>1. send_req_q'[a] = send_req_q[a]
        BY <1>1, <1>18 DEF TypeInv, TypeOK
  <2>2. v \notin Expected(a)'
        BY <1>3, <1>18 DEF Expected
  <2>3. Expected(a)' \subseteq Expected(a)
        BY <1>5, <2>2
  <2> QED BY <2>1, <2>3, CountSame
<1> HIDE DEF CountAt
<1> QED BY <1>17, <1>18 DEF CountInv

LEMMA RemoveSendReqCount ==
    ASSUME TypeInv, TypeInv', TokenInv, CountInv, CallsKept, StartedKept, Gone,
           NEW p \in Proc, RemoveSendReq(p)
    PROVE  CountInv'
<1>1. PICK e : e = poller[p].send
      OBVIOUS
<1>2. /\ poller[p].pc = "remove" /\ send_req_q' = [send_req_q EXCEPT ![p] = RemoveFirst(@, e)]
      /\ isend_pc' = isend_pc
      BY <1>1 DEF RemoveSendReq
<1>3. ~ Rendezvous(e)
      BY <1>1, <1>2 DEF TokenInv, EntriesOK, PollerAt
<1>4. PICK u, k, c, d : Goes(u, k, c, d)
      BY DEF Gone
<1>5. ASSUME NEW a \in Proc PROVE Expected(a)' \subseteq Expected(a)
  <2> SUFFICES ASSUME NEW s \in Expected(a)' PROVE s \in Expected(a)
      OBVIOUS
  <2>1. s \in Send /\ Started(s)'
        BY DEF Expected
  <2>2. Started(s) /\ (isend_pc'[s] = "enqueued" => isend_pc[s] = "enqueued")
        BY <1>2, <2>1 DEF Started
  <2> QED BY <1>4, <2>1, <2>2, ExpectedLess
<1>6. \A s \in Range(send_req_q[p]) : s \in Send /\ Started(s) /\ (Rendezvous(s)' <=> Rendezvous(s))
      BY RequestsKept
<1>7. IsFiniteSet(Requests(p))
      BY RequestsKept
<1>8. PICK q, r : q \in Seq(Send) /\ q = send_req_q[p] /\ r = send_req_q'[p] /\ r = RemoveFirst(q, e)
  <2>1. send_req_q[p] \in Seq(Send) /\ send_req_q'[p] = RemoveFirst(send_req_q[p], e)
        BY <1>2 DEF TypeInv, TypeOK
  <2> QED BY <2>1
<1>9. Range(q) \ {e} \subseteq Range(r) /\ Range(r) \subseteq Range(q)
      BY <1>8, RemoveFirstRange
<1>10. PICK A, B, R, T : A = Expected(p) /\ B = Expected(p)' /\ R = Requests(p) /\ T = Requests(p)'
       OBVIOUS
<1>11. /\ \A s : s \in R <=> s \in Range(q) /\ Rendezvous(s)
       /\ \A s : s \in T <=> s \in Range(r) /\ Rendezvous(s)'
       BY <1>8, <1>10 DEF Requests, Range
<1> HIDE DEF Range
<1>12. R \subseteq T
       BY <1>3, <1>6, <1>8, <1>9, <1>11
<1>13. \A s \in Range(send_req_q'[p]) : Started(s)'
       BY <1>6, <1>8, <1>9 DEF StartedKept
<1>14. IsFiniteSet(T)
       BY <1>10, <1>13, RequestsAfter DEF Range
<1>15. IsFiniteSet(A) /\ IsFiniteSet(R) /\ Cardinality(A) <= Cardinality(R) /\ B \subseteq A
       BY <1>5, <1>7, <1>10 DEF CountInv, CountAt
<1>16. IsFiniteSet(B) /\ Cardinality(B) <= Cardinality(T)
       BY <1>12, <1>14, <1>15, CountKept
<1>17. CountAt(p)'
       BY <1>10, <1>13, <1>16 DEF CountAt, Range
<1>18. ASSUME NEW a \in Proc, a # p PROVE CountAt(a)'
  <2>1. send_req_q'[a] = send_req_q[a]
        BY <1>2, <1>18 DEF TypeInv, TypeOK
  <2> QED BY <1>5, <2>1, CountSame
<1> HIDE DEF CountAt
<1> QED BY <1>17, <1>18 DEF CountInv

\* A FIN ends the way of its send.
FinOf(p, v) ==
    /\ \E x \in Range(cq[p]) : x = Head(cq[p]) /\ x.op = "RECV" /\ x.type = "FIN" /\ x.send = v
    /\ isend_pc[v] = "posted" /\ Rendezvous(v) /\ snd[v].src = p /\ Underway(v)
    /\ ~ Discarded(p, v)

LEMMA FinEnds ==
    ASSUME TypeInv, TokenInv, CallsKept, NEW p \in Proc, PollFin(p)
    PROVE  /\ Goes(None, "none", p, p) /\ RowLess(cq, cq', Comes)
           /\ \E v \in Send : FinOf(p, v) /\ ~ Underway(v)'
<1>1. PICK x : x = Head(cq[p])
      OBVIOUS
<1>2. /\ cq[p] # <<>> /\ x.op = "RECV" /\ x.type = "FIN" /\ cq' = [cq EXCEPT ![p] = Tail(@)]
      /\ UNCHANGED <<sq, done, aq, poller, isend_pc>> /\ snd' = snd
      BY <1>1 DEF PollFin, Polled
<1>3. CqHead(p, x)
      BY <1>1, <1>2, CqTakes DEF TokenInv
<1>4. x \in Comes /\ x.send \in Send /\ x \in Range(cq[p])
      BY <1>2, <1>3 DEF CqHead, Comes, Wc
<1>5. PICK v \in Send : v = x.send
      BY <1>4
<1>6. v \in Has(cq[p], Comes) /\ v \notin Has(cq'[p], Comes) /\ RowLess(cq, cq', Comes)
      BY <1>3, <1>4, <1>5 DEF CqHead
<1>7. At("cq", p, p, v) /\ ~ At("cq", p, p, v)'
  <2>1. PICK C : C = Comes
        OBVIOUS
  <2>2. (C = Comes)'
        BY <2>1 DEF Comes, Wc, Data
  <2> HIDE DEF Comes
  <2>3. (At("cq", p, p, v) <=> v \in Has(cq[p], C)) /\ (At("cq", p, p, v)' <=> v \in Has(cq'[p], C))
        BY <2>1, <2>2 DEF At, Has
  <2> QED BY <1>6, <2>1, <2>3
<1>8. "cq" \in Place /\ "none" \notin Place
      BY DEF Place
<1>9. Underway(v) /\ isend_pc[v] = "posted"
      BY <1>7, <1>8 DEF Underway, TokenInv, PostedFirst
<1>10. Rendezvous(v) /\ snd[v].src = p
       BY <1>2, <1>4, <1>5 DEF TokenInv, EntriesOK, CqOK
<1>11. Goes(None, "none", p, p)
  <2>1. CqMoves(None, "none", p, p)
        BY <1>6 DEF CqMoves
  <2>2. /\ SqMoves(None, "none", p, p) /\ DoneMoves(None, "none", p, p)
        /\ AqMoves(None, "none", p, p) /\ PollerMoves(None, "none", p, p)
        BY <1>2, SameLess DEF TokenInv
  <2> QED BY <1>8, <2>1, <2>2 DEF Goes
<1>12. Gains(None, "none", p, p)
       BY <1>11, MovesGain
<1>13. ~ Underway(v)'
  <2> SUFFICES ASSUME NEW l \in Place, NEW a \in Proc, NEW b \in Proc, At(l, a, b, v)' PROVE FALSE
      BY DEF Underway
  <2>1. At(l, a, b, v) \/ l = "none"
        BY <1>12, GainsAt
  <2>2. At(l, a, b, v)
        BY <1>8, <2>1
  <2> HIDE DEF At
  <2>3. l = "cq" /\ a = p /\ b = p
        BY <1>7, <1>8, <2>2 DEF TokenInv, OnePlace
  <2> QED BY <1>7, <2>3
<1>14. ~ Discarded(p, v)
       BY <1>9, NeverDiscarded DEF Started
<1>15. FinOf(p, v)
  <2> HIDE DEF Underway, Discarded, Range
  <2> QED BY <1>1, <1>2, <1>4, <1>5, <1>9, <1>10, <1>14 DEF FinOf
<1> HIDE DEF FinOf, Underway, Goes
<1> QED BY <1>6, <1>11, <1>13, <1>15

LEMMA PollFinCount ==
    ASSUME TypeInv, TypeInv', TokenInv, CountInv, CallsKept, StartedKept,
           NEW p \in Proc, PollFin(p)
    PROVE  CountInv'
<1>1. PICK x : x = Head(cq[p])
      OBVIOUS
<1>2. /\ cq[p] # <<>> /\ x.op = "RECV" /\ x.type = "FIN" /\ cq' = [cq EXCEPT ![p] = Tail(@)]
      /\ UNCHANGED <<sq, done, aq, poller, isend_pc>> /\ snd' = snd
      BY <1>1 DEF PollFin, Polled
<1>3. PICK v \in Send : FinOf(p, v) /\ ~ Underway(v)'
      BY FinEnds
<1>4. Underway(v) /\ isend_pc[v] = "posted" /\ v = Head(cq[p]).send
  <2> HIDE DEF Underway, Discarded, Range
  <2> QED BY <1>3 DEF FinOf
<1>5. Rendezvous(v) /\ snd[v].src = p
       BY <1>3 DEF FinOf
<1>6. v \in Expected(p)
       BY <1>4, <1>5 DEF Expected, Started
<1>7. Goes(None, "none", p, p)
       BY FinEnds
<1>8. ~ Underway(v)'
       BY <1>3
<1>9. ASSUME NEW a \in Proc PROVE Expected(a)' \subseteq Expected(a)
  <2> SUFFICES ASSUME NEW s \in Expected(a)' PROVE s \in Expected(a)
      OBVIOUS
  <2>1. s \in Send /\ Started(s)'
        BY DEF Expected
  <2>2. Started(s) /\ (isend_pc'[s] = "enqueued" => isend_pc[s] = "enqueued")
        BY <1>2, <2>1 DEF Started
  <2> QED BY <1>7, <2>1, <2>2, ExpectedLess
<1>10. v \notin Expected(p)'
       BY <1>2, <1>4, <1>8 DEF Expected
<1>11. \A s \in Range(send_req_q[p]) : s \in Send /\ Started(s) /\ (Rendezvous(s)' <=> Rendezvous(s))
       BY RequestsKept
<1>12. IsFiniteSet(Requests(p))
       BY RequestsKept
<1>13. PICK q, r : /\ q \in Seq(Send) /\ q = send_req_q[p] /\ r = send_req_q'[p]
                                 /\ r = SubSeq(q, 2, Len(q))
  <2>1. ~ Discarded(p, Head(cq[p]).send)
        BY <1>4, NeverDiscarded DEF Started
  <2>2. send_req_q[p] \in Seq(Send) /\ send_req_q \in [Proc -> Seq(Send)]
        BY DEF TypeInv, TypeOK
  <2>3. send_req_q' = [send_req_q EXCEPT ![p] = SubSeq(@, 1 + 1, Len(@))]
        BY <2>1 DEF PollFin
  <2>4. send_req_q'[p] = SubSeq(send_req_q[p], 2, Len(send_req_q[p]))
        BY <2>2, <2>3
  <2> QED BY <2>2, <2>4
<1>14. PICK h : Range(q) \ {h} \subseteq Range(r) /\ Range(r) \subseteq Range(q)
  <2>1. Len(q) \in Nat /\ DOMAIN q = 1 .. Len(q)
        BY LenProperties
  <2>2. DOMAIN r = 1 .. Len(q) - 1 /\ \A j \in 1 .. Len(q) - 1 : r[j] = q[j + 1]
    <3>1. CASE Len(q) = 0
      <4>1. r = <<>>
            BY <1>13, <3>1
      <4> QED BY <3>1, <4>1
    <3>2. CASE Len(q) > 0
          BY <1>13, <2>1, <3>2
    <3> QED BY <2>1, <3>1, <3>2
  <2>3. ASSUME NEW y \in Range(q), y # q[1] PROVE y \in Range(r)
    <3>1. PICK i \in 1 .. Len(q) : y = q[i]
          BY <2>1 DEF Range
    <3>2. i - 1 \in 1 .. Len(q) - 1 /\ (i - 1) + 1 = i
          BY <2>1, <2>3, <3>1
    <3>3. r[i - 1] = y
          BY <2>2, <3>1, <3>2
    <3> QED BY <2>2, <3>2, <3>3 DEF Range
  <2>4. ASSUME NEW y \in Range(r) PROVE y \in Range(q)
    <3>1. PICK j \in 1 .. Len(q) - 1 : y = q[j + 1]
          BY <2>2 DEF Range
    <3>2. j + 1 \in DOMAIN q
          BY <2>1
    <3> QED BY <3>1, <3>2 DEF Range
  <2> HIDE DEF Range
  <2>5. Range(q) \ {q[1]} \subseteq Range(r) /\ Range(r) \subseteq Range(q)
        BY <2>3, <2>4
  <2> QED BY <2>5
<1>15. PICK A, B, R, T : A = Expected(p) /\ B = Expected(p)' /\ R = Requests(p) /\ T = Requests(p)'
       OBVIOUS
<1>16. /\ \A s : s \in R <=> s \in Range(q) /\ Rendezvous(s)
       /\ \A s : s \in T <=> s \in Range(r) /\ Rendezvous(s)'
       BY <1>13, <1>15 DEF Requests, Range
<1> HIDE DEF Range
<1>17. R \ {h} \subseteq T
       BY <1>11, <1>13, <1>14, <1>16
<1>18. \A s \in Range(send_req_q'[p]) : Started(s)'
       BY <1>11, <1>13, <1>14 DEF StartedKept
<1>19. IsFiniteSet(T)
       BY <1>15, <1>18, RequestsAfter DEF Range
<1>20. IsFiniteSet(A) /\ IsFiniteSet(R) /\ Cardinality(A) <= Cardinality(R)
       BY <1>12, <1>15 DEF CountInv, CountAt
<1>21. v \in A /\ B \subseteq A \ {v}
       BY <1>6, <1>9, <1>10, <1>15
<1>22. IsFiniteSet(B) /\ Cardinality(B) <= Cardinality(T)
  <2>1. LosesOne(A, B, v) /\ AtMostOne(R, T, h)
        BY <1>17, <1>21 DEF LosesOne, AtMostOne
  <2> QED BY <1>19, <1>20, <2>1, CountLess
<1>23. CountAt(p)'
       BY <1>15, <1>18, <1>22 DEF CountAt, Range
<1>24. ASSUME NEW a \in Proc, a # p PROVE CountAt(a)'
  <2>1. send_req_q'[a] = send_req_q[a]
        BY <1>24 DEF PollFin, TypeInv, TypeOK
  <2> QED BY <1>9, <2>1, CountSame
<1> HIDE DEF CountAt
<1> QED BY <1>23, <1>24 DEF CountInv

\* The other steps.
LEMMA QuietCount ==
    ASSUME TypeInv, TokenInv, CountInv, CallsKept, StartedKept, Gone, send_req_q' = send_req_q,
           isend_pc' = isend_pc \/ \E s \in Send : IsendPost(s)
    PROVE  CountInv'
<1>1. \A s \in Send : /\ Started(s)' => Started(s)
                      /\ isend_pc'[s] = "enqueued" => isend_pc[s] = "enqueued"
      BY DEF IsendPost, TypeInv, TypeOK, Started
<1>2. PICK u, k, e, d : Goes(u, k, e, d)
      BY DEF Gone
<1>3. ASSUME NEW a \in Proc PROVE CountAt(a)'
  <2>1. ASSUME NEW s \in Expected(a)' PROVE s \in Expected(a)
    <3>1. s \in Send /\ Started(s)'
          BY DEF Expected
    <3> QED BY <1>1, <1>2, <3>1, ExpectedLess
  <2>2. Expected(a)' \subseteq Expected(a)
        BY <2>1
  <2> QED BY <2>2, CountSame
<1> HIDE DEF CountAt
<1> QED BY <1>3 DEF CountInv

\* The steps that change a request queue or the place of a call of isend.
LEMMA RequestSteps ==
    ASSUME [Next]_vars
    PROVE  \/ send_req_q' = send_req_q /\ isend_pc' = isend_pc
           \/ \E p \in Proc, s \in Send : IsendEnq(p, s)
           \/ \E s \in Send : IsendPost(s)
           \/ \E p \in Proc : (RemoveSendReq(p) \/ PollFin(p)) /\ isend_pc' = isend_pc
<1> DEFINE same == send_req_q' = send_req_q /\ isend_pc' = isend_pc
<1>1. ASSUME UNCHANGED vars PROVE same
      BY <1>1 DEF vars, app
<1>2. ASSUME NEW s \in Send, ReuseSendBuffer(s) PROVE same
      BY <1>2 DEF ReuseSendBuffer, app
<1>3. ASSUME NEW p \in Proc, NEW r \in Recv, Irecv(p, r) PROVE same
      BY <1>3 DEF Irecv
<1>4. ASSUME NEW p \in Proc, NEW d \in Proc,
             NicStep(p, d) \/ NicComplete(p, d) \/ Break(p, d) \/ Disconnected(p, d)
      PROVE  same
      BY <1>4 DEF NicStep, NicSend, NicRead, NicComplete, Break, Disconnected, app
<1>5. ASSUME NEW p \in Proc, PollerStep(p)
      PROVE  same \/ ((RemoveSendReq(p) \/ PollFin(p)) /\ isend_pc' = isend_pc)
  <2>1. CASE PollInit(p) \/ Deliver(p) \/ PollRead(p) \/ SendFin(p) \/ PollFinSent(p) \/ PollSent(p)
        BY <2>1 DEF PollInit, Deliver, PollRead, SendFin, PollFinSent, PollSent, app
  <2>2. CASE RemoveSendReq(p) \/ PollFin(p)
        BY <2>2 DEF RemoveSendReq, PollFin
  <2> QED BY <1>5, <2>1, <2>2 DEF PollerStep
<1> HIDE DEF same
<1>6. CASE Next
      BY <1>2, <1>3, <1>4, <1>5, <1>6 DEF Next, same
<1> QED BY <1>1, <1>6 DEF same

LEMMA NextCount == TypeInv /\ TypeInv' /\ TokenInv /\ CountInv /\ [Next]_vars => CountInv'
<1> SUFFICES ASSUME TypeInv, TypeInv', TokenInv, CountInv, [Next]_vars PROVE CountInv'
    OBVIOUS
<1>1. Gone /\ CallsKept /\ PostedKept
      BY NextMoves
<1>2. StartedKept
  <2>1. CASE isend_pc' = isend_pc
        BY <2>1 DEF StartedKept, Started
  <2>2. ASSUME NEW p \in Proc, NEW s \in Send, IsendEnq(p, s) PROVE StartedKept
        BY <2>2 DEF IsendEnq, TypeInv, TypeOK, StartedKept, Started
  <2>3. ASSUME NEW s \in Send, IsendPost(s) PROVE StartedKept
        BY <2>3 DEF IsendPost, TypeInv, TypeOK, StartedKept, Started
  <2> QED BY <2>1, <2>2, <2>3, RequestSteps
<1> HIDE DEF CountInv, Gone
<1>3. CASE send_req_q' = send_req_q /\ isend_pc' = isend_pc
      BY <1>1, <1>2, <1>3, QuietCount
<1>4. ASSUME NEW p \in Proc, NEW s \in Send, IsendEnq(p, s) PROVE CountInv'
      BY <1>1, <1>2, <1>4, IsendEnqCount
<1>5. ASSUME NEW s \in Send, IsendPost(s) PROVE CountInv'
  <2>1. send_req_q' = send_req_q
        BY <1>5 DEF IsendPost
  <2> QED BY <1>1, <1>2, <1>5, <2>1, QuietCount
<1>6. ASSUME NEW p \in Proc, RemoveSendReq(p) PROVE CountInv'
      BY <1>1, <1>2, <1>6, RemoveSendReqCount
<1>7. ASSUME NEW p \in Proc, PollFin(p) PROVE CountInv'
      BY <1>1, <1>2, <1>7, PollFinCount
<1> QED BY <1>3, <1>4, <1>5, <1>6, <1>7, RequestSteps

LEMMA InitCount == Init => CountInv
<1> SUFFICES ASSUME Init, NEW p \in Proc PROVE CountAt(p)
    BY DEF CountInv
<1>1. \A s \in Send : ~ Started(s)
      BY DEF Init, Started
<1>2. Expected(p) = {}
      BY <1>1 DEF Expected
<1>3. PICK E : E = <<>>
      OBVIOUS
<1>4. send_req_q[p] = E /\ Range(E) = {}
      BY <1>3 DEF Init, Range
<1> HIDE DEF Range
<1>5. Requests(p) = {}
      BY <1>4 DEF Requests
<1> QED BY <1>2, <1>4, <1>5, FS_EmptySet DEF CountAt

\* The FINs that have come in are of different sends.
LEMMA FinsCounted ==
    ASSUME TypeInv, TokenInv, CountInv
    PROVE  FinFindsRequest
<1> SUFFICES ASSUME NEW p \in Proc
             PROVE  Cardinality({i \in DOMAIN cq[p] : cq[p][i].op = "RECV" /\ cq[p][i].type = "FIN"})
                        <= Len(send_req_q[p])
    BY DEF FinFindsRequest
<1>1. cq[p] \in Seq(Wc) /\ send_req_q[p] \in Seq(Send)
      BY DEF TypeInv, TypeOK
<1>2. PICK c \in Seq(Wc) : c = cq[p]
      BY <1>1
<1>3. Len(c) \in Nat /\ DOMAIN c = 1 .. Len(c) /\ \A i \in DOMAIN c : c[i] \in Wc
      BY LenProperties, ElementOfSeq
<1>4. PICK F : F = {i \in DOMAIN c : c[i].op = "RECV" /\ c[i].type = "FIN"}
      OBVIOUS
<1>5. ASSUME NEW i \in F PROVE c[i].send \in Expected(p) /\ c[i] \in Comes /\ c[i].send \in Send
  <2>1. i \in DOMAIN c /\ c[i] \in Comes /\ c[i].send \in Send /\ c[i] \in Range(cq[p])
        /\ c[i].op = "RECV" /\ c[i].type = "FIN"
        BY <1>2, <1>3, <1>4 DEF Comes, Wc, Range
  <2>2. PICK s \in Send : s = c[i].send
        BY <2>1
  <2>3. s \in Has(cq[p], Comes)
        BY <1>2, <2>1, <2>2 DEF Has
  <2>4. Underway(s)
        BY <2>3 DEF Underway, At, Place
  <2>5. Rendezvous(s) /\ snd[s].src = p
        BY <2>1, <2>2 DEF TokenInv, EntriesOK, CqOK
  <2>6. Started(s)
        BY <2>4 DEF TokenInv, PostedFirst, Started
  <2>7. s \in Expected(p)
        BY <2>4, <2>5, <2>6 DEF Expected
  <2> QED BY <2>1, <2>2, <2>7
<1>6. ASSUME NEW i \in F, NEW j \in F, c[i].send = c[j].send PROVE i = j
  <2>1. Once(c, Comes)
        BY <1>2 DEF TokenInv, OnceEach
  <2>2. PICK s \in Send : s = c[i].send
        BY <1>5
  <2>3. i \in DOMAIN c /\ j \in DOMAIN c /\ i \in Nat /\ j \in Nat
        BY <1>3, <1>4
  <2>4. ~ (i < j) /\ ~ (j < i)
        BY <1>5, <1>6, <2>1, <2>2, <2>3 DEF Once, Precedes
  <2> QED BY <2>3, <2>4
<1>7. PICK f : f = [i \in F |-> c[i].send]
      OBVIOUS
<1>8. f \in Injection(F, Expected(p))
      BY <1>5, <1>6, <1>7 DEF Injection, IsInjective
<1>9. PICK A, R : A = Expected(p) /\ R = Requests(p)
      OBVIOUS
<1>10. IsFiniteSet(A) /\ Cardinality(A) <= Cardinality(R)
       BY <1>9 DEF CountInv, CountAt
<1>11. IsFiniteSet(F) /\ Cardinality(F) <= Cardinality(A)
       BY <1>8, <1>9, <1>10, FS_Injection
<1>12. IsFiniteSet(Range(send_req_q[p])) /\ Cardinality(Range(send_req_q[p])) <= Len(send_req_q[p])
       BY <1>1, RangeCount
<1>13. R \subseteq Range(send_req_q[p])
       BY <1>9 DEF Requests
<1>14. IsFiniteSet(R) /\ Cardinality(R) <= Cardinality(Range(send_req_q[p]))
       BY <1>12, <1>13, FS_Subset
<1>15. /\ Cardinality(F) \in Nat /\ Cardinality(A) \in Nat /\ Cardinality(R) \in Nat
       /\ Cardinality(Range(send_req_q[p])) \in Nat /\ Len(send_req_q[p]) \in Nat
       BY <1>1, <1>10, <1>11, <1>12, <1>14, FS_CardinalityType, LenProperties
<1>16. Cardinality(F) <= Len(send_req_q[p])
       BY <1>10, <1>11, <1>12, <1>14, <1>15
<1> QED BY <1>2, <1>4, <1>16

LEMMA CountInvHolds == Spec => [](TypeInv /\ TokenInv /\ CountInv)
<1>1. Init => TypeInv /\ TokenInv /\ CountInv
      BY InitTypeInv, InitToken, InitCount
<1>2. TypeInv /\ TokenInv /\ CountInv /\ [Next]_vars => (TypeInv /\ TokenInv /\ CountInv)'
      BY NextTypeInv, NextToken, NextCount
<1> QED BY <1>1, <1>2, PTL DEF Spec

\* fdmi_on_send_cq_wc_recv never dequeues NULL: however sends overlap and connections break, the
\* FINs that have come in to a process are no more than the requests in its send_req_q.
THEOREM FinsFindRequests == Spec => []FinFindsRequest
<1>1. TypeInv /\ TokenInv /\ CountInv => FinFindsRequest
      BY FinsCounted
<1> QED BY <1>1, CountInvHolds, PTL

-----------------------------------------------------------------------------
(* One send outstanding: what is received *)

\* What was matched stays matched, what was received stays, and a buffer gets what was sent.
Kept ==
    /\ CallsKept /\ PostedKept
    /\ \A r \in Recv : got[r] # None => got'[r] = got[r]
    /\ \A r \in Recv : rbuf'[r] = rbuf[r] \/ rbuf'[r] = "orig"

SqNew == \A a, b \in Proc : \A x \in Range(sq'[a][b]) : x \in Range(sq[a][b]) \/ SqData(x)'
DoneNew == \A a, b \in Proc : \A x \in Range(done'[a][b]) : x \in Range(done[a][b]) \/ DoneData(x)'
CqNew == \A a \in Proc : \A x \in Range(cq'[a]) : x \in Range(cq[a]) \/ CqData(x)'
AqNew == \A a \in Proc : \A x \in Range(aq'[a]) :
            x \in Range(aq[a]) \/ Rendezvous(x.send)' \/ x.data = "orig"
PollerNew == \A a \in Proc : poller'[a] = poller[a] \/ PollerData(a)'

LEMMA ReadKept ==
    ASSUME TypeInv, Kept, NEW s \in Send, WasRead(s)
    PROVE  WasRead(s)'
<1>1. PICK r \in Recv : got[r] = s /\ rbuf[r] # "none"
      BY DEF WasRead
<1>2. got'[r] = s /\ rbuf'[r] # "none"
      BY <1>1, ProtocolAssumption DEF Kept
<1> QED BY <1>2 DEF WasRead

LEMMA RangeType ==
    ASSUME TypeInv
    PROVE  /\ \A p, d \in Proc : \A x \in Range(sq[p][d]) : x \in Wr /\ x.send \in Send /\ Started(x.send)
           /\ \A p, d \in Proc : \A x \in Range(done[p][d]) : x \in Wr /\ x.send \in Send /\ Started(x.send)
           /\ \A p \in Proc : \A x \in Range(cq[p]) : x \in Wc /\ x.send \in Send /\ Started(x.send)
           /\ \A p \in Proc : \A x \in Range(aq[p]) : x \in Arrived /\ x.send \in Send /\ Started(x.send)
<1>1. TypeOK /\ SqKnown /\ DoneKnown /\ CqKnown /\ AqKnown
      BY DEF TypeInv, Known
<1>2. /\ \A p \in Proc : \A i \in DOMAIN aq[p] : aq[p][i] \in Arrived
      /\ \A p \in Proc : \A i \in DOMAIN cq[p] : cq[p][i] \in Wc
      /\ \A p, d \in Proc : \A i \in DOMAIN sq[p][d] : sq[p][d][i] \in Wr
      /\ \A p, d \in Proc : \A i \in DOMAIN done[p][d] : done[p][d][i] \in Wr
      BY <1>1, EntryType
<1>3. /\ \A x \in Wr : x.send \in Send
      /\ \A x \in Wc : x.send \in Send
      /\ \A x \in Arrived : x.send \in Send
      BY DEF Wr, Wc, Arrived
<1> HIDE DEF Wr, Wc, Arrived
<1>4. \A p, d \in Proc : \A x \in Range(sq[p][d]) : x \in Wr /\ Started(x.send)
      BY <1>1, <1>2 DEF SqKnown, Range
<1>5. \A p, d \in Proc : \A x \in Range(done[p][d]) : x \in Wr /\ Started(x.send)
      BY <1>1, <1>2 DEF DoneKnown, Range
<1>6. \A p \in Proc : \A x \in Range(cq[p]) : x \in Wc /\ Started(x.send)
      BY <1>1, <1>2 DEF CqKnown, Range
<1>7. \A p \in Proc : \A x \in Range(aq[p]) : x \in Arrived /\ Started(x.send)
      BY <1>1, <1>2 DEF AqKnown, Range
<1> QED BY <1>3, <1>4, <1>5, <1>6, <1>7

LEMMA DataStep ==
    ASSUME TypeInv, DataInv, Kept, SqNew, DoneNew, CqNew, AqNew, PollerNew,
           \A s \in Send : sbuf'[s] = "reused" => flag'[s] = 1
    PROVE  DataInv'
<1>1. \A s \in Send : Started(s) => (Rendezvous(s)' <=> Rendezvous(s))
      BY DEF Kept, CallsKept, Rendezvous
<1>2. \A s \in Send : WasRead(s) => WasRead(s)'
      BY ReadKept
<1>3. \A r \in Recv, s \in Send : got[r] = s => got'[r] = s
      BY ProtocolAssumption DEF Kept
<1>4. \A r \in Recv : rbuf[r] # "none" => rbuf'[r] # "none"
      BY DEF Kept
<1>5. ASSUME NEW a \in Proc, NEW b \in Proc, NEW x \in Range(sq[a][b]) PROVE SqData(x)'
  <2>1. SqData(x) /\ x.send \in Send
        BY RangeType DEF DataInv
  <2> QED BY <1>2, <1>3, <2>1 DEF SqData
<1>6. ASSUME NEW a \in Proc, NEW b \in Proc, NEW x \in Range(done[a][b]) PROVE DoneData(x)'
  <2>1. DoneData(x) /\ x.send \in Send
        BY RangeType DEF DataInv
  <2> QED BY <1>3, <1>4, <2>1 DEF DoneData
<1>7. ASSUME NEW a \in Proc, NEW x \in Range(cq[a]) PROVE CqData(x)'
  <2>1. CqData(x) /\ x.send \in Send /\ Started(x.send)
        BY RangeType DEF DataInv
  <2> QED BY <1>1, <1>2, <1>3, <1>4, <2>1 DEF CqData
<1>8. ASSUME NEW a \in Proc, NEW x \in Range(aq[a]) PROVE Rendezvous(x.send)' \/ x.data = "orig"
  <2>1. (Rendezvous(x.send) \/ x.data = "orig") /\ x.send \in Send /\ Started(x.send)
        BY RangeType DEF DataInv
  <2> QED BY <1>1, <2>1
<1>9. ASSUME NEW a \in Proc, poller'[a] = poller[a] PROVE PollerData(a)'
  <2>1. /\ PollerData(a)
        /\ poller[a].pc = "matched" => poller[a].send \in Send /\ poller[a].recv \in Recv
        /\ poller[a].pc = "fin" => poller[a].send \in Send
        /\ poller[a].send \in Send => Started(poller[a].send)
        BY DEF DataInv, TypeInv, PollerOK
  <2>2. PICK v : v = poller[a] /\ v = poller'[a]
        BY <1>9
  <2>3. ASSUME v.pc = "matched" PROVE got'[v.recv] = v.send /\ (Rendezvous(v.send)' \/ v.data = "orig")
    <3>1. /\ got[v.recv] = v.send /\ (Rendezvous(v.send) \/ v.data = "orig")
          /\ v.send \in Send /\ v.recv \in Recv /\ Started(v.send)
          BY <2>1, <2>2, <2>3 DEF PollerData
    <3> QED BY <1>1, <1>3, <3>1
  <2>4. ASSUME v.pc = "fin" PROVE WasRead(v.send)'
        BY <1>2, <2>1, <2>2, <2>4 DEF PollerData
  <2>5. Rendezvous(poller[a].send)' <=> Rendezvous(v.send)'
        BY <2>2 DEF Rendezvous
  <2> QED BY <2>2, <2>3, <2>4 DEF PollerData, Rendezvous, WasRead
<1> HIDE DEF SqData, DoneData, CqData, PollerData, Range
<1>10. /\ \A a, b \in Proc : \A x \in Range(sq'[a][b]) : SqData(x)'
       /\ \A a, b \in Proc : \A x \in Range(done'[a][b]) : DoneData(x)'
       /\ \A a \in Proc : \A x \in Range(cq'[a]) : CqData(x)'
       /\ \A a \in Proc : \A x \in Range(aq'[a]) : Rendezvous(x.send)' \/ x.data = "orig"
       /\ \A a \in Proc : PollerData(a)'
       BY <1>5, <1>6, <1>7, <1>8, <1>9 DEF SqNew, DoneNew, CqNew, AqNew, PollerNew
<1>11. \A r \in Recv : rbuf'[r] # "reused"
       BY DEF DataInv, Kept
<1> QED BY <1>10, <1>11 DEF DataInv, Range, Rendezvous

\* A step that posts and executes no control message.
LEMMA SentLess ==
    ASSUME TypeInv, SentOnce, PostedKept,
           \A a, b \in Proc : \A x \in Range(sq[a][b]) : IsInit(x) => flag'[x.send] = 0,
           \A a, b \in Proc : \A x \in Range(sq'[a][b]) : IsInit(x) => x \in Range(sq[a][b]),
           \A a, b \in Proc : \A x \in Range(done'[a][b]) : IsInit(x) => Reported(x.send),
           \A a \in Proc : \A x \in Range(cq'[a]) : IsInit(x) => Reported(x.send)
    PROVE  SentOnce'
<1> HIDE DEF Range
<1>1. \A s : Reported(s)' => Reported(s)
  <2> SUFFICES ASSUME NEW s, Reported(s)' PROVE Reported(s)
      OBVIOUS
  <2>1. \/ \E p, d \in Proc : \E x \in Range(done'[p][d]) : IsInit(x) /\ x.send = s
        \/ \E p \in Proc : \E x \in Range(cq'[p]) : IsInit(x) /\ x.send = s
        BY DEF Reported, Range, IsInit
  <2> HIDE DEF IsInit, Reported
  <2> QED BY <2>1
<1>2. ASSUME NEW a \in Proc, NEW b \in Proc, NEW x \in Range(sq'[a][b]), IsInit(x)
      PROVE  ~ Reported(x.send)' /\ flag'[x.send] = 0
  <2>1. x \in Range(sq[a][b]) /\ x.send \in Send
        BY <1>2, RangeType
  <2>2. ~ Reported(x.send) /\ flag'[x.send] = 0
        BY <1>2, <2>1 DEF SentOnce
  <2> HIDE DEF Reported
  <2> QED BY <1>1, <2>1, <2>2
<1>3. ASSUME NEW s \in Send, Reported(s)' PROVE isend_pc'[s] = "posted"
  <2> HIDE DEF Reported
  <2> QED BY <1>1, <1>3 DEF SentOnce, PostedKept
<1> HIDE DEF Reported
<1> QED BY <1>2, <1>3 DEF SentOnce, Range, IsInit

LEMMA SentStep ==
    ASSUME TypeInv, SentOnce, PostedKept, \A s \in Send : flag[s] = 0 => flag'[s] = 0,
           \A a, b \in Proc : \A x \in Range(sq'[a][b]) : IsInit(x) => x \in Range(sq[a][b]),
           \A a, b \in Proc : \A x \in Range(done'[a][b]) : IsInit(x) => Reported(x.send),
           \A a \in Proc : \A x \in Range(cq'[a]) : IsInit(x) => Reported(x.send)
    PROVE  SentOnce'
<1>1. ASSUME NEW a \in Proc, NEW b \in Proc, NEW x \in Range(sq[a][b]), IsInit(x)
      PROVE  flag'[x.send] = 0
  <2>1. flag[x.send] = 0
        BY <1>1 DEF SentOnce
  <2>2. x.send \in Send
        BY RangeType
  <2> QED BY <2>1, <2>2
<1> HIDE DEF IsInit, Reported, Range
<1> QED BY <1>1, SentLess

\* A send that is underway is not complete, if it is a rendezvous.
LEMMA UnderwayFlag ==
    ASSUME TypeInv, TokenInv, SerialInv, Gone, Kept, NEW s \in Send, Underway(s)', Rendezvous(s)'
    PROVE  flag[s] = 0
<1>1. PICK u, k, e, d : Goes(u, k, e, d)
      BY DEF Gone
<1>2. Underway(s) \/ (s = u /\ k \in Place)
      BY <1>1, MovesGain, GainsUnderway
<1> HIDE DEF Underway
<1>3. Underway(s) \/ isend_pc[s] = "enqueued"
      BY <1>1, <1>2 DEF Goes
<1>4. Started(s)
      BY <1>3 DEF TokenInv, PostedFirst, Started
<1>5. Rendezvous(s)
      BY <1>4 DEF Rendezvous, Kept, CallsKept
<1>6. flag[s] \in {0, 1}
      BY DEF TypeInv, TypeOK
<1> QED BY <1>3, <1>5, <1>6 DEF SerialInv

\* What a step has to show of the requests.
CompletesWell(s) ==
    isend_pc[s] = "posted" /\ (Rendezvous(s) => ~ Underway(s) /\ WasRead(s))

LEMMA SerialStep ==
    ASSUME TypeInv, TokenInv, SerialInv, Gone, Kept, \A s \in Send : flag'[s] \in {0, 1},
           \A p \in Proc, s, t \in Send : Outstanding(p, s)' /\ Outstanding(p, t)' => s = t,
           \A p \in Proc : RequestsOK(p)',
           \A s \in Send : flag'[s] = 1 => flag[s] = 1 \/ CompletesWell(s)'
    PROVE  SerialInv'
<1>1. ASSUME NEW s \in Send, flag[s] = 1 PROVE CompletesWell(s)'
  <2>1. isend_pc[s] = "posted" /\ (Rendezvous(s) => WasRead(s))
        BY <1>1 DEF SerialInv
  <2>2. isend_pc'[s] = "posted"
        BY <2>1 DEF Kept, PostedKept
  <2>3. Rendezvous(s)' => Rendezvous(s)
        BY <2>1 DEF Rendezvous, Kept, CallsKept, Started
  <2>4. Rendezvous(s)' => WasRead(s)'
        BY <2>1, <2>3, ReadKept
  <2>5. Rendezvous(s)' => ~ Underway(s)'
        BY <1>1, UnderwayFlag
  <2> HIDE DEF Rendezvous, WasRead, Underway
  <2> QED BY <2>2, <2>4, <2>5 DEF CompletesWell
<1>2. ASSUME NEW s \in Send, flag'[s] = 1 PROVE CompletesWell(s)'
      BY <1>1, <1>2
<1>3. ASSUME NEW s \in Send
      PROVE  /\ flag'[s] = 1 => isend_pc'[s] = "posted"
             /\ Underway(s)' /\ Rendezvous(s)' => flag'[s] = 0
             /\ flag'[s] = 1 /\ Rendezvous(s)' => WasRead(s)'
  <2> HIDE DEF Rendezvous, WasRead, Underway
  <2> QED BY <1>2 DEF CompletesWell
<1> HIDE DEF Rendezvous, WasRead, Underway, Outstanding, RequestsOK
<1> QED BY <1>3 DEF SerialInv

\* A step that changes no request.
LEMMA SerialQuiet ==
    ASSUME TypeInv, TokenInv, SerialInv, Gone, Kept, UNCHANGED <<snd, send_req_q>>,
           \A s \in Send : flag'[s] = flag[s],
           \A s \in Send : \/ isend_pc'[s] = isend_pc[s]
                           \/ flag[s] = 0 /\ isend_pc[s] = "enqueued" /\ isend_pc'[s] = "posted",
           \A p \in Proc : poller[p].pc = "remove" => poller'[p] = poller[p]
    PROVE  SerialInv'
<1>1. \A p \in Proc, s \in Send : Outstanding(p, s)' => Outstanding(p, s)
      BY DEF Outstanding
<1>2. \A p \in Proc, s, t \in Send : Outstanding(p, s)' /\ Outstanding(p, t)' => s = t
  <2> HIDE DEF Outstanding
  <2> QED BY <1>1 DEF SerialInv
<1>3. ASSUME NEW p \in Proc PROVE RequestsOK(p)'
  <2>1. \A s \in Range(send_req_q[p]) : s \in Send
        BY LenProperties, ElementOfSeq DEF TypeInv, TypeOK, Range
  <2>2. RequestsOK(p)
        BY DEF SerialInv
  <2>3. \A s \in Send : Started(s) => Started(s)'
        BY DEF Started
  <2> HIDE DEF Range, IsInjective, Started
  <2> QED BY <2>1, <2>2, <2>3 DEF RequestsOK, Range, IsInjective
<1>4. \A s \in Send : flag'[s] \in {0, 1} /\ (flag'[s] = 1 => flag[s] = 1)
      BY DEF TypeInv, TypeOK
<1> HIDE DEF Outstanding, RequestsOK, CompletesWell
<1> QED BY <1>2, <1>3, <1>4, SerialStep

\* A receive completes with the data, or is not complete.
LEMMA IntactStep ==
    ASSUME TypeInv, ReceivedDataIntact, Kept,
           \A r \in Recv : flag'[r] = flag[r] \/ flag'[r] = 0 \/ (got'[r] # None /\ rbuf'[r] = "orig")
    PROVE  ReceivedDataIntact'
BY DEF ReceivedDataIntact, Kept

\* A receive is matched once.
LEMMA TakenKept ==
    ASSUME TypeInv, RecvOrderInv, [Next]_vars, NEW r \in Recv, got[r] # None
    PROVE  got'[r] = got[r]
<1> TypeOK
    BY DEF TypeInv
<1>1. CASE got' = got
      BY <1>1
<1>2. ASSUME NEW p \in Proc, PollInit(p) PROVE got'[r] = got[r]
  <2>1. got' = got \/ \E i \in DOMAIN pq[p] : \E s : got' = [got EXCEPT ![pq[p][i]] = s]
        BY <1>2 DEF PollInit
  <2>2. ASSUME NEW i \in DOMAIN pq[p] PROVE pq[p][i] # r
        BY DEF RecvOrderInv, Range
  <2> QED BY <2>1, <2>2 DEF TypeOK
<1>3. ASSUME NEW p \in Proc, NEW c \in Recv, Irecv(p, c) PROVE got'[r] = got[r]
  <2>1. c # r
        BY <1>3 DEF Irecv, RecvOrderInv
  <2>2. got' = got \/ \E s : got' = [got EXCEPT ![c] = s]
        BY <1>3 DEF Irecv, IrecvArrived, IrecvWaits
  <2> QED BY <2>1, <2>2 DEF TypeOK
<1>4. ASSUME NEW p \in Proc, PollerStep(p), ~ PollInit(p) PROVE got' = got
      BY <1>4 DEF PollerStep, Deliver, PollRead, SendFin, PollFinSent, PollSent, RemoveSendReq, PollFin, hist
<1>5. ASSUME NEW p \in Proc, NEW d \in Proc,
             NicStep(p, d) \/ NicComplete(p, d) \/ Break(p, d) \/ Disconnected(p, d)
      PROVE  got' = got
      BY <1>5 DEF NicStep, NicSend, NicRead, NicComplete, Break, Disconnected, hist
<1>6. ASSUME NEW p \in Proc, NEW s \in Send, IsendEnq(p, s) PROVE got' = got
      BY <1>6 DEF IsendEnq, hist
<1>7. ASSUME NEW s \in Send, IsendPost(s) \/ ReuseSendBuffer(s) PROVE got' = got
      BY <1>7 DEF IsendPost, ReuseSendBuffer, hist
<1>8. CASE UNCHANGED vars
      BY <1>8 DEF vars, hist
<1>9. CASE Next
      BY <1>1, <1>2, <1>3, <1>4, <1>5, <1>6, <1>7, <1>9 DEF Next
<1> QED BY <1>8, <1>9

\* The send buffer of a READ that is posted is as it was.
LEMMA ReadIsIntact ==
    ASSUME TypeInv, TokenInv, DeliveryInv, NEW p \in Proc, NEW d \in Proc, NEW x \in Range(sq[p][d]), x.op = "READ"
    PROVE  x.send \in Send /\ x.recv \in Recv /\ got[x.recv] = x.send /\ sbuf[x.send] = "orig"
<1>1. x \in Wr /\ x.send \in Send
      BY RangeType
<1>2. x.recv \in Recv /\ got[x.recv] = x.send
      BY DEF DeliveryInv, DataInv, SqData
<1>3. Rendezvous(x.send)
      BY DEF TokenInv, EntriesOK, SqOK
<1>4. Underway(x.send)
  <2>1. x.send \in Has(sq[p][d], Wr)
        BY <1>1 DEF Has, Range
  <2> HIDE DEF Has
  <2> QED BY <2>1 DEF Underway, At, Place
<1>5. flag[x.send] = 0
      BY <1>1, <1>3, <1>4 DEF DeliveryInv, SerialInv
<1>6. sbuf[x.send] # "reused" /\ sbuf[x.send] \in {"orig", "reused"}
  <2>1. \A s \in Send : sbuf[s] = "reused" => flag[s] = 1
        BY DEF DeliveryInv, DataInv
  <2>2. sbuf \in [Send -> {"orig", "reused"}]
        BY DEF TypeInv, TypeOK
  <2> QED BY <1>1, <1>5, <2>1, <2>2
<1> QED BY <1>1, <1>2, <1>6

LEMMA BufferKept ==
    ASSUME TypeInv, TokenInv, DeliveryInv, [Next]_vars, NEW r \in Recv
    PROVE  rbuf'[r] = rbuf[r] \/ rbuf'[r] = "orig"
<1> TypeOK
    BY DEF TypeInv
<1>1. CASE rbuf' = rbuf
      BY <1>1
<1>2. ASSUME NEW p \in Proc, NEW d \in Proc, NicRead(p, d) PROVE rbuf'[r] = rbuf[r] \/ rbuf'[r] = "orig"
  <2>1. PICK x : x = Head(sq[p][d])
        OBVIOUS
  <2>2. /\ sq[p][d] # <<>> /\ x.op = "READ" /\ rbuf' = [rbuf EXCEPT ![x.recv] = sbuf[x.send]]
        /\ sq' = [sq EXCEPT ![p][d] = Tail(@)]
        BY <1>2, <2>1 DEF NicRead
  <2>3. x \in Range(sq[p][d])
        BY <2>1, <2>2, SqTakes DEF TokenInv
  <2>4. sbuf[x.send] = "orig"
        BY <2>2, <2>3, ReadIsIntact
  <2> QED BY <2>2, <2>4 DEF TypeOK
<1>3. ASSUME NEW p \in Proc, NEW c \in Recv, Irecv(p, c) PROVE rbuf'[r] = rbuf[r] \/ rbuf'[r] = "orig"
  <2>1. \/ rbuf' = rbuf
        \/ \E i \in DOMAIN aq[p] : /\ snd[aq[p][i].send].opcode = "EAGER"
                                   /\ rbuf' = [rbuf EXCEPT ![c] = aq[p][i].data]
        BY <1>3 DEF Irecv, IrecvArrived, IrecvWaits
  <2>2. ASSUME NEW i \in DOMAIN aq[p], snd[aq[p][i].send].opcode = "EAGER" PROVE aq[p][i].data = "orig"
        BY <2>2 DEF DeliveryInv, DataInv, Rendezvous, Range
  <2> QED BY <2>1, <2>2 DEF TypeOK
<1>4. ASSUME NEW p \in Proc, Deliver(p) PROVE rbuf'[r] = rbuf[r] \/ rbuf'[r] = "orig"
  <2>1. \/ rbuf' = rbuf
        \/ /\ poller[p].pc = "matched" /\ snd[poller[p].send].opcode = "EAGER"
           /\ rbuf' = [rbuf EXCEPT ![poller[p].recv] = poller[p].data]
        BY <1>4 DEF Deliver
  <2>2. ASSUME poller[p].pc = "matched", snd[poller[p].send].opcode = "EAGER" PROVE poller[p].data = "orig"
        BY <2>2 DEF DeliveryInv, DataInv, PollerData, Rendezvous
  <2> QED BY <2>1, <2>2 DEF TypeOK
<1>5. ASSUME NEW p \in Proc, PollerStep(p), ~ Deliver(p) PROVE rbuf' = rbuf
      BY <1>5 DEF PollerStep, PollInit, PollRead, SendFin, PollFinSent, PollSent, RemoveSendReq, PollFin, bufs
<1>6. ASSUME NEW p \in Proc, NEW d \in Proc,
             NicSend(p, d) \/ NicComplete(p, d) \/ Break(p, d) \/ Disconnected(p, d)
      PROVE  rbuf' = rbuf
      BY <1>6 DEF NicSend, NicComplete, Break, Disconnected, bufs
<1>7. ASSUME NEW p \in Proc, NEW s \in Send, IsendEnq(p, s) PROVE rbuf' = rbuf
      BY <1>7 DEF IsendEnq, bufs
<1>8. ASSUME NEW s \in Send, IsendPost(s) \/ ReuseSendBuffer(s) PROVE rbuf' = rbuf
      BY <1>8 DEF IsendPost, ReuseSendBuffer, bufs
<1>9. CASE UNCHANGED vars
      BY <1>9 DEF vars, bufs
<1>10. CASE Next
       BY <1>1, <1>2, <1>3, <1>4, <1>5, <1>6, <1>7, <1>8, <1>10 DEF Next, NicStep
<1> QED BY <1>9, <1>10

LEMMA NextKept ==
    ASSUME TypeInv, TokenInv, RecvOrderInv, DeliveryInv, [Next]_vars
    PROVE  Kept /\ Gone
<1>1. CallsKept /\ PostedKept /\ Gone
      BY NextMoves
<1>2. \A r \in Recv : got[r] # None => got'[r] = got[r]
      BY TakenKept
<1>3. \A r \in Recv : rbuf'[r] = rbuf[r] \/ rbuf'[r] = "orig"
      BY BufferKept
<1> QED BY <1>1, <1>2, <1>3 DEF Kept

\* Queues that only lose entries.
SqShrinks   == \A a, b \in Proc : Range(sq'[a][b]) \subseteq Range(sq[a][b])
DoneShrinks == \A a, b \in Proc : Range(done'[a][b]) \subseteq Range(done[a][b])
CqShrinks   == \A a \in Proc : Range(cq'[a]) \subseteq Range(cq[a])

SqInits   == \A a, b \in Proc : \A x \in Range(sq'[a][b]) : IsInit(x) => x \in Range(sq[a][b])
DoneInits == \A a, b \in Proc : \A x \in Range(done'[a][b]) : IsInit(x) => Reported(x.send)
CqInits   == \A a \in Proc : \A x \in Range(cq'[a]) : IsInit(x) => Reported(x.send)

LEMMA ShrinkNew ==
    /\ SqShrinks => SqNew /\ SqInits
    /\ DoneShrinks => DoneNew /\ DoneInits
    /\ CqShrinks => CqNew /\ CqInits
    /\ aq' = aq => AqNew
    /\ poller' = poller => PollerNew
    /\ sq' = sq => SqShrinks
    /\ done' = done => DoneShrinks
    /\ cq' = cq => CqShrinks
<1> HIDE DEF Range, SqData, DoneData, CqData, IsInit
<1>1. SqShrinks => SqNew /\ SqInits
      BY DEF SqShrinks, SqNew, SqInits
<1>2. DoneShrinks => DoneNew /\ DoneInits
      BY DEF DoneShrinks, DoneNew, DoneInits, Reported
<1>3. CqShrinks => CqNew /\ CqInits
      BY DEF CqShrinks, CqNew, CqInits, Reported
<1> QED BY <1>1, <1>2, <1>3 DEF AqNew, PollerNew, SqShrinks, DoneShrinks, CqShrinks

\* A work request is posted.
LEMMA PostNew ==
    ASSUME TypeInv, NEW p \in Proc, NEW d \in Proc, NEW x \in Wr, sq' = Posted(p, d, x)
    PROVE  \A a, b \in Proc : \A y \in Range(sq'[a][b]) : y \in Range(sq[a][b]) \/ y = x
<1>1. sq \in [Proc -> [Proc -> Seq(Wr)]]
      BY DEF TypeInv, TypeOK
<1>2. CASE {p, d} \in broken
      BY <1>2 DEF Posted
<1>3. CASE {p, d} \notin broken
  <2>1. sq' = [sq EXCEPT ![p][d] = Append(@, x)]
        BY <1>3 DEF Posted
  <2>2. \A a, b \in Proc : sq'[a][b] = IF a = p /\ b = d THEN Append(sq[p][d], x) ELSE sq[a][b]
        BY <1>1, <2>1, SMTT(60)
  <2>3. sq[p][d] \in Seq(Wr)
        BY <1>1
  <2>4. Range(Append(sq[p][d], x)) = Range(sq[p][d]) \cup {x}
        BY <2>3, PutLast
  <2> HIDE DEF Range
  <2> QED BY <2>2, <2>4
<1> QED BY <1>2, <1>3

LEMMA QuietDelivery ==
    ASSUME TypeInv, TokenInv, DeliveryInv, Gone, Kept, UNCHANGED <<isend_pc, snd, send_req_q>>,
           \A s \in Send : flag'[s] = flag[s],
           \A p \in Proc : poller[p].pc = "remove" => poller'[p] = poller[p],
           SqNew, DoneNew, CqNew, AqNew, PollerNew, SentOnce',
           \A s \in Send : sbuf'[s] = "reused" => sbuf[s] = "reused" \/ flag[s] = 1,
           \A r \in Recv : flag'[r] = flag[r] \/ flag'[r] = 0 \/ (got'[r] # None /\ rbuf'[r] = "orig")
    PROVE  DeliveryInv'
<1>1. \A s \in Send : sbuf'[s] = "reused" => flag'[s] = 1
      BY DEF DeliveryInv, DataInv
<1>2. DataInv'
      BY <1>1, DataStep DEF DeliveryInv
<1>3. SerialInv'
  <2>1. \A s \in Send : isend_pc'[s] = isend_pc[s]
        OBVIOUS
  <2> QED BY <2>1, SerialQuiet DEF DeliveryInv
<1>4. ReceivedDataIntact'
      BY IntactStep DEF DeliveryInv
<1> QED BY <1>2, <1>3, <1>4 DEF DeliveryInv

\* Steps that put nothing into a queue and complete nothing.
LEMMA StillDelivery ==
    ASSUME TypeInv, TokenInv, DeliveryInv, Gone, Kept, UNCHANGED <<isend_pc, snd, send_req_q, flag, aq, poller>>,
           SqShrinks, DoneShrinks, CqShrinks,
           \A s \in Send : sbuf'[s] = "reused" => sbuf[s] = "reused" \/ flag[s] = 1
    PROVE  DeliveryInv'
<1>1. SqNew /\ DoneNew /\ CqNew /\ AqNew /\ PollerNew /\ SqInits /\ DoneInits /\ CqInits
      BY ShrinkNew
<1>2. SentOnce'
  <2>1. \A s \in Send : flag[s] = 0 => flag'[s] = 0
        OBVIOUS
  <2> HIDE DEF IsInit, Reported, Range
  <2> QED BY <1>1, <2>1, SentStep DEF SqInits, DoneInits, CqInits, DeliveryInv, Kept
<1> QED BY <1>1, <1>2, QuietDelivery

LEMMA StillSteps ==
    ASSUME TypeInv, TokenInv, DeliveryInv, Gone, Kept,
           \/ UNCHANGED vars
           \/ \E s \in Send : ReuseSendBuffer(s)
           \/ \E p, d \in Proc : Break(p, d) \/ Disconnected(p, d)
           \/ \E p \in Proc : PollFinSent(p)
    PROVE  DeliveryInv'
<1>1. UNCHANGED <<isend_pc, snd, send_req_q, flag, aq, poller>>
      BY DEF vars, app, ReuseSendBuffer, Break, Disconnected, PollFinSent
<1>2. \A s \in Send : sbuf'[s] = "reused" => sbuf[s] = "reused" \/ flag[s] = 1
  <2>1. CASE sbuf' = sbuf
        BY <2>1
  <2>2. ASSUME NEW v \in Send, ReuseSendBuffer(v)
        PROVE  \A s \in Send : sbuf'[s] = "reused" => sbuf[s] = "reused" \/ flag[s] = 1
        BY <2>2 DEF ReuseSendBuffer, TypeInv, TypeOK
  <2> QED BY <2>1, <2>2 DEF vars, bufs, Break, Disconnected, PollFinSent
<1>3. CASE UNCHANGED <<sq, done, cq>>
  <2>1. SqShrinks /\ DoneShrinks /\ CqShrinks
        BY <1>3, ShrinkNew
  <2> QED BY <1>1, <1>2, <2>1, StillDelivery
<1>4. ASSUME NEW p \in Proc, PollFinSent(p) PROVE DeliveryInv'
  <2>1. cq[p] # <<>> /\ cq' = [cq EXCEPT ![p] = Tail(@)] /\ UNCHANGED <<sq, done>>
        BY <1>4 DEF PollFinSent, Polled
  <2>2. PICK x : x = Head(cq[p])
        OBVIOUS
  <2>3. CqHead(p, x)
        BY <2>1, <2>2, CqTakes DEF TokenInv
  <2>4. SqShrinks /\ DoneShrinks
        BY <2>1, ShrinkNew
  <2>5. CqShrinks
        BY <2>3 DEF CqHead, RowLess, CqShrinks
  <2> QED BY <1>1, <1>2, <2>4, <2>5, StillDelivery
<1>5. ASSUME NEW p \in Proc, NEW d \in Proc, Break(p, d) PROVE DeliveryInv'
  <2>1. PairLess(sq, sq', Wr) /\ PairLess(done, done', Reads) /\ cq' = cq
        BY <1>5, BreakLess DEF Kept
  <2>2. SqShrinks /\ DoneShrinks
        BY <2>1 DEF PairLess, SqShrinks, DoneShrinks
  <2>3. CqShrinks
        BY <2>1, ShrinkNew
  <2> QED BY <1>1, <1>2, <2>2, <2>3, StillDelivery
<1> QED BY <1>3, <1>4, <1>5 DEF vars, nic, ReuseSendBuffer, Disconnected

\* An entry is put into a queue.
LEMMA DonePut ==
    ASSUME TypeInv, NEW p \in Proc, NEW d \in Proc, NEW x \in Wr, done' = [done EXCEPT ![p][d] = Append(@, x)]
    PROVE  \A a, b \in Proc : \A y \in Range(done'[a][b]) : y \in Range(done[a][b]) \/ y = x
<1>1. done \in [Proc -> [Proc -> Seq(Wr)]]
      BY DEF TypeInv, TypeOK
<1>2. \A a, b \in Proc : done'[a][b] = IF a = p /\ b = d THEN Append(done[p][d], x) ELSE done[a][b]
      BY <1>1
<1>3. done[p][d] \in Seq(Wr)
      BY <1>1
<1>4. Range(Append(done[p][d], x)) = Range(done[p][d]) \cup {x}
      BY <1>3, PutLast
<1> HIDE DEF Range
<1> QED BY <1>2, <1>4

RowAdds(f, g, x) == \A a \in Proc : \A y \in Range(g[a]) : y \in Range(f[a]) \/ y = x

LEMMA RowPut ==
    ASSUME NEW S, NEW f \in [Proc -> Seq(S)], NEW g, NEW p \in Proc, NEW x \in S, g = [f EXCEPT ![p] = Append(@, x)]
    PROVE  RowAdds(f, g, x)
<1>1. \A a \in Proc : g[a] = IF a = p THEN Append(f[p], x) ELSE f[a]
      OBVIOUS
<1>2. f[p] \in Seq(S)
      OBVIOUS
<1>3. Range(Append(f[p], x)) = Range(f[p]) \cup {x}
      BY <1>2, PutLast
<1> HIDE DEF Range
<1> QED BY <1>1, <1>3 DEF RowAdds

LEMMA NicSendDelivery ==
    ASSUME TypeInv, TokenInv, DeliveryInv, Gone, Kept, NEW p \in Proc, NEW d \in Proc, NicSend(p, d)
    PROVE  DeliveryInv'
<1>1. PICK x : x = Head(sq[p][d])
      OBVIOUS
<1>2. /\ sq[p][d] # <<>> /\ x.op = "SEND" /\ sq' = [sq EXCEPT ![p][d] = Tail(@)]
      /\ done' = [done EXCEPT ![p][d] = Append(@, x)]
      /\ UNCHANGED <<isend_pc, snd, send_req_q, flag, aq, poller, sbuf, got, rbuf>>
      BY <1>1 DEF NicSend, app, bufs, hist
<1>3. PairLess(sq, sq', Wr) /\ x \in Wr /\ x \in Range(sq[p][d])
      /\ x.send \in Has(sq[p][d], Wr) /\ x.send \notin Has(sq'[p][d], Wr)
      BY <1>1, <1>2, SqTakes DEF TokenInv
<1>4. x.send \in Send /\ x.type \in {"INIT", "FIN"}
      BY <1>3 DEF Wr
<1>5. PICK m : m = [op |-> "RECV", type |-> x.type, send |-> x.send, recv |-> None,
                   data |-> IF x.type = "INIT" /\ snd[x.send].opcode = "EAGER" THEN sbuf[x.send] ELSE "none"]
      OBVIOUS
<1>6. m \in Wc /\ m.op = "RECV" /\ m.type = x.type /\ m.send = x.send
      /\ (x.type = "INIT" /\ snd[x.send].opcode = "EAGER" => m.data = sbuf[x.send])
  <2>1. sbuf[x.send] \in Data
        BY <1>4 DEF TypeInv, TypeOK, Data
  <2> QED BY <1>4, <1>5, <2>1 DEF Wc, Data
<1>7. cq' = [cq EXCEPT ![d] = Append(@, m)] /\ cq \in [Proc -> Seq(Wc)]
      BY <1>1, <1>5 DEF NicSend, TypeInv, TypeOK
<1>8. \A a \in Proc : \A y \in Range(cq'[a]) : y \in Range(cq[a]) \/ y = m
  <2>1. RowAdds(cq, cq', m)
        BY <1>6, <1>7, RowPut
  <2> QED BY <2>1 DEF RowAdds
<1>9. \A a, b \in Proc : \A y \in Range(done'[a][b]) : y \in Range(done[a][b]) \/ y = x
      BY <1>2, <1>3, DonePut
<1>10. SqShrinks
       BY <1>3 DEF PairLess, SqShrinks
<1>11. IsInit(x) => ~ Reported(x.send) /\ flag[x.send] = 0
       BY <1>3 DEF DeliveryInv, SentOnce
<1>12. CqData(m)'
  <2>1. ASSUME x.type = "INIT" PROVE Rendezvous(x.send)' \/ m.data = "orig"
    <3>1. flag[x.send] = 0
          BY <1>2, <1>11, <2>1 DEF IsInit
    <3>2. sbuf[x.send] = "orig"
      <4>1. \A s \in Send : sbuf[s] = "reused" => flag[s] = 1
            BY DEF DeliveryInv, DataInv
      <4>2. sbuf \in [Send -> {"orig", "reused"}]
            BY DEF TypeInv, TypeOK
      <4> QED BY <1>4, <3>1, <4>1, <4>2
    <3>3. snd[x.send].opcode \in {"EAGER", "RDMA_READ"}
      <4>1. Started(x.send)
            BY <1>3, RangeType
      <4>2. snd[x.send] \in Message
            BY <1>4, <4>1 DEF TypeInv, Known, SendsKnown
      <4> QED BY <4>2, ProtocolAssumption DEF Message
    <3> QED BY <1>2, <1>6, <2>1, <3>2, <3>3 DEF Rendezvous
  <2>2. ASSUME x.type = "FIN" PROVE WasRead(x.send)'
    <3>1. WasRead(x.send)
          BY <1>3, <2>2 DEF DeliveryInv, DataInv, SqData
    <3> QED BY <1>4, <3>1, ReadKept
  <2> HIDE DEF Rendezvous, WasRead
  <2>3. (Rendezvous(m.send)' <=> Rendezvous(x.send)') /\ (WasRead(m.send)' <=> WasRead(x.send)')
        BY <1>6
  <2> QED BY <1>6, <2>1, <2>2, <2>3 DEF CqData
<1>13. DoneData(x)'
       BY <1>2 DEF DoneData
<1>14. SqNew /\ AqNew /\ PollerNew
       BY <1>2, <1>10, ShrinkNew
<1>15. DoneNew /\ CqNew
  <2> HIDE DEF Range, DoneData, CqData
  <2> QED BY <1>8, <1>9, <1>12, <1>13 DEF DoneNew, CqNew
<1>16. \A s : Reported(s)' => Reported(s) \/ (s = x.send /\ IsInit(x))
  <2> SUFFICES ASSUME NEW s, Reported(s)' PROVE Reported(s) \/ (s = x.send /\ IsInit(x))
      OBVIOUS
  <2> HIDE DEF Range
  <2>1. \/ \E e, f \in Proc : \E y \in Range(done'[e][f]) : IsInit(y) /\ y.send = s
        \/ \E e \in Proc : \E y \in Range(cq'[e]) : IsInit(y) /\ y.send = s
        BY DEF Reported, Range, IsInit
  <2>2. ~ IsInit(m)
        BY <1>6 DEF IsInit
  <2> HIDE DEF IsInit
  <2> QED BY <1>8, <1>9, <2>1, <2>2 DEF Reported
<1>17. SentOnce'
  <2> HIDE DEF Reported
  <2>1. ASSUME NEW a \in Proc, NEW b \in Proc, NEW y \in Range(sq'[a][b]), IsInit(y)
        PROVE  ~ Reported(y.send)' /\ flag'[y.send] = 0
    <3>1. y \in Range(sq[a][b]) /\ y \in Wr /\ y.send \in Send
          BY <1>10, RangeType DEF SqShrinks
    <3>2. ~ Reported(y.send) /\ flag[y.send] = 0
          BY <2>1, <3>1 DEF DeliveryInv, SentOnce
    <3>3. y.send # x.send
      <4>1. y.send \in Has(sq'[a][b], Wr) /\ y.send \in Has(sq[a][b], Wr)
            BY <3>1 DEF Has, Range
      <4> HIDE DEF Has
      <4>2. y.send = x.send => a = p /\ b = d
        <5>1. At("sq", a, b, y.send) /\ At("sq", p, d, x.send) /\ "sq" \in Place
              BY <1>3, <4>1 DEF At, Place
        <5> HIDE DEF At
        <5> QED BY <1>4, <5>1 DEF TokenInv, OnePlace
      <4> QED BY <1>3, <4>1, <4>2
    <3> QED BY <1>2, <1>16, <3>2, <3>3
  <2>2. ASSUME NEW s \in Send, Reported(s)' PROVE isend_pc'[s] = "posted"
    <3>1. Reported(s) \/ s = x.send
          BY <1>16, <2>2
    <3>2. isend_pc[x.send] = "posted"
      <4>1. Underway(x.send)
            BY <1>3, <1>4 DEF Underway, At, Place
      <4> QED BY <1>4, <4>1 DEF TokenInv, PostedFirst
    <3> QED BY <1>2, <3>1, <3>2 DEF DeliveryInv, SentOnce
  <2> QED BY <2>1, <2>2 DEF SentOnce, Range, IsInit
<1> QED BY <1>2, <1>14, <1>15, <1>17, QuietDelivery

LEMMA NicReadDelivery ==
    ASSUME TypeInv, TokenInv, DeliveryInv, Gone, Kept, NEW p \in Proc, NEW d \in Proc, NicRead(p, d)
    PROVE  DeliveryInv'
<1>1. PICK x : x = Head(sq[p][d])
      OBVIOUS
<1>2. /\ sq[p][d] # <<>> /\ x.op = "READ" /\ sq' = [sq EXCEPT ![p][d] = Tail(@)]
      /\ done' = [done EXCEPT ![p][d] = Append(@, x)] /\ rbuf' = [rbuf EXCEPT ![x.recv] = sbuf[x.send]]
      /\ UNCHANGED <<isend_pc, snd, send_req_q, flag, aq, poller, cq, sbuf, got>>
      BY <1>1 DEF NicRead, app, hist
<1>3. PairLess(sq, sq', Wr) /\ x \in Wr /\ x \in Range(sq[p][d])
      BY <1>1, <1>2, SqTakes DEF TokenInv
<1>4. x.send \in Send /\ x.recv \in Recv /\ got[x.recv] = x.send /\ sbuf[x.send] = "orig"
      BY <1>2, <1>3, ReadIsIntact
<1>5. rbuf'[x.recv] = "orig"
      BY <1>2, <1>4 DEF TypeInv, TypeOK
<1>6. \A a, b \in Proc : \A y \in Range(done'[a][b]) : y \in Range(done[a][b]) \/ y = x
      BY <1>2, <1>3, DonePut
<1>7. DoneData(x)'
      BY <1>2, <1>4, <1>5 DEF DoneData
<1>8. SqShrinks /\ CqShrinks
      BY <1>2, <1>3, ShrinkNew DEF PairLess, SqShrinks
<1>9. SqNew /\ CqNew /\ AqNew /\ PollerNew /\ SqInits /\ CqInits
      BY <1>2, <1>8, ShrinkNew
<1>10. DoneNew
  <2> HIDE DEF Range, DoneData
  <2> QED BY <1>6, <1>7 DEF DoneNew
<1>11. DoneInits
  <2> HIDE DEF Range
  <2>1. ~ IsInit(x)
        BY <1>2 DEF IsInit
  <2> HIDE DEF IsInit
  <2> QED BY <1>6, <2>1 DEF DoneInits, Reported
<1>12. SentOnce'
  <2>1. \A s \in Send : flag[s] = 0 => flag'[s] = 0
        BY <1>2
  <2> HIDE DEF IsInit, Reported, Range
  <2> QED BY <1>9, <1>11, <2>1, SentStep DEF SqInits, DoneInits, CqInits, DeliveryInv, Kept
<1> QED BY <1>2, <1>9, <1>10, <1>12, QuietDelivery

LEMMA NicCompleteDelivery ==
    ASSUME TypeInv, TokenInv, DeliveryInv, Gone, Kept, NEW p \in Proc, NEW d \in Proc, NicComplete(p, d)
    PROVE  DeliveryInv'
<1>1. PICK x : x = Head(done[p][d])
      OBVIOUS
<1>2. /\ done[p][d] # <<>> /\ done' = [done EXCEPT ![p][d] = Tail(@)]
      /\ UNCHANGED <<isend_pc, snd, send_req_q, flag, aq, poller, sq, sbuf, got, rbuf>>
      BY <1>1 DEF NicComplete, app, bufs, hist
<1>3. PairLess(done, done', Reads) /\ x \in Wr /\ x \in Range(done[p][d])
      BY <1>1, <1>2, DoneTakes DEF TokenInv
<1>4. x.send \in Send /\ x.type \in {"INIT", "FIN"} /\ x.op \in {"SEND", "READ"} /\ x.recv \in Recv \cup {None}
      BY <1>3 DEF Wr
<1>5. PICK m : m = [op |-> x.op, type |-> x.type, send |-> x.send, recv |-> x.recv, data |-> "none"]
      OBVIOUS
<1>6. m \in Wc /\ m.op = x.op /\ m.type = x.type /\ m.send = x.send /\ m.recv = x.recv
      BY <1>4, <1>5 DEF Wc, Data
<1>7. cq' = [cq EXCEPT ![p] = Append(@, m)] /\ cq \in [Proc -> Seq(Wc)]
      BY <1>1, <1>5 DEF NicComplete, TypeInv, TypeOK
<1>8. \A a \in Proc : \A y \in Range(cq'[a]) : y \in Range(cq[a]) \/ y = m
  <2>1. RowAdds(cq, cq', m)
        BY <1>6, <1>7, RowPut
  <2> QED BY <2>1 DEF RowAdds
<1>9. CqData(m)'
  <2>1. DoneData(x)
        BY <1>3 DEF DeliveryInv, DataInv
  <2> QED BY <1>2, <1>4, <1>6, <2>1 DEF DoneData, CqData
<1>10. SqShrinks /\ DoneShrinks
       BY <1>2, <1>3, ShrinkNew DEF PairLess, DoneShrinks
<1>11. SqNew /\ DoneNew /\ AqNew /\ PollerNew /\ SqInits /\ DoneInits
       BY <1>2, <1>10, ShrinkNew
<1>12. CqNew
  <2> HIDE DEF Range, CqData
  <2> QED BY <1>8, <1>9 DEF CqNew
<1>13. CqInits
  <2> HIDE DEF Range
  <2>1. IsInit(m) => IsInit(x) /\ m.send = x.send
        BY <1>6 DEF IsInit
  <2> HIDE DEF IsInit
  <2> QED BY <1>3, <1>8, <2>1 DEF CqInits, Reported
<1>14. SentOnce'
  <2>1. \A s \in Send : flag[s] = 0 => flag'[s] = 0
        BY <1>2
  <2> HIDE DEF IsInit, Reported, Range
  <2> QED BY <1>11, <1>13, <2>1, SentStep DEF SqInits, DoneInits, CqInits, DeliveryInv, Kept
<1> QED BY <1>2, <1>11, <1>12, <1>14, QuietDelivery

\* SentOnce of a step of the poller or of irecv: it posts and reports no control message.
LEMMA AnswerSent ==
    ASSUME TypeInv, DeliveryInv, Kept, \A s \in Send : flag'[s] = flag[s], SqInits, DoneShrinks, CqShrinks
    PROVE  SentOnce'
<1>1. DoneInits /\ CqInits
      BY ShrinkNew
<1>2. \A s \in Send : flag[s] = 0 => flag'[s] = 0
      OBVIOUS
<1> HIDE DEF IsInit, Reported, Range
<1> QED BY <1>1, <1>2, SentStep DEF SqInits, DoneInits, CqInits, DeliveryInv, Kept

\* The READ or the FIN that is posted.
LEMMA AnswerNew ==
    ASSUME TypeInv, TokenInv, NEW p \in Proc, NEW s \in Send, Started(s), NEW x \in Wr, ~ IsInit(x),
           sq' = Posted(p, snd[s].src, x), SqData(x)'
    PROVE  SqNew /\ SqInits
<1>1. snd[s].src \in Proc
      BY DEF TypeInv, Known, SendsKnown, Message
<1>2. PICK d \in Proc : d = snd[s].src
      BY <1>1
<1>3. \A a, b \in Proc : \A y \in Range(sq'[a][b]) : y \in Range(sq[a][b]) \/ y = x
      BY <1>2, PostNew
<1> HIDE DEF Range, SqData, IsInit
<1> QED BY <1>3 DEF SqNew, SqInits

LEMMA PollInitDelivery ==
    ASSUME TypeInv, TokenInv, DeliveryInv, Gone, Kept, NEW p \in Proc, PollInit(p)
    PROVE  DeliveryInv'
<1>1. PICK x : x = Head(cq[p])
      OBVIOUS
<1>2. /\ cq[p] # <<>> /\ x.op = "RECV" /\ x.type = "INIT" /\ cq' = [cq EXCEPT ![p] = Tail(@)]
      /\ poller[p].pc = "poll"
      /\ UNCHANGED <<isend_pc, snd, send_req_q, flag, sq, done, sbuf, rbuf>>
      BY <1>1 DEF PollInit, Polled, app, bufs
<1>3. CqHead(p, x)
      BY <1>1, <1>2, CqTakes DEF TokenInv
<1>4. x \in Wc /\ x \in Range(cq[p]) /\ x.send \in Send /\ x.data \in Data /\ RowLess(cq, cq', Comes)
      BY <1>3 DEF CqHead, Wc
<1>5. Started(x.send)
      BY <1>4, RangeType
<1>6. Rendezvous(x.send)' \/ x.data = "orig"
  <2>1. Rendezvous(x.send) \/ x.data = "orig"
        BY <1>2, <1>4 DEF DeliveryInv, DataInv, CqData
  <2> QED BY <1>2, <2>1 DEF Rendezvous
<1>7. SqShrinks /\ DoneShrinks /\ CqShrinks
      BY <1>2, <1>4, ShrinkNew DEF RowLess, CqShrinks
<1>8. SqNew /\ DoneNew /\ CqNew /\ SqInits
      BY <1>7, ShrinkNew
<1>9. SentOnce'
      BY <1>2, <1>7, <1>8, AnswerSent
<1>10. ~ Discarded(p, x.send)
       BY <1>4, <1>5, NeverDiscarded
<1>11. \/ \E i \in DOMAIN pq[p] :
             /\ poller' = [poller EXCEPT ![p] =
                   [pc |-> "matched", send |-> x.send, data |-> x.data, recv |-> pq[p][i]]]
             /\ got' = [got EXCEPT ![pq[p][i]] = x.send] /\ aq' = aq
       \/ /\ poller' = poller
          /\ aq' = [aq EXCEPT ![p] = Append(@, [send |-> x.send, data |-> x.data])]
       BY <1>1, <1>10 DEF PollInit
<1>12. ASSUME NEW i \in DOMAIN pq[p],
              poller' = [poller EXCEPT ![p] =
                   [pc |-> "matched", send |-> x.send, data |-> x.data, recv |-> pq[p][i]]],
              got' = [got EXCEPT ![pq[p][i]] = x.send], aq' = aq
       PROVE  DeliveryInv'
  <2>1. pq[p][i] \in Recv
        BY EntryType DEF TypeInv
  <2>2. PICK r \in Recv : r = pq[p][i]
        BY <2>1
  <2>3. got'[r] = x.send
        BY <1>12, <2>2 DEF TypeInv, TypeOK
  <2>4. PICK v : v = [pc |-> "matched", send |-> x.send, data |-> x.data, recv |-> r]
        OBVIOUS
  <2>5. v.pc = "matched" /\ v.send = x.send /\ v.data = x.data /\ v.recv = r
        BY <2>4
  <2>6. poller'[p] = v /\ \A a \in Proc : a # p => poller'[a] = poller[a]
        BY <1>12, <2>2, <2>4 DEF TypeInv, TypeOK
  <2>7. PollerData(p)'
        BY <1>6, <2>3, <2>5, <2>6 DEF PollerData, Rendezvous
  <2> HIDE DEF PollerData
  <2>8. PollerNew
        BY <2>6, <2>7 DEF PollerNew
  <2>9. AqNew
        BY <1>12, ShrinkNew
  <2>10. \A a \in Proc : poller[a].pc = "remove" => poller'[a] = poller[a]
        BY <1>2, <2>6
  <2> QED BY <1>2, <1>8, <1>9, <2>8, <2>9, <2>10, QuietDelivery
<1>13. CASE /\ poller' = poller
            /\ aq' = [aq EXCEPT ![p] = Append(@, [send |-> x.send, data |-> x.data])]
  <2>1. PICK e : e = [send |-> x.send, data |-> x.data]
        OBVIOUS
  <2>2. e \in Arrived /\ e.send = x.send /\ e.data = x.data
        BY <1>4, <2>1 DEF Arrived
  <2>3. aq' = [aq EXCEPT ![p] = Append(@, e)] /\ aq \in [Proc -> Seq(Arrived)]
        BY <1>13, <2>1 DEF TypeInv, TypeOK
  <2>4. RowAdds(aq, aq', e)
        BY <2>2, <2>3, RowPut
  <2>5. Rendezvous(e.send)' \/ e.data = "orig"
        BY <1>6, <2>2 DEF Rendezvous
  <2> HIDE DEF Range, Rendezvous
  <2>6. AqNew
        BY <2>4, <2>5 DEF AqNew, RowAdds
  <2>7. PollerNew
        BY <1>13, ShrinkNew
  <2> QED BY <1>2, <1>8, <1>9, <1>13, <2>6, <2>7, QuietDelivery
<1> QED BY <1>11, <1>12, <1>13

LEMMA SendFinDelivery ==
    ASSUME TypeInv, TokenInv, DeliveryInv, Gone, Kept, NEW p \in Proc, SendFin(p)
    PROVE  DeliveryInv'
<1>1. PICK s : s = poller[p].send
      OBVIOUS
<1>2. /\ poller[p].pc = "fin" /\ sq' = Posted(p, snd[s].src, SendWr(s, "FIN"))
      /\ poller' = [poller EXCEPT ![p] = Polling]
      /\ UNCHANGED <<isend_pc, snd, send_req_q, flag, aq, done, cq, sbuf, rbuf, got>>
      BY <1>1 DEF SendFin, app, bufs, hist
<1>3. s \in Send /\ Started(s)
      BY <1>1, <1>2 DEF TypeInv, PollerOK
<1>4. PICK x : x = SendWr(s, "FIN")
      OBVIOUS
<1>5. x \in Wr /\ x.send = s /\ x.op = "SEND" /\ x.type = "FIN" /\ sq' = Posted(p, snd[s].src, x)
      BY <1>2, <1>3, <1>4 DEF SendWr, Wr
<1>6. SqData(x)'
  <2>1. WasRead(s)
        BY <1>1, <1>2 DEF DeliveryInv, DataInv, PollerData
  <2>2. WasRead(s)'
        BY <1>3, <2>1, ReadKept
  <2> QED BY <1>5, <2>2 DEF SqData, WasRead
<1>7. SqNew /\ SqInits
  <2>1. ~ IsInit(x)
        BY <1>5 DEF IsInit
  <2> QED BY <1>3, <1>5, <1>6, <2>1, AnswerNew
<1>8. /\ poller'[p].pc = "poll" /\ \A a \in Proc : a # p => poller'[a] = poller[a]
      BY <1>2 DEF TypeInv, TypeOK, Polling
<1>9. PollerData(p)'
      BY <1>8 DEF PollerData
<1>10. PollerNew
  <2> HIDE DEF PollerData
  <2> QED BY <1>8, <1>9 DEF PollerNew
<1>11. DoneShrinks /\ CqShrinks /\ AqNew
       BY <1>2, ShrinkNew
<1>12. DoneNew /\ CqNew
       BY <1>11, ShrinkNew
<1>13. SentOnce'
       BY <1>2, <1>7, <1>11, AnswerSent
<1>14. \A a \in Proc : poller[a].pc = "remove" => poller'[a] = poller[a]
       BY <1>2, <1>8
<1> QED BY <1>2, <1>7, <1>10, <1>11, <1>12, <1>13, <1>14, QuietDelivery

LEMMA PollReadDelivery ==
    ASSUME TypeInv, TokenInv, DeliveryInv, Gone, Kept, NEW p \in Proc, PollRead(p)
    PROVE  DeliveryInv'
<1>1. PICK x : x = Head(cq[p])
      OBVIOUS
<1>2. /\ cq[p] # <<>> /\ x.op = "READ" /\ cq' = [cq EXCEPT ![p] = Tail(@)]
      /\ poller[p].pc = "poll" /\ poller' = [poller EXCEPT ![p] = [Polling EXCEPT !.pc = "fin", !.send = x.send]]
      /\ flag' = [flag EXCEPT ![x.recv] = 1]
      /\ UNCHANGED <<isend_pc, snd, send_req_q, aq, sq, done, sbuf, rbuf, got>>
      BY <1>1 DEF PollRead, Polled, bufs, hist
<1>3. CqHead(p, x)
      BY <1>1, <1>2, CqTakes DEF TokenInv
<1>4. x \in Range(cq[p]) /\ x.send \in Send /\ RowLess(cq, cq', Comes)
      BY <1>3 DEF CqHead, Wc
<1>5. x.recv \in Recv /\ got[x.recv] = x.send /\ rbuf[x.recv] # "none"
      BY <1>2, <1>4 DEF DeliveryInv, DataInv, CqData
<1>6. rbuf[x.recv] = "orig"
  <2>1. \A r \in Recv : rbuf[r] # "reused"
        BY DEF DeliveryInv, DataInv
  <2>2. rbuf[x.recv] \in {"none", "orig", "reused"}
        BY <1>5 DEF TypeInv, TypeOK, Data
  <2> QED BY <1>5, <2>1, <2>2
<1>7. \A y \in Send \cup Recv : flag'[y] = IF y = x.recv THEN 1 ELSE flag[y]
      BY <1>2 DEF TypeInv, TypeOK
<1>8. \A s \in Send : flag'[s] = flag[s]
      BY <1>5, <1>7, ProtocolAssumption
<1>9. \A r \in Recv : flag'[r] = flag[r] \/ flag'[r] = 0 \/ (got'[r] # None /\ rbuf'[r] = "orig")
      BY <1>2, <1>4, <1>5, <1>6, <1>7, ProtocolAssumption
<1>10. PICK v : v = [Polling EXCEPT !.pc = "fin", !.send = x.send]
       OBVIOUS
<1>11. v.pc = "fin" /\ v.send = x.send
       BY <1>10 DEF Polling
<1>12. poller'[p] = v /\ \A a \in Proc : a # p => poller'[a] = poller[a]
       BY <1>2, <1>10 DEF TypeInv, TypeOK
<1>13. WasRead(x.send)'
       BY <1>2, <1>5 DEF WasRead
<1>14. PollerData(p)'
       BY <1>11, <1>12, <1>13 DEF PollerData, WasRead
<1>15. PollerNew
  <2> HIDE DEF PollerData
  <2> QED BY <1>12, <1>14 DEF PollerNew
<1>16. SqShrinks /\ DoneShrinks /\ CqShrinks /\ AqNew
       BY <1>2, <1>4, ShrinkNew DEF RowLess, CqShrinks
<1>17. SqNew /\ SqInits /\ DoneNew /\ CqNew
       BY <1>16, ShrinkNew
<1>18. SentOnce'
       BY <1>8, <1>16, <1>17, AnswerSent
<1>19. \A a \in Proc : poller[a].pc = "remove" => poller'[a] = poller[a]
       BY <1>2, <1>12
<1>20. \A s \in Send : sbuf'[s] = "reused" => sbuf[s] = "reused" \/ flag[s] = 1
       BY <1>2
<1> QED BY <1>2, <1>8, <1>9, <1>15, <1>16, <1>17, <1>18, <1>19, <1>20, QuietDelivery

\* A READ is posted for the receive that was matched.
LEMMA ReadNew ==
    ASSUME TypeInv, TokenInv, NEW p \in Proc, NEW s \in Send, NEW r \in Recv, Started(s),
           sq' = Posted(p, snd[s].src, ReadWr(s, r)), got'[r] = s
    PROVE  SqNew /\ SqInits
<1>1. PICK x : x = ReadWr(s, r)
      OBVIOUS
<1>2. x \in Wr /\ x.send = s /\ x.op = "READ" /\ x.type = "INIT" /\ x.recv = r /\ sq' = Posted(p, snd[s].src, x)
      BY <1>1 DEF ReadWr, Wr
<1>3. ~ IsInit(x)
      BY <1>2 DEF IsInit
<1>4. SqData(x)'
      BY <1>2 DEF SqData
<1> QED BY <1>2, <1>3, <1>4, AnswerNew

LEMMA DeliverDelivery ==
    ASSUME TypeInv, TokenInv, DeliveryInv, Gone, Kept, NEW p \in Proc, Deliver(p)
    PROVE  DeliveryInv'
<1>1. PICK s, r : s = poller[p].send /\ r = poller[p].recv
      OBVIOUS
<1>2. /\ poller[p].pc = "matched" /\ poller' = [poller EXCEPT ![p] = Polling]
      /\ UNCHANGED <<isend_pc, snd, send_req_q, aq, done, cq, sbuf, got>>
      BY DEF Deliver, hist
<1>3. s \in Send /\ r \in Recv /\ Started(s)
      BY <1>1, <1>2 DEF TypeInv, PollerOK
<1>4. got[r] = s /\ (Rendezvous(s) \/ poller[p].data = "orig")
      BY <1>1, <1>2 DEF DeliveryInv, DataInv, PollerData
<1>5. \/ sq' = sq /\ rbuf' = [rbuf EXCEPT ![r] = "orig"] /\ flag' = [flag EXCEPT ![r] = 1]
      \/ sq' = Posted(p, snd[s].src, ReadWr(s, r)) /\ UNCHANGED <<rbuf, flag>>
      BY <1>1, <1>4 DEF Deliver, Rendezvous
<1>6. /\ \A x \in Send : flag'[x] = flag[x]
      /\ \A x \in Recv : flag'[x] = flag[x] \/ flag'[x] = 0 \/ (got'[x] # None /\ rbuf'[x] = "orig")
  <2>1. got'[r] # None
        BY <1>2, <1>3, <1>4, ProtocolAssumption
  <2> QED BY <1>3, <1>5, <2>1, ProtocolAssumption DEF TypeInv, TypeOK
<1>7. SqNew /\ SqInits
  <2>1. CASE sq' = sq
        BY <2>1, ShrinkNew
  <2>2. CASE sq' = Posted(p, snd[s].src, ReadWr(s, r))
        BY <1>2, <1>3, <1>4, <2>2, ReadNew
  <2> QED BY <1>5, <2>1, <2>2
<1>8. /\ poller'[p].pc = "poll" /\ \A a \in Proc : a # p => poller'[a] = poller[a]
      BY <1>2 DEF TypeInv, TypeOK, Polling
<1>9. PollerData(p)'
      BY <1>8 DEF PollerData
<1>10. PollerNew
  <2> HIDE DEF PollerData
  <2> QED BY <1>8, <1>9 DEF PollerNew
<1>11. DoneShrinks /\ CqShrinks /\ AqNew
       BY <1>2, ShrinkNew
<1>12. DoneNew /\ CqNew
       BY <1>11, ShrinkNew
<1>13. SentOnce'
       BY <1>6, <1>7, <1>11, AnswerSent
<1>14. \A a \in Proc : poller[a].pc = "remove" => poller'[a] = poller[a]
       BY <1>2, <1>8
<1>15. \A x \in Send : sbuf'[x] = "reused" => sbuf[x] = "reused" \/ flag[x] = 1
       BY <1>2
<1> QED BY <1>2, <1>6, <1>7, <1>10, <1>11, <1>12, <1>13, <1>14, <1>15, QuietDelivery

LEMMA IrecvDelivery ==
    ASSUME TypeInv, TokenInv, DeliveryInv, Gone, Kept, NEW p \in Proc, NEW r \in Recv, Irecv(p, r)
    PROVE  DeliveryInv'
<1>1. UNCHANGED <<isend_pc, snd, send_req_q, done, cq, poller, sbuf>>
      BY DEF Irecv
<1>2. PICK q : (\E i \in DOMAIN aq[p] : IrecvArrived(p, r, q, i)) \/ IrecvWaits(p, r, q)
      BY DEF Irecv
<1>3. DoneShrinks /\ CqShrinks /\ PollerNew
      BY <1>1, ShrinkNew
<1>4. DoneNew /\ CqNew
      BY <1>3, ShrinkNew
<1>5. SUFFICES /\ \A x \in Send : flag'[x] = flag[x]
               /\ \A x \in Recv : flag'[x] = flag[x] \/ flag'[x] = 0 \/ (got'[x] # None /\ rbuf'[x] = "orig")
               /\ SqNew /\ SqInits /\ AqNew
  <2>1. SentOnce'
        BY <1>3, <1>5, AnswerSent
  <2>2. \A x \in Send : sbuf'[x] = "reused" => sbuf[x] = "reused" \/ flag[x] = 1
        BY <1>1
  <2>3. \A a \in Proc : poller[a].pc = "remove" => poller'[a] = poller[a]
        BY <1>1
  <2> QED BY <1>1, <1>3, <1>4, <1>5, <2>1, <2>2, <2>3, QuietDelivery
<1>6. CASE IrecvWaits(p, r, q)
  <2>1. UNCHANGED <<aq, sq>> /\ flag' = [flag EXCEPT ![r] = 0]
        BY <1>6 DEF IrecvWaits
  <2>2. SqShrinks /\ AqNew
        BY <2>1, ShrinkNew
  <2>3. SqNew /\ SqInits
        BY <2>2, ShrinkNew
  <2>4. \A x \in Send \cup Recv : flag'[x] = IF x = r THEN 0 ELSE flag[x]
        BY <2>1 DEF TypeInv, TypeOK
  <2> QED BY <2>2, <2>3, <2>4, ProtocolAssumption
<1>7. ASSUME NEW i \in DOMAIN aq[p], IrecvArrived(p, r, q, i)
      PROVE  /\ \A x \in Send : flag'[x] = flag[x]
             /\ \A x \in Recv : flag'[x] = flag[x] \/ flag'[x] = 0 \/ (got'[x] # None /\ rbuf'[x] = "orig")
             /\ SqNew /\ SqInits /\ AqNew
  <2>1. aq[p][i] \in Arrived
        BY EntryType DEF TypeInv
  <2>2. PICK e \in Arrived : e = aq[p][i] /\ e.send \in Send /\ e \in Range(aq[p])
        BY <2>1 DEF Arrived, Range
  <2>3. PICK s \in Send : s = e.send
        BY <2>2
  <2>4. Started(s)
        BY <2>2, <2>3, RangeType
  <2>5. Rendezvous(s) \/ e.data = "orig"
        BY <2>2, <2>3 DEF DeliveryInv, DataInv
  <2>6. /\ aq' = [aq EXCEPT ![p] = RemoveAt(@, i)] /\ got' = [got EXCEPT ![r] = s]
        /\ \/ sq' = sq /\ rbuf' = [rbuf EXCEPT ![r] = "orig"] /\ flag' = [flag EXCEPT ![r] = 1]
           \/ flag' = [flag EXCEPT ![r] = 0] /\ sq' = Posted(p, snd[s].src, ReadWr(s, r))
        BY <1>7, <2>2, <2>3, <2>5 DEF IrecvArrived, Rendezvous
  <2>7. got'[r] = s /\ s # None
        BY <2>6, ProtocolAssumption DEF TypeInv, TypeOK
  <2>8. /\ \A x \in Send : flag'[x] = flag[x]
        /\ \A x \in Recv : flag'[x] = flag[x] \/ flag'[x] = 0 \/ (got'[x] # None /\ rbuf'[x] = "orig")
        BY <2>6, <2>7, ProtocolAssumption DEF TypeInv, TypeOK
  <2>9. SqNew /\ SqInits
    <3>1. CASE sq' = sq
          BY <3>1, ShrinkNew
    <3>2. CASE sq' = Posted(p, snd[s].src, ReadWr(s, r))
          BY <2>4, <2>7, <3>2, ReadNew
    <3> QED BY <2>6, <3>1, <3>2
  <2>10. AqNew
    <3>1. PICK f, g, S : f = aq /\ g = aq' /\ S = Arrived
          OBVIOUS
    <3>2. /\ f \in [Proc -> Seq(S)] /\ g = [f EXCEPT ![p] = RemoveAt(@, i)] /\ i \in DOMAIN f[p]
          /\ e = f[p][i] /\ e \in S /\ e.send \in Send /\ \A a \in Proc : Once(f[a], S)
          BY <2>2, <2>6, <3>1 DEF TypeInv, TypeOK, TokenInv, OnceEach
    <3>3. RowPops(f, g, S, S, p, e)
          BY <3>2, RowDrops
    <3>4. \A a \in Proc : Range(g[a]) \subseteq Range(f[a])
          BY <3>3 DEF RowPops, RowLess
    <3> HIDE DEF Range
    <3> QED BY <3>1, <3>4 DEF AqNew, Range
  <2> QED BY <2>8, <2>9, <2>10
<1> QED BY <1>2, <1>6, <1>7

\* A step that changes requests but puts nothing into a queue.
LEMMA RequestDelivery ==
    ASSUME TypeInv, TokenInv, DeliveryInv, Kept, SqNew, DoneNew, CqNew, AqNew, PollerNew, SentOnce', SerialInv',
           sbuf' = sbuf, \A s \in Send : flag[s] = 1 => flag'[s] = 1,
           \A r \in Recv : flag'[r] = flag[r]
    PROVE  DeliveryInv'
<1>1. \A s \in Send : sbuf'[s] = "reused" => flag'[s] = 1
      BY DEF DeliveryInv, DataInv
<1>2. DataInv'
      BY <1>1, DataStep DEF DeliveryInv
<1>3. ReceivedDataIntact'
      BY IntactStep DEF DeliveryInv
<1> QED BY <1>2, <1>3 DEF DeliveryInv

\* isend begins: no other send of the process is outstanding.
LEMMA IsendEnqDelivery ==
    ASSUME SerialSends, TypeInv, TokenInv, DeliveryInv, Gone, Kept, NEW p \in Proc, NEW v \in Send, IsendEnq(p, v)
    PROVE  DeliveryInv'
<1>1. /\ isend_pc[v] = "idle" /\ isend_pc' = [isend_pc EXCEPT ![v] = "enqueued"]
      /\ send_req_q' = [send_req_q EXCEPT ![p] = Append(@, v)]
      /\ UNCHANGED <<flag, aq, poller, sq, done, cq, sbuf, rbuf, got>>
      /\ \A x \in Send : ~ Outstanding(p, x)
      BY DEF IsendEnq, nic, bufs, hist
<1>2. \A s \in Send : isend_pc'[s] = IF s = v THEN "enqueued" ELSE isend_pc[s]
      BY <1>1 DEF TypeInv, TypeOK
<1>3. snd'[v].src = p /\ \A s \in Send : s # v => snd'[s] = snd[s]
      BY DEF IsendEnq, TypeInv, TypeOK
<1>4. SerialInv
      BY DEF DeliveryInv
<1>5. flag[v] = 0 /\ \A s \in Send : flag'[s] \in {0, 1}
  <2>1. flag[v] # 1
        BY <1>1, <1>4 DEF SerialInv
  <2>2. flag' = flag /\ flag \in [Send \cup Recv -> {0, 1}]
        BY <1>1 DEF TypeInv, TypeOK
  <2> QED BY <2>1, <2>2
<1>6. \A a \in Proc, s \in Send : s # v /\ Outstanding(a, s)' => Outstanding(a, s)
      BY <1>1, <1>2, <1>3 DEF Outstanding
<1>7. \A a \in Proc : Outstanding(a, v)' => a = p
      BY <1>3 DEF Outstanding
<1>8. \A a \in Proc, s, t \in Send : Outstanding(a, s)' /\ Outstanding(a, t)' => s = t
  <2> HIDE DEF Outstanding
  <2> QED BY <1>1, <1>4, <1>6, <1>7 DEF SerialInv
<1>9. ASSUME NEW a \in Proc PROVE RequestsOK(a)'
  <2>1. RequestsOK(a)
        BY <1>4 DEF SerialInv
  <2>2. send_req_q[a] \in Seq(Send)
        BY DEF TypeInv, TypeOK
  <2>3. PICK q, r : q = send_req_q[a] /\ r = send_req_q'[a] /\ q \in Seq(Send)
        BY <2>2
  <2>4. r = IF a = p THEN Append(q, v) ELSE q
        BY <1>1, <2>3 DEF TypeInv, TypeOK
  <2>5. \A s \in Range(q) : s \in Send
        BY <2>3, LenProperties, ElementOfSeq DEF Range
  <2>6. /\ IsInjective(q)
        /\ \A s \in Range(q) : Started(s)
        /\ \A s \in Range(q) : snd[s].src = a
        /\ \A s \in Range(q) : flag[s] = 0 \/ (poller[a].pc = "remove" /\ poller[a].send = s)
        BY <2>1, <2>3 DEF RequestsOK
  <2>7. ~ Started(v) /\ v \notin Range(q)
    <3>1. ~ Started(v)
          BY <1>1 DEF Started
    <3> HIDE DEF Range, Started
    <3> QED BY <2>6, <3>1
  <2>8. IsInjective(r) /\ \A s \in Range(r) : s \in Range(q) \/ (s = v /\ a = p)
        BY <2>3, <2>4, <2>6, <2>7, PutLast
  <2> HIDE DEF Range, IsInjective
  <2>9. \A s \in Range(r) : /\ Started(s)' /\ snd'[s].src = a
                            /\ flag'[s] = 0 \/ (poller'[a].pc = "remove" /\ poller'[a].send = s)
    <3> SUFFICES ASSUME NEW s \in Range(r)
                 PROVE  /\ Started(s)' /\ snd'[s].src = a
                        /\ flag'[s] = 0 \/ (poller'[a].pc = "remove" /\ poller'[a].send = s)
        OBVIOUS
    <3>1. CASE s = v /\ a = p
          BY <1>1, <1>2, <1>3, <1>5, <3>1 DEF Started
    <3>2. CASE s \in Range(q)
      <4>1. s # v /\ s \in Send
            BY <2>5, <2>7, <3>2
      <4>2. /\ Started(s) /\ snd[s].src = a
            /\ flag[s] = 0 \/ (poller[a].pc = "remove" /\ poller[a].send = s)
        <5> HIDE DEF Started
        <5> QED BY <2>6, <3>2
      <4>3. Started(s)'
            BY <1>2, <4>1, <4>2 DEF Started
      <4> HIDE DEF Started
      <4> QED BY <1>1, <1>3, <4>1, <4>2, <4>3
    <3> QED BY <2>8, <3>1, <3>2
  <2> QED BY <2>3, <2>8, <2>9 DEF RequestsOK, Range, IsInjective
<1>10. SerialInv'
  <2> HIDE DEF Outstanding, RequestsOK, CompletesWell
  <2> QED BY <1>1, <1>4, <1>5, <1>8, <1>9, SerialStep
<1>11. SqShrinks /\ DoneShrinks /\ CqShrinks /\ AqNew /\ PollerNew
       BY <1>1, ShrinkNew
<1>12. SqNew /\ DoneNew /\ CqNew /\ SqInits
       BY <1>11, ShrinkNew
<1>13. SentOnce'
       BY <1>1, <1>11, <1>12, AnswerSent
<1> QED BY <1>1, <1>10, <1>11, <1>12, <1>13, RequestDelivery

\* isend posts its control message.
LEMMA IsendPostDelivery ==
    ASSUME TypeInv, TokenInv, DeliveryInv, Gone, Kept, NEW v \in Send, IsendPost(v)
    PROVE  DeliveryInv'
<1>1. /\ isend_pc[v] = "enqueued" /\ isend_pc' = [isend_pc EXCEPT ![v] = "posted"]
      /\ flag' = [flag EXCEPT ![v] = 0] /\ sq' = Posted(snd[v].src, snd[v].dst, SendWr(v, "INIT"))
      /\ UNCHANGED <<snd, send_req_q, aq, poller, done, cq, sbuf, rbuf, got>>
      BY DEF IsendPost, bufs
<1>2. SerialInv
      BY DEF DeliveryInv
<1>3. flag[v] = 0
  <2>1. flag[v] # 1
        BY <1>1, <1>2 DEF SerialInv
  <2>2. flag \in [Send \cup Recv -> {0, 1}]
        BY DEF TypeInv, TypeOK
  <2> QED BY <2>1, <2>2
<1>4. \A x \in Send \cup Recv : flag'[x] = flag[x]
      BY <1>1, <1>3 DEF TypeInv, TypeOK
<1>5. \A s \in Send : isend_pc'[s] = IF s = v THEN "posted" ELSE isend_pc[s]
      BY <1>1 DEF TypeInv, TypeOK
<1>6. SerialInv'
      BY <1>1, <1>2, <1>3, <1>4, <1>5, SerialQuiet
<1>7. PICK x, a, b : x = SendWr(v, "INIT") /\ a = snd[v].src /\ b = snd[v].dst
      OBVIOUS
<1>8. x \in Wr /\ x.send = v /\ x.op = "SEND" /\ x.type = "INIT"
      BY <1>7 DEF SendWr, Wr
<1>9. a \in Proc /\ b \in Proc
  <2>1. snd[v] \in Message
        BY <1>1 DEF TypeInv, Known, SendsKnown, Started
  <2> QED BY <1>7, <2>1 DEF Message
<1>10. \A c, d \in Proc : \A y \in Range(sq'[c][d]) : y \in Range(sq[c][d]) \/ y = x
       BY <1>1, <1>7, <1>8, <1>9, PostNew
<1>11. SqNew
  <2>1. SqData(x)'
        BY <1>8 DEF SqData
  <2> HIDE DEF SqData, Range
  <2> QED BY <1>10, <2>1 DEF SqNew
<1>12. DoneShrinks /\ CqShrinks /\ AqNew /\ PollerNew
       BY <1>1, ShrinkNew
<1>13. DoneNew /\ CqNew
       BY <1>12, ShrinkNew
<1>14. SentOnce'
  <2>1. \A s : Reported(s)' <=> Reported(s)
        BY <1>1 DEF Reported, IsInit
  <2>2. ~ Reported(v) /\ flag'[v] = 0
    <3> HIDE DEF Reported
    <3> QED BY <1>1, <1>3, <1>4 DEF DeliveryInv, SentOnce
  <2>3. ASSUME NEW c \in Proc, NEW d \in Proc, NEW y \in Range(sq'[c][d]), IsInit(y)
        PROVE  ~ Reported(y.send)' /\ flag'[y.send] = 0
    <3>1. CASE y = x
      <4> HIDE DEF Reported
      <4> QED BY <1>8, <2>1, <2>2, <3>1
    <3>2. CASE y \in Range(sq[c][d])
      <4>1. ~ Reported(y.send) /\ flag[y.send] = 0
            BY <2>3, <3>2 DEF DeliveryInv, SentOnce
      <4>2. y.send \in Send
            BY <3>2, RangeType
      <4> HIDE DEF Reported
      <4> QED BY <1>4, <2>1, <4>1, <4>2
    <3> QED BY <1>10, <3>1, <3>2
  <2>4. \A s \in Send : Reported(s)' => isend_pc'[s] = "posted"
    <3> HIDE DEF Reported
    <3> QED BY <1>5, <2>1 DEF DeliveryInv, SentOnce
  <2> HIDE DEF Reported
  <2> QED BY <2>3, <2>4 DEF SentOnce, IsInit, Range
<1>15. /\ \A s \in Send : flag[s] = 1 => flag'[s] = 1
       /\ \A r \in Recv : flag'[r] = flag[r]
       BY <1>4
<1> QED BY <1>1, <1>6, <1>11, <1>12, <1>13, <1>14, <1>15, RequestDelivery

\* A request leaves the queue, or is complete and about to leave it.
LEMMA RequestsLess ==
    ASSUME TypeInv, NEW a \in Proc, RequestsOK(a), UNCHANGED <<isend_pc, snd>>,
           IsInjective(send_req_q'[a]), Range(send_req_q'[a]) \subseteq Range(send_req_q[a]),
           \A s \in Range(send_req_q'[a]) :
               \/ flag'[s] = flag[s] /\ (poller'[a] = poller[a] \/ ~ (poller[a].pc = "remove" /\ poller[a].send = s))
               \/ poller'[a].pc = "remove" /\ poller'[a].send = s
    PROVE  RequestsOK(a)'
<1>1. ASSUME NEW s \in Range(send_req_q'[a])
      PROVE  /\ Started(s)' /\ snd'[s].src = a
             /\ flag'[s] = 0 \/ (poller'[a].pc = "remove" /\ poller'[a].send = s)
  <2>1. s \in Range(send_req_q[a])
        OBVIOUS
  <2>2. Started(s) /\ snd[s].src = a /\ (flag[s] = 0 \/ (poller[a].pc = "remove" /\ poller[a].send = s))
        BY <2>1 DEF RequestsOK
  <2>3. Started(s)'
        BY <2>2 DEF Started
  <2> HIDE DEF Started, Range
  <2> QED BY <2>2, <2>3
<1> HIDE DEF Started
<1> QED BY <1>1 DEF RequestsOK, Range, IsInjective

\* The completion of the SEND completes an eager send.
LEMMA PollSentDelivery ==
    ASSUME TypeInv, TokenInv, DeliveryInv, Gone, Kept, NEW p \in Proc, PollSent(p)
    PROVE  DeliveryInv'
<1>1. PICK x : x = Head(cq[p])
      OBVIOUS
<1>2. /\ cq[p] # <<>> /\ x.op = "SEND" /\ x.type = "INIT" /\ cq' = [cq EXCEPT ![p] = Tail(@)]
      /\ poller[p].pc = "poll"
      /\ UNCHANGED <<isend_pc, snd, send_req_q, aq, sq, done, sbuf, rbuf, got>>
      BY <1>1 DEF PollSent, Polled, bufs, hist
<1>3. CqHead(p, x)
      BY <1>1, <1>2, CqTakes DEF TokenInv
<1>4. x \in Range(cq[p]) /\ x.send \in Send /\ RowLess(cq, cq', Comes)
      BY <1>3 DEF CqHead, Wc
<1>5. PICK v \in Send : v = x.send
      BY <1>4
<1>6. SqShrinks /\ DoneShrinks /\ CqShrinks /\ AqNew
      BY <1>2, <1>4, ShrinkNew DEF RowLess, CqShrinks
<1>7. CASE UNCHANGED <<flag, poller>>
  <2>1. \A s \in Send : sbuf'[s] = "reused" => sbuf[s] = "reused" \/ flag[s] = 1
        BY <1>2
  <2> QED BY <1>2, <1>6, <1>7, <2>1, StillDelivery
<1>8. CASE /\ snd[v].opcode = "EAGER" /\ flag' = [flag EXCEPT ![v] = 1]
           /\ poller' = [poller EXCEPT ![p] = [Polling EXCEPT !.pc = "remove", !.send = v]]
  <2>1. snd[v].src = p
        BY <1>2, <1>4, <1>5 DEF TokenInv, EntriesOK, CqOK
  <2>2. Reported(v)
        BY <1>2, <1>4, <1>5 DEF Reported, IsInit
  <2>3. isend_pc[v] = "posted"
    <3> HIDE DEF Reported
    <3> QED BY <2>2 DEF DeliveryInv, SentOnce
  <2>4. \A y \in Send \cup Recv : flag'[y] = IF y = v THEN 1 ELSE flag[y]
        BY <1>8 DEF TypeInv, TypeOK
  <2>5. PICK w : w = [Polling EXCEPT !.pc = "remove", !.send = v]
        OBVIOUS
  <2>6. w.pc = "remove" /\ w.send = v
        BY <2>5 DEF Polling
  <2>7. poller'[p] = w /\ \A a \in Proc : a # p => poller'[a] = poller[a]
        BY <1>8, <2>5 DEF TypeInv, TypeOK
  <2>8. PollerNew
    <3>1. PollerData(p)'
          BY <2>6, <2>7 DEF PollerData
    <3> HIDE DEF PollerData
    <3> QED BY <2>7, <3>1 DEF PollerNew
  <2>9. SerialInv
        BY DEF DeliveryInv
  <2>10. \A a \in Proc, s \in Send : Outstanding(a, s)' => Outstanding(a, s)
         BY <1>2, <2>4 DEF Outstanding
  <2>11. \A a \in Proc, s, t \in Send : Outstanding(a, s)' /\ Outstanding(a, t)' => s = t
    <3> HIDE DEF Outstanding
    <3> QED BY <2>9, <2>10 DEF SerialInv
  <2>12. ASSUME NEW a \in Proc PROVE RequestsOK(a)'
    <3>1. RequestsOK(a)
          BY <2>9 DEF SerialInv
    <3>2. IsInjective(send_req_q[a]) /\ \A s \in Range(send_req_q[a]) : snd[s].src = a
          BY <3>1 DEF RequestsOK
    <3>3. send_req_q'[a] = send_req_q[a] /\ \A s \in Range(send_req_q[a]) : s \in Send
      <4>1. send_req_q[a] \in Seq(Send)
            BY DEF TypeInv, TypeOK
      <4>2. \A s \in Range(send_req_q[a]) : s \in Send
            BY <4>1, LenProperties, ElementOfSeq DEF Range
      <4> QED BY <1>2, <4>2
    <3> HIDE DEF Range, IsInjective
    <3>4. ASSUME NEW s \in Range(send_req_q'[a])
          PROVE  \/ /\ flag'[s] = flag[s]
                    /\ poller'[a] = poller[a] \/ ~ (poller[a].pc = "remove" /\ poller[a].send = s)
                 \/ poller'[a].pc = "remove" /\ poller'[a].send = s
      <4>1. s \in Send /\ snd[s].src = a
            BY <3>2, <3>3
      <4>2. CASE s = v
            BY <2>1, <2>6, <2>7, <4>1, <4>2
      <4>3. CASE s # v
            BY <1>2, <2>4, <2>7, <4>1, <4>3
      <4> QED BY <4>2, <4>3
    <3> QED BY <1>2, <3>1, <3>2, <3>3, <3>4, RequestsLess
  <2>13. CompletesWell(v)'
    <3>1. isend_pc'[v] = "posted" /\ ~ Rendezvous(v)'
          BY <1>2, <1>8, <2>3 DEF Rendezvous
    <3> HIDE DEF Rendezvous
    <3> QED BY <3>1 DEF CompletesWell
  <2>14. \A s \in Send : /\ flag'[s] \in {0, 1} /\ (flag[s] = 1 => flag'[s] = 1)
                         /\ flag'[s] = 1 => flag[s] = 1 \/ CompletesWell(s)'
    <3> HIDE DEF CompletesWell
    <3> QED BY <2>4, <2>13 DEF TypeInv, TypeOK
  <2>15. SerialInv'
    <3> HIDE DEF Outstanding, RequestsOK, CompletesWell
    <3> QED BY <2>9, <2>11, <2>12, <2>14, SerialStep
  <2>16. SqNew /\ SqInits /\ DoneNew /\ DoneInits /\ CqNew /\ CqInits
         BY <1>6, ShrinkNew
  <2>17. ASSUME NEW a \in Proc, NEW b \in Proc, NEW y \in Range(sq[a][b]), IsInit(y)
         PROVE  flag'[y.send] = 0
    <3>1. ~ Reported(y.send) /\ flag[y.send] = 0
          BY <2>17 DEF DeliveryInv, SentOnce
    <3>2. y.send \in Send
          BY RangeType
    <3>3. y.send # v
      <4> HIDE DEF Reported
      <4> QED BY <2>2, <3>1
    <3> QED BY <2>4, <3>1, <3>2, <3>3
  <2>18. SentOnce'
    <3> HIDE DEF IsInit, Reported, Range
    <3> QED BY <2>16, <2>17, SentLess DEF SqInits, DoneInits, CqInits, DeliveryInv, Kept
  <2>19. \A r \in Recv : flag'[r] = flag[r]
         BY <2>4, ProtocolAssumption
  <2> QED BY <1>2, <1>6, <2>8, <2>14, <2>15, <2>16, <2>18, <2>19, RequestDelivery
<1> QED BY <1>1, <1>5, <1>7, <1>8 DEF PollSent

\* Removing the first occurrence from a queue without repetitions removes the entry.
LEMMA RemoveOnly ==
    ASSUME NEW S, NEW q \in Seq(S), NEW e, IsInjective(q)
    PROVE  IsInjective(RemoveFirst(q, e)) /\ Range(RemoveFirst(q, e)) = Range(q) \ {e}
<1> DEFINE I == {i \in 1 .. Len(q) : q[i] = e}
<1>0. Len(q) \in Nat /\ DOMAIN q = 1 .. Len(q)
      BY LenProperties
<1>1. CASE I = {}
  <2>1. RemoveFirst(q, e) = q
        BY <1>1 DEF RemoveFirst
  <2>2. e \notin Range(q)
        BY <1>0, <1>1 DEF Range
  <2> QED BY <2>1, <2>2
<1>2. CASE I # {}
  <2>1. I \subseteq Nat
        BY <1>0
  <2>2. Min(I) \in I
    <3> HIDE DEF I
    <3> QED BY <1>2, <2>1, LeastPlace
  <2>3. PICK m \in 1 .. Len(q) : m = Min(I) /\ q[m] = e
        BY <2>2
  <2>4. RemoveFirst(q, e) = RemoveAt(q, m)
        BY <1>2, <2>3 DEF RemoveFirst, SelectInSeq
  <2>5. m \in DOMAIN q
        BY <1>0
  <2>6. IsInjective(RemoveAt(q, m)) /\ Range(RemoveAt(q, m)) = Range(q) \ {q[m]}
        BY <2>5, TakeAt
  <2> QED BY <2>3, <2>4, <2>6
<1> QED BY <1>1, <1>2

\* The request of an eager send leaves send_req_q.
LEMMA RemoveSendReqDelivery ==
    ASSUME TypeInv, TokenInv, DeliveryInv, Gone, Kept, NEW p \in Proc, RemoveSendReq(p)
    PROVE  DeliveryInv'
<1>1. PICK e : e = poller[p].send
      OBVIOUS
<1>2. /\ poller[p].pc = "remove" /\ send_req_q' = [send_req_q EXCEPT ![p] = RemoveFirst(@, e)]
      /\ poller' = [poller EXCEPT ![p] = Polling]
      /\ UNCHANGED <<isend_pc, snd, flag, aq, sq, done, cq, sbuf, rbuf, got>>
      BY <1>1 DEF RemoveSendReq, nic, bufs, hist
<1>3. /\ poller'[p].pc = "poll" /\ \A a \in Proc : a # p => poller'[a] = poller[a]
      BY <1>2 DEF TypeInv, TypeOK, Polling
<1>4. PollerNew
  <2>1. PollerData(p)'
        BY <1>3 DEF PollerData
  <2> HIDE DEF PollerData
  <2> QED BY <1>3, <2>1 DEF PollerNew
<1>5. SerialInv
      BY DEF DeliveryInv
<1>6. \A a \in Proc, s, t \in Send : Outstanding(a, s)' /\ Outstanding(a, t)' => s = t
  <2>1. \A a \in Proc, s \in Send : Outstanding(a, s)' => Outstanding(a, s)
        BY <1>2 DEF Outstanding
  <2> HIDE DEF Outstanding
  <2> QED BY <1>5, <2>1 DEF SerialInv
<1>7. ASSUME NEW a \in Proc PROVE RequestsOK(a)'
  <2>1. RequestsOK(a)
        BY <1>5 DEF SerialInv
  <2>2. IsInjective(send_req_q[a])
        BY <2>1 DEF RequestsOK
  <2>3. send_req_q \in [Proc -> Seq(Send)]
        BY DEF TypeInv, TypeOK
  <2>4. CASE a = p
    <3>1. PICK q, r : q = send_req_q[a] /\ r = send_req_q'[a] /\ q \in Seq(Send) /\ r = RemoveFirst(q, e)
          BY <1>2, <2>3, <2>4
    <3>2. IsInjective(r) /\ Range(r) = Range(q) \ {e}
          BY <2>2, <3>1, RemoveOnly
    <3> HIDE DEF Range, IsInjective
    <3>3. \A s \in Range(send_req_q'[a]) : flag'[s] = flag[s] /\ ~ (poller[a].pc = "remove" /\ poller[a].send = s)
          BY <1>1, <1>2, <2>4, <3>1, <3>2
    <3> QED BY <1>2, <2>1, <3>1, <3>2, <3>3, RequestsLess
  <2>5. CASE a # p
    <3>1. send_req_q'[a] = send_req_q[a] /\ poller'[a] = poller[a]
          BY <1>2, <1>3, <2>3, <2>5
    <3> HIDE DEF Range, IsInjective
    <3> QED BY <1>2, <2>1, <2>2, <3>1, RequestsLess
  <2> QED BY <2>4, <2>5
<1>8. SerialInv'
  <2>1. \A s \in Send : flag'[s] \in {0, 1} /\ (flag'[s] = 1 => flag[s] = 1)
        BY <1>2 DEF TypeInv, TypeOK
  <2> HIDE DEF Outstanding, RequestsOK, CompletesWell
  <2> QED BY <1>5, <1>6, <1>7, <2>1, SerialStep
<1>9. SqShrinks /\ DoneShrinks /\ CqShrinks /\ AqNew
      BY <1>2, ShrinkNew
<1>10. SqNew /\ DoneNew /\ CqNew /\ SqInits
       BY <1>9, ShrinkNew
<1>11. SentOnce'
       BY <1>2, <1>9, <1>10, AnswerSent
<1> QED BY <1>2, <1>4, <1>8, <1>9, <1>10, <1>11, RequestDelivery

\* A FIN completes the send it answers: it is the one that is outstanding, so its request is
\* the one at the head of send_req_q.
LEMMA PollFinDelivery ==
    ASSUME TypeInv, TokenInv, DeliveryInv, Gone, Kept, NEW p \in Proc, PollFin(p)
    PROVE  DeliveryInv'
<1>1. UNCHANGED <<isend_pc, snd, aq, poller, sq, done, sbuf, rbuf, got>> /\ poller[p].pc = "poll"
      BY DEF PollFin, Polled, bufs, hist
<1>2. CallsKept /\ SerialInv
      BY DEF Kept, DeliveryInv
<1>3. PICK v \in Send : FinOf(p, v) /\ ~ Underway(v)'
      BY <1>2, FinEnds
<1>4. isend_pc[v] = "posted" /\ Rendezvous(v) /\ snd[v].src = p /\ ~ Discarded(p, v) /\ Underway(v)
      BY <1>3 DEF FinOf
<1>5. PICK x \in Range(cq[p]) : x = Head(cq[p]) /\ x.op = "RECV" /\ x.type = "FIN" /\ x.send = v
      BY <1>3 DEF FinOf
<1>6. WasRead(v)
      BY <1>5 DEF DeliveryInv, DataInv, CqData
<1>7. flag[v] = 0
      BY <1>2, <1>4 DEF SerialInv
<1>8. snd[v] # None
      BY <1>4, NoneAssumption DEF TypeInv, Known, SendsKnown, Started
<1>9. Outstanding(p, v)
      BY <1>4, <1>7, <1>8 DEF Outstanding
<1>10. PICK q \in Seq(Send) : q = send_req_q[p]
       BY DEF TypeInv, TypeOK
<1>11. /\ IsInjective(q) /\ \A s \in Range(q) : Started(s)
       /\ \A s \in Range(q) : snd[s].src = p
       /\ \A s \in Range(q) : flag[s] = 0
  <2>1. RequestsOK(p)
        BY <1>2 DEF SerialInv
  <2> QED BY <1>1, <1>10, <2>1 DEF RequestsOK
<1>12. /\ flag' = [y \in DOMAIN flag |-> IF y \in ToSet(SubSeq(q, 1, 1)) THEN 1 ELSE flag[y]]
       /\ send_req_q' = [send_req_q EXCEPT ![p] = SubSeq(q, 2, Len(q))]
  <2>1. ~ Discarded(p, Head(cq[p]).send)
        BY <1>4, <1>5
  <2>2. send_req_q' = [send_req_q EXCEPT ![p] = SubSeq(@, 1 + 1, Len(@))]
        BY <2>1 DEF PollFin
  <2>3. flag' = [y \in DOMAIN flag |-> IF y \in ToSet(SubSeq(send_req_q[p], 1, 1)) THEN 1 ELSE flag[y]]
        BY <2>1 DEF PollFin
  <2> QED BY <1>10, <2>2, <2>3
<1>13. PICK r : r = SubSeq(q, 2, Len(q)) /\ IsInjective(r) /\ Range(r) \subseteq Range(q) \ {v}
             /\ ToSet(SubSeq(q, 1, 1)) \subseteq {v}
  <2>1. CASE q = <<>>
    <3>1. SubSeq(q, 2, Len(q)) = <<>> /\ SubSeq(q, 1, 1) = <<>>
          BY <2>1
    <3>2. IsInjective(<<>>) /\ Range(<<>>) = {} /\ ToSet(<<>>) = {}
          BY DEF IsInjective, Range, ToSet
    <3> QED BY <3>1, <3>2
  <2>2. CASE q # <<>>
    <3>1. Head(q) \in Send /\ Head(q) \in Range(q)
          BY <2>2, TakeFirst
    <3>2. PICK h \in Send : h = Head(q) /\ h \in Range(q)
          BY <3>1
    <3>3. Started(h) /\ snd[h].src = p /\ flag[h] = 0
          BY <1>11, <3>2
    <3>4. snd[h] # None
          BY <3>3, NoneAssumption DEF TypeInv, Known, SendsKnown
    <3>5. Outstanding(p, h)
          BY <3>3, <3>4 DEF Outstanding
    <3>6. h = v
      <4> HIDE DEF Outstanding
      <4> QED BY <1>2, <1>9, <3>5 DEF SerialInv
    <3>7. IsInjective(Tail(q)) /\ Range(Tail(q)) = Range(q) \ {h}
          BY <1>11, <2>2, <3>2, TakeFirst
    <3>8. Len(q) \in Nat \ {0} /\ Head(q) = q[1] /\ DOMAIN q = 1 .. Len(q)
          BY <2>2, LenProperties, EmptySeq
    <3>9. SubSeq(q, 2, Len(q)) = Tail(q)
          BY <3>8
    <3>10. ToSet(SubSeq(q, 1, 1)) \subseteq {v}
      <4>1. PICK w : w = SubSeq(q, 1, 1)
            OBVIOUS
      <4>2. DOMAIN w = 1 .. 1 /\ w[1] = q[1]
            BY <3>8, <4>1
      <4>3. \A i \in DOMAIN w : w[i] = v
            BY <3>2, <3>6, <3>8, <4>2
      <4> QED BY <4>1, <4>3 DEF ToSet
    <3> QED BY <3>6, <3>7, <3>9, <3>10
  <2> QED BY <2>1, <2>2
<1>14. \A y \in Send \cup Recv : y # v => flag'[y] = flag[y]
       BY <1>12, <1>13 DEF TypeInv, TypeOK
<1>15. flag'[v] \in {0, 1}
       BY <1>12 DEF TypeInv, TypeOK
<1>16. \A a \in Proc, s, t \in Send : Outstanding(a, s)' /\ Outstanding(a, t)' => s = t
  <2>1. \A a \in Proc, s \in Send : Outstanding(a, s)' => Outstanding(a, s)
    <3>1. \A s \in Send : flag'[s] = 0 => flag[s] = 0
          BY <1>7, <1>14
    <3> QED BY <1>1, <3>1 DEF Outstanding
  <2> HIDE DEF Outstanding
  <2> QED BY <1>2, <2>1 DEF SerialInv
<1>17. ASSUME NEW a \in Proc PROVE RequestsOK(a)'
  <2>1. RequestsOK(a)
        BY <1>2 DEF SerialInv
  <2>2. send_req_q'[a] = IF a = p THEN r ELSE send_req_q[a]
        BY <1>12, <1>13 DEF TypeInv, TypeOK
  <2>3. IsInjective(send_req_q[a]) /\ \A s \in Range(send_req_q[a]) : s \in Send /\ snd[s].src = a
    <3>1. send_req_q[a] \in Seq(Send)
          BY DEF TypeInv, TypeOK
    <3>2. \A s \in Range(send_req_q[a]) : s \in Send
          BY <3>1, LenProperties, ElementOfSeq DEF Range
    <3> QED BY <2>1, <3>2 DEF RequestsOK
  <2> HIDE DEF Range, IsInjective
  <2>4. /\ IsInjective(send_req_q'[a]) /\ Range(send_req_q'[a]) \subseteq Range(send_req_q[a])
        /\ v \notin Range(send_req_q'[a])
    <3>1. CASE a = p
          BY <1>10, <1>13, <2>2, <3>1
    <3>2. CASE a # p
          BY <1>4, <2>2, <2>3, <3>2
    <3> QED BY <3>1, <3>2
  <2>5. \A s \in Range(send_req_q'[a]) : flag'[s] = flag[s]
        BY <1>14, <2>3, <2>4
  <2>6. poller'[a] = poller[a]
        BY <1>1
  <2> QED BY <1>1, <2>1, <2>4, <2>5, <2>6, RequestsLess
<1>18. CompletesWell(v)'
  <2>1. WasRead(v)'
        BY <1>6, ReadKept
  <2>2. isend_pc'[v] = "posted"
        BY <1>1, <1>4
  <2> HIDE DEF Underway, WasRead, Rendezvous
  <2> QED BY <1>3, <2>1, <2>2 DEF CompletesWell
<1>19. \A s \in Send : /\ flag'[s] \in {0, 1} /\ (flag[s] = 1 => flag'[s] = 1)
                       /\ flag'[s] = 1 => flag[s] = 1 \/ CompletesWell(s)'
  <2>1. \A s \in Send : flag[s] \in {0, 1}
        BY DEF TypeInv, TypeOK
  <2> HIDE DEF CompletesWell
  <2> QED BY <1>7, <1>14, <1>15, <1>18, <2>1
<1>20. SerialInv'
  <2> HIDE DEF Outstanding, RequestsOK, CompletesWell
  <2> QED BY <1>2, <1>16, <1>17, <1>19, SerialStep
<1>21. SqShrinks /\ DoneShrinks /\ CqShrinks /\ AqNew /\ PollerNew
  <2>1. RowLess(cq, cq', Comes)
        BY <1>2, FinEnds
  <2> QED BY <1>1, <2>1, ShrinkNew DEF RowLess, CqShrinks
<1>22. SqNew /\ SqInits /\ DoneNew /\ DoneInits /\ CqNew /\ CqInits
       BY <1>21, ShrinkNew
<1>23. ASSUME NEW a \in Proc, NEW b \in Proc, NEW y \in Range(sq[a][b]), IsInit(y)
       PROVE  flag'[y.send] = 0
  <2>1. flag[y.send] = 0
        BY <1>23 DEF DeliveryInv, SentOnce
  <2>2. y \in Wr /\ y.send \in Send
        BY RangeType
  <2>3. y.send # v
    <3>1. SUFFICES ASSUME y.send = v PROVE FALSE
          OBVIOUS
    <3>2. At("sq", a, b, v)
          BY <2>2, <3>1 DEF At, Has, Range
    <3>3. x \in Comes /\ At("cq", p, p, v)
      <4>1. x \in Wc
            BY RangeType
      <4>2. x \in Comes
            BY <1>5, <4>1 DEF Comes
      <4> QED BY <1>5, <4>2 DEF At, Has, Range
    <3>4. "sq" \in Place /\ "cq" \in Place
          BY DEF Place
    <3> HIDE DEF At
    <3> QED BY <3>2, <3>3, <3>4 DEF TokenInv, OnePlace
  <2> QED BY <1>14, <2>1, <2>2, <2>3
<1>24. SentOnce'
  <2> HIDE DEF IsInit, Reported, Range
  <2> QED BY <1>22, <1>23, SentLess DEF SqInits, DoneInits, CqInits, DeliveryInv, Kept
<1>25. \A c \in Recv : flag'[c] = flag[c]
       BY <1>14, ProtocolAssumption
<1> QED BY <1>1, <1>19, <1>20, <1>21, <1>22, <1>24, <1>25, RequestDelivery

LEMMA NextDelivery ==
    ASSUME SerialSends, TypeInv, TokenInv, RecvOrderInv, DeliveryInv, [Next]_vars
    PROVE  DeliveryInv'
<1>1. Kept /\ Gone
      BY NextKept
<1>2. CASE UNCHANGED vars
      BY <1>1, <1>2, StillSteps
<1>3. ASSUME NEW p \in Proc, NEW s \in Send, IsendEnq(p, s) PROVE DeliveryInv'
      BY <1>1, <1>3, IsendEnqDelivery
<1>4. ASSUME NEW s \in Send, IsendPost(s) PROVE DeliveryInv'
      BY <1>1, <1>4, IsendPostDelivery
<1>5. ASSUME NEW s \in Send, ReuseSendBuffer(s) PROVE DeliveryInv'
      BY <1>1, <1>5, StillSteps
<1>6. ASSUME NEW p \in Proc, NEW r \in Recv, Irecv(p, r) PROVE DeliveryInv'
      BY <1>1, <1>6, IrecvDelivery
<1>7. ASSUME NEW p \in Proc, PollerStep(p) PROVE DeliveryInv'
  <2>1. CASE PollInit(p)
        BY <1>1, <2>1, PollInitDelivery
  <2>2. CASE Deliver(p)
        BY <1>1, <2>2, DeliverDelivery
  <2>3. CASE PollRead(p)
        BY <1>1, <2>3, PollReadDelivery
  <2>4. CASE SendFin(p)
        BY <1>1, <2>4, SendFinDelivery
  <2>5. CASE PollFinSent(p)
        BY <1>1, <2>5, StillSteps
  <2>6. CASE PollSent(p)
        BY <1>1, <2>6, PollSentDelivery
  <2>7. CASE RemoveSendReq(p)
        BY <1>1, <2>7, RemoveSendReqDelivery
  <2>8. CASE PollFin(p)
        BY <1>1, <2>8, PollFinDelivery
  <2> QED BY <1>7, <2>1, <2>2, <2>3, <2>4, <2>5, <2>6, <2>7, <2>8 DEF PollerStep
<1>8. ASSUME NEW p \in Proc, NEW d \in Proc, NicSend(p, d) PROVE DeliveryInv'
      BY <1>1, <1>8, NicSendDelivery
<1>9. ASSUME NEW p \in Proc, NEW d \in Proc, NicRead(p, d) PROVE DeliveryInv'
      BY <1>1, <1>9, NicReadDelivery
<1>10. ASSUME NEW p \in Proc, NEW d \in Proc, NicComplete(p, d) PROVE DeliveryInv'
       BY <1>1, <1>10, NicCompleteDelivery
<1>11. ASSUME NEW p \in Proc, NEW d \in Proc, Break(p, d) \/ Disconnected(p, d) PROVE DeliveryInv'
       BY <1>1, <1>11, StillSteps
<1> QED BY <1>2, <1>3, <1>4, <1>5, <1>6, <1>7, <1>8, <1>9, <1>10, <1>11 DEF Next, NicStep

LEMMA InitDelivery == Init => DeliveryInv
<1> SUFFICES ASSUME Init PROVE DeliveryInv
    OBVIOUS
<1>1. /\ \A p, d \in Proc : sq[p][d] = <<>> /\ done[p][d] = <<>>
      /\ \A p \in Proc : cq[p] = <<>> /\ aq[p] = <<>> /\ send_req_q[p] = <<>> /\ poller[p].pc = "poll"
      BY DEF Init, Polling
<1>2. /\ \A s \in Send : flag[s] = 0 /\ snd[s] = None /\ sbuf[s] = "orig"
      /\ \A r \in Recv : flag[r] = 0 /\ rbuf[r] = "none"
      BY DEF Init
<1>3. Range(<<>>) = {} /\ IsInjective(<<>>)
      BY DEF Range, IsInjective
<1> HIDE DEF Range, IsInjective
<1>4. DataInv
      BY <1>1, <1>2, <1>3 DEF DataInv, PollerData
<1>5. SentOnce
      BY <1>1, <1>3 DEF SentOnce, Reported
<1>6. \A p \in Proc : RequestsOK(p)
      BY <1>1, <1>3 DEF RequestsOK
<1>7. SerialInv
  <2>1. \A p \in Proc, s \in Send : ~ Outstanding(p, s)
        BY <1>2 DEF Outstanding
  <2> HIDE DEF Outstanding, RequestsOK, Underway, WasRead
  <2> QED BY <1>2, <1>6, <2>1 DEF SerialInv
<1>8. ReceivedDataIntact
      BY <1>2 DEF ReceivedDataIntact
<1> QED BY <1>4, <1>5, <1>7, <1>8 DEF DeliveryInv

LEMMA DeliveryInvHolds ==
    ASSUME SerialSends PROVE Spec => []DeliveryInv
<1>1. TypeInv /\ NoLostMatch /\ OrderInv /\ [Next]_vars => OrderInv'
      BY NextSendOrder, NextRecvOrder DEF OrderInv
<1>2. TypeInv /\ TokenInv /\ OrderInv /\ DeliveryInv /\ [Next]_vars => DeliveryInv'
      BY NextDelivery DEF OrderInv
<1>3. Spec => [](TypeInv /\ TokenInv /\ CountInv)
      BY CountInvHolds
<1> QED BY <1>1, <1>2, <1>3, InitOrder, InitDelivery, NoMatchIsLost, PTL DEF Spec

\* A completed receive holds what the sender had in its buffer when it called isend, for any
\* number of processes, calls and lost connections, as long as a process has one send
\* outstanding: the flag of a send (fdmi_on_send_cq_wc_send, fdmi_on_send_cq_wc_recv) is not
\* set before the hardware has executed the SEND of an eager message or the READ of a large
\* one, so the application does not write into the buffer too early.
THEOREM DataArrivesIntact ==
    ASSUME SerialSends PROVE Spec => []ReceivedDataIntact
<1>1. DeliveryInv => ReceivedDataIntact
      BY DEF DeliveryInv
<1> QED BY <1>1, DeliveryInvHolds, PTL

\* A rendezvous send is complete only after its receiver has read the buffer, as long as a
\* process has one send outstanding: then the request at the head of send_req_q, which
\* fdmi_on_send_cq_wc_recv completes, is that of the send the FIN answers.
THEOREM FinMeansRead ==
    ASSUME SerialSends PROVE Spec => []SendDoneMeansRead
<1>1. DeliveryInv => SendDoneMeansRead
      BY DEF DeliveryInv, SerialInv, SendDoneMeansRead, Rendezvous, WasRead
<1> QED BY <1>1, DeliveryInvHolds, PTL

-----------------------------------------------------------------------------
(* One send outstanding: the promises of MessageTransfer *)

\* A send has a message once it is called, is in the log once it is posted, and is in aq
\* only until a receive takes it.
CalledInv == \A s \in Send : isend_pc[s] = "idle" => snd[s] = None
PostedInv == \A s \in Send : isend_pc[s] = "posted" => s \in Logged(snd[s].src, snd[s].dst)
FreeInv   == \A d \in Proc : \A s \in Queued(d) : ~ Taken(s)

PromiseInv == CalledInv /\ PostedInv /\ FreeInv

\* The variables of MessageTransfer.
Submitted == [pd \in Proc \X Proc |-> slog[pd[1]][pd[2]]]
Filled    == {r \in Recv : rbuf[r] # "none"}
Complete  == {x \in Send \cup Recv : flag[x] = 1}

LEMMA IsendMaps ==
    ASSUME NEW s \in Send, snd[s] = None, snd' = [snd EXCEPT ![s] = snd'[s]],
           UNCHANGED <<rcv, Submitted, got, Filled, Complete>>
    PROVE  Transfer!Step
<1>1. Transfer!Isend(s, snd'[s])
      BY DEF Transfer!Isend, Submitted, Filled, Complete
<1> QED BY <1>1 DEF Transfer!Step

\* What only isend changes.
LEMMA CallSteps ==
    ASSUME [Next]_vars
    PROVE  \/ UNCHANGED <<isend_pc, snd, slog>>
           \/ \E p \in Proc, s \in Send : IsendEnq(p, s)
           \/ \E s \in Send : IsendPost(s)
<1> DEFINE same == UNCHANGED <<isend_pc, snd, slog>>
<1>1. ASSUME UNCHANGED vars PROVE same
      BY <1>1 DEF vars, app, hist
<1>2. ASSUME NEW s \in Send, ReuseSendBuffer(s) PROVE same
      BY <1>2 DEF ReuseSendBuffer, app, hist
<1>3. ASSUME NEW p \in Proc, NEW r \in Recv, Irecv(p, r) PROVE same
      BY <1>3 DEF Irecv
<1>4. ASSUME NEW p \in Proc, NEW d \in Proc,
             NicStep(p, d) \/ NicComplete(p, d) \/ Break(p, d) \/ Disconnected(p, d)
      PROVE  same
      BY <1>4 DEF NicStep, NicSend, NicRead, NicComplete, Break, Disconnected, app, hist
<1>5. ASSUME NEW p \in Proc, PollerStep(p) PROVE same
      BY <1>5 DEF PollerStep, PollInit, Deliver, PollRead, SendFin, PollFinSent, PollSent, RemoveSendReq,
                  PollFin, app, hist
<1> HIDE DEF same
<1>6. CASE Next
      BY <1>2, <1>3, <1>4, <1>5, <1>6 DEF Next, same
<1> QED BY <1>1, <1>6 DEF same

LEMMA NextCalled ==
    ASSUME TypeInv, CalledInv, PostedInv, [Next]_vars
    PROVE  CalledInv' /\ PostedInv'
<1>1. CASE UNCHANGED <<isend_pc, snd, slog>>
      BY <1>1 DEF CalledInv, PostedInv, Logged
<1>2. ASSUME NEW p \in Proc, NEW v \in Send, IsendEnq(p, v) PROVE CalledInv' /\ PostedInv'
  <2>1. /\ \A s \in Send : isend_pc'[s] = IF s = v THEN "enqueued" ELSE isend_pc[s]
        /\ \A s \in Send : s # v => snd'[s] = snd[s]
        BY <1>2 DEF IsendEnq, TypeInv, TypeOK
  <2>2. slog' = slog
        BY <1>2 DEF IsendEnq, hist
  <2>3. \A s \in Send : s # v => (Logged(snd[s].src, snd[s].dst))' = Logged(snd[s].src, snd[s].dst)
        BY <2>1, <2>2 DEF Logged
  <2> HIDE DEF Logged
  <2> QED BY <2>1, <2>3 DEF CalledInv, PostedInv
<1>3. ASSUME NEW v \in Send, IsendPost(v) PROVE CalledInv' /\ PostedInv'
  <2>1. /\ isend_pc[v] = "enqueued" /\ isend_pc' = [isend_pc EXCEPT ![v] = "posted"] /\ snd' = snd
        /\ slog' = [slog EXCEPT ![snd[v].src][snd[v].dst] = Append(@, v)]
        BY <1>3 DEF IsendPost
  <2>2. \A s \in Send : isend_pc'[s] = IF s = v THEN "posted" ELSE isend_pc[s]
        BY <2>1 DEF TypeInv, TypeOK
  <2>3. PICK a \in Proc, b \in Proc : a = snd[v].src /\ b = snd[v].dst
    <3>1. snd[v] \in Message
          BY <2>1 DEF TypeInv, Known, SendsKnown, Started
    <3> QED BY <3>1 DEF Message
  <2>4. /\ slog[a][b] \in Seq(Send)
        /\ \A c, d \in Proc : slog'[c][d] = IF c = a /\ d = b THEN Append(slog[a][b], v) ELSE slog[c][d]
    <3>1. slog \in [Proc -> [Proc -> Seq(Send)]]
          BY DEF TypeInv, TypeOK
    <3>2. slog' = [slog EXCEPT ![a][b] = Append(@, v)]
          BY <2>1, <2>3
    <3> QED BY ONLY <3>1, <3>2
  <2>5. Range(Append(slog[a][b], v)) = Range(slog[a][b]) \cup {v}
        BY <2>4, PutLast
  <2>6. v \in Range(slog'[a][b]) /\ \A c, d \in Proc : Range(slog[c][d]) \subseteq Range(slog'[c][d])
    <3> HIDE DEF Range
    <3> QED BY <2>4, <2>5
  <2>7. CalledInv'
        BY <2>1, <2>2 DEF CalledInv
  <2>8. ASSUME NEW s \in Send, isend_pc'[s] = "posted" PROVE s \in Range(slog'[snd[s].src][snd[s].dst])
    <3>1. CASE s = v
          BY <2>3, <2>6, <3>1
    <3>2. CASE s # v
      <4>1. isend_pc[s] = "posted"
            BY <2>2, <2>8, <3>2
      <4>2. snd[s].src \in Proc /\ snd[s].dst \in Proc
        <5>1. snd[s] \in Message
              BY <4>1 DEF TypeInv, Known, SendsKnown, Started
        <5> QED BY <5>1 DEF Message
      <4>3. s \in Range(slog[snd[s].src][snd[s].dst])
            BY <4>1 DEF PostedInv, Logged
      <4> HIDE DEF Range
      <4> QED BY <2>6, <4>2, <4>3
    <3> QED BY <3>1, <3>2
  <2> QED BY <2>1, <2>7, <2>8 DEF PostedInv, Logged
<1> QED BY <1>1, <1>2, <1>3, CallSteps

\* A message that the poller is about to handle has not come yet.
LEMMA WaitingFree ==
    ASSUME TypeInv, WayInv, NEW p \in Proc, NEW u \in Waiting(p)
    PROVE  /\ ~ Taken(u) /\ \A d \in Proc : u \notin Queued(d)
           /\ \E z \in Proc : u \in Logged(z, p)
<1>1. TypeOK /\ LogInv /\ RouteInv /\ AheadInv
      BY DEF TypeInv, WayInv
<1>2. PICK z \in Proc : u \in Logged(z, p)
      BY <1>1 DEF RouteInv
<1>3. u \in Send
      BY DEF Waiting, Has
<1>4. u \notin Came(p)
  <2>1. ASSUME u \in Came(p) PROVE FALSE
    <3>1. Ahead(z, p, u, u)
          BY <2>1 DEF Ahead
    <3>2. Before(slog[z][p], u, u)
          BY <1>1, <1>2, <3>1 DEF AheadInv
    <3> QED BY <1>1, <3>2, LogFacts
  <2> QED BY <2>1
<1>5. ~ Taken(u) /\ u \notin Queued(p)
      BY <1>3, <1>4 DEF Came
<1>6. ASSUME NEW d \in Proc, u \in Queued(d) PROVE d = p
  <2>1. PICK y \in Proc : u \in Logged(y, d)
        BY <1>1, <1>6 DEF RouteInv
  <2> HIDE DEF Logged
  <2> QED BY <1>1, <1>2, <2>1 DEF LogInv
<1> HIDE DEF Queued, Taken, Logged
<1> QED BY <1>2, <1>5, <1>6

\* The steps that take a message or put it into aq.
LEMMA ComeSteps ==
    ASSUME [Next]_vars
    PROVE  \/ UNCHANGED <<aq, got>>
           \/ \E p \in Proc, r \in Recv : Irecv(p, r)
           \/ \E p \in Proc : PollInit(p)
<1> DEFINE same == UNCHANGED <<aq, got>>
<1>1. ASSUME UNCHANGED vars PROVE same
      BY <1>1 DEF vars, hist
<1>2. ASSUME NEW s \in Send, IsendPost(s) \/ ReuseSendBuffer(s) PROVE same
      BY <1>2 DEF IsendPost, ReuseSendBuffer, hist
<1>3. ASSUME NEW p \in Proc, NEW s \in Send, IsendEnq(p, s) PROVE same
      BY <1>3 DEF IsendEnq, hist
<1>4. ASSUME NEW p \in Proc, NEW d \in Proc,
             NicStep(p, d) \/ NicComplete(p, d) \/ Break(p, d) \/ Disconnected(p, d)
      PROVE  same
      BY <1>4 DEF NicStep, NicSend, NicRead, NicComplete, Break, Disconnected, hist
<1>5. ASSUME NEW p \in Proc, PollerStep(p) PROVE same \/ PollInit(p)
      BY <1>5 DEF PollerStep, Deliver, PollRead, SendFin, PollFinSent, PollSent, RemoveSendReq, PollFin, hist
<1> HIDE DEF same
<1>6. CASE Next
      BY <1>2, <1>3, <1>4, <1>5, <1>6 DEF Next, same
<1> QED BY <1>1, <1>6 DEF same

LEMMA NextFree ==
    ASSUME TypeInv, WayInv, RecvOrderInv, TokenInv, FreeInv, [Next]_vars
    PROVE  FreeInv'
<1>1. TypeOK /\ LiveInv
      BY DEF TypeInv, WayInv
<1>2. CASE UNCHANGED <<aq, got>>
  <2>1. \A d \in Proc : Queued(d)' = Queued(d)
        BY <1>2 DEF Queued, Arrived, Data, Has
  <2>2. \A s : Taken(s)' <=> Taken(s)
        BY <1>2 DEF Taken
  <2> HIDE DEF Queued, Taken
  <2> QED BY <2>1, <2>2 DEF FreeInv
<1>3. ASSUME NEW p \in Proc, PollInit(p) PROVE FreeInv'
  <2>1. PICK x \in InitWc : \E u \in Send :
           /\ cq[p] # <<>> /\ x = Head(cq[p]) /\ u = x.send /\ Started(u)
           /\ \/ \E i \in DOMAIN pq[p] :
                    /\ FirstInPq(p, u, i) /\ aq' = aq
                    /\ got' = [got EXCEPT ![pq[p][i]] = u]
                    /\ pq' = [pq EXCEPT ![p] = RemoveAt(@, i)]
              \/ /\ UNCHANGED <<got, pq>>
                 /\ \E e \in Arrived : e.send = u /\ aq' = [aq EXCEPT ![p] = Append(@, e)]
        BY <1>3, PollInitCases
  <2>2. PICK u \in Send :
           /\ x = Head(cq[p]) /\ u = x.send
           /\ \/ \E i \in DOMAIN pq[p] : aq' = aq /\ got' = [got EXCEPT ![pq[p][i]] = u]
              \/ /\ got' = got
                 /\ \E e \in Arrived : e.send = u /\ aq' = [aq EXCEPT ![p] = Append(@, e)]
        BY <2>1
  <2>3. u \in Waiting(p)
        BY <1>1, <1>3, <2>2, PollInitTakes
  <2>4. ~ Taken(u) /\ \A d \in Proc : u \notin Queued(d)
        BY <2>3, WaitingFree
  <2>5. \A d \in Proc : Queued(d) \subseteq Send
        BY DEF Queued, Has
  <2>6. ASSUME NEW i \in DOMAIN pq[p], aq' = aq, got' = [got EXCEPT ![pq[p][i]] = u] PROVE FreeInv'
    <3>1. pq[p][i] \in Recv /\ got[pq[p][i]] = None
          BY EntryType DEF TypeInv, RecvOrderInv, Range
    <3>2. PICK r \in Recv : r = pq[p][i] /\ got[r] = None
          BY <3>1
    <3>3. \A s \in Send : Taken(s)' <=> Taken(s) \/ s = u
          BY <1>1, <2>6, <3>2, TakenGrows
    <3>4. \A d \in Proc : Queued(d)' = Queued(d)
          BY <2>6 DEF Queued, Arrived, Data, Has
    <3> HIDE DEF Queued, Taken
    <3> QED BY <2>4, <2>5, <3>3, <3>4 DEF FreeInv
  <2>7. ASSUME NEW e \in Arrived, e.send = u, aq' = [aq EXCEPT ![p] = Append(@, e)], got' = got PROVE FreeInv'
    <3>1. \A d \in Proc : Queued(d)' \subseteq Queued(d) \cup {u}
          BY <1>1, <2>7, AqGrows, ZenonT(120)
    <3>2. \A s : Taken(s)' <=> Taken(s)
          BY <2>7 DEF Taken
    <3> HIDE DEF Queued, Taken
    <3> QED BY <2>4, <3>1, <3>2 DEF FreeInv
  <2> QED BY <2>2, <2>6, <2>7
<1>4. ASSUME NEW p \in Proc, NEW r \in Recv, Irecv(p, r) PROVE FreeInv'
  <2>1. rcv[r] = None /\ \/ \E i \in DOMAIN aq[p] : /\ aq' = [aq EXCEPT ![p] = RemoveAt(@, i)]
                                                    /\ got' = [got EXCEPT ![r] = aq[p][i].send]
                         \/ UNCHANGED <<aq, got>>
        BY <1>4 DEF Irecv, IrecvArrived, IrecvWaits
  <2>2. got[r] = None
        BY <2>1 DEF RecvOrderInv
  <2>3. ASSUME NEW i \in DOMAIN aq[p], aq' = [aq EXCEPT ![p] = RemoveAt(@, i)],
               got' = [got EXCEPT ![r] = aq[p][i].send]
        PROVE  FreeInv'
    <3>1. aq[p][i] \in Arrived
          BY <1>1, EntryType
    <3>2. PICK e \in Arrived : e = aq[p][i] /\ e.send \in Send
          BY <3>1 DEF Arrived
    <3>3. PICK u \in Send : u = e.send
          BY <3>2
    <3>4. \A s \in Send : Taken(s)' <=> Taken(s) \/ s = u
      <4>1. got' = [got EXCEPT ![r] = u]
            BY <2>3, <3>2, <3>3
      <4> QED BY <1>1, <2>2, <4>1, TakenGrows
    <3>5. u \in Queued(p) /\ u \notin Has(aq'[p], Arrived) /\ RowLess(aq, aq', Arrived)
      <4>1. PICK f, g, S : f = aq /\ g = aq' /\ S = Arrived
            OBVIOUS
      <4>2. /\ f \in [Proc -> Seq(S)] /\ g = [f EXCEPT ![p] = RemoveAt(@, i)] /\ i \in DOMAIN f[p]
            /\ e = f[p][i] /\ e \in S /\ e.send \in Send /\ \A a \in Proc : Once(f[a], S)
            BY <2>3, <3>2, <4>1 DEF TypeInv, TypeOK, TokenInv, OnceEach
      <4>3. RowPops(f, g, S, S, p, e)
            BY <4>2, RowDrops
      <4> QED BY <3>3, <4>1, <4>2, <4>3 DEF RowPops, Queued
    <3>6. \A d \in Proc : Queued(d)' = Has(aq'[d], Arrived) /\ Has(aq'[d], Arrived) \subseteq Queued(d)
          BY <3>5 DEF Queued, RowLess, Arrived, Data
    <3>7. \A d \in Proc : u \in Queued(d) => d = p
      <4>1. \A d \in Proc : u \in Queued(d) => At("aq", d, d, u)
            BY DEF At, Queued
      <4>2. "aq" \in Place
            BY DEF Place
      <4> HIDE DEF At, Queued
      <4> QED BY <3>5, <4>1, <4>2 DEF TokenInv, OnePlace
    <3>8. \A d \in Proc : Queued(d) \subseteq Send
          BY DEF Queued, Has
    <3> HIDE DEF Queued, Taken, Has
    <3>9. ASSUME NEW d \in Proc, NEW s \in Queued(d)' PROVE ~ Taken(s)'
      <4>1. s \in Queued(d) /\ s \in Send /\ ~ Taken(s)
            BY <3>6, <3>8 DEF FreeInv
      <4>2. s # u
            BY <3>5, <3>6, <3>7, <4>1
      <4> QED BY <3>4, <4>1, <4>2
    <3> QED BY <3>9 DEF FreeInv
  <2> QED BY <1>2, <2>1, <2>3
<1> QED BY <1>2, <1>3, <1>4, ComeSteps

\* A receive takes the first message of the sender that it accepts.
LEMMA TakesFirst ==
    ASSUME TypeInv, LogInv, SendsNotOvertaken', UNCHANGED <<snd, slog>>,
           NEW r \in Recv, got[r] = None, NEW s \in Send, got' = [got EXCEPT ![r] = s], ~ Taken(s),
           NEW p \in Proc, NEW d \in Proc, s \in Logged(p, d), NEW q, rcv'[r] = q, IsMatched(snd[s], q)
    PROVE  Transfer!First(s, q)
<1>1. TypeOK
      BY DEF TypeInv
<1>2. isend_pc[s] = "posted" /\ snd[s].src = p /\ snd[s].dst = d
      BY DEF LogInv
<1>3. snd[s] # None
      BY <1>2, NoneAssumption DEF TypeInv, Known, SendsKnown, Started
<1>4. \A t \in Send : Taken(t)' <=> Taken(t) \/ t = s
      BY <1>1, TakenGrows
<1>5. got'[r] = s /\ s # None
      BY <1>1, ProtocolAssumption DEF TypeOK
<1>6. ASSUME NEW t \in Send, Before(slog[p][d], t, s), IsMatched(snd[t], q) PROVE Taken(t)
  <2>1. Taken(t)'
        BY <1>2, <1>5, <1>6 DEF SendsNotOvertaken, IsMatched, MatchField
  <2>2. t # s
        BY <1>1, <1>6, LogFacts
  <2> HIDE DEF Taken
  <2> QED BY <1>4, <2>1, <2>2
<1>7. slog[p][d] \in Seq(Send)
      BY <1>1 DEF TypeOK
<1>8. PICK w \in Seq(Send) : w = slog[p][d]
      BY <1>7
<1>9. DOMAIN w = 1 .. Len(w) /\ Len(w) \in Nat /\ \A k \in DOMAIN w : w[k] \in Send
      BY <1>8, LenProperties, ElementOfSeq
<1>10. PICK k \in DOMAIN w : w[k] = s
       BY <1>8 DEF Logged, Range
<1>11. ASSUME NEW j \in 1 .. k - 1, IsMatched(snd[w[j]], q) PROVE \E c \in Recv : got[c] = w[j]
  <2>1. j \in DOMAIN w /\ j < k /\ w[j] \in Send
        BY <1>9, <1>10
  <2>2. Before(w, w[j], s)
        BY <1>10, <2>1 DEF Before
  <2> QED BY <1>6, <1>8, <1>11, <2>1, <2>2 DEF Taken
<1>12. PICK pd \in Proc \X Proc : pd = <<p, d>>
       OBVIOUS
<1>13. Submitted[pd] = w
       BY <1>8, <1>12 DEF Submitted
<1>14. \A c \in Recv : got[c] # s
       BY DEF Taken
<1> HIDE DEF IsMatched
<1>15. \E z \in Proc \X Proc : \E n \in DOMAIN Submitted[z] :
          /\ Submitted[z][n] = s
          /\ \A j \in 1 .. n - 1 :
                (\A c \in Recv : got[c] # Submitted[z][j]) => ~ IsMatched(snd[Submitted[z][j]], q)
       BY <1>10, <1>11, <1>13
<1> QED BY <1>3, <1>14, <1>15 DEF Transfer!First, Transfer!Free, Submitted

\* Nothing that MessageTransfer knows of changes.
LEMMA StutterMaps ==
    ASSUME UNCHANGED <<snd, rcv, slog, got, rbuf, flag>>
    PROVE  UNCHANGED Transfer!transfer
<1>1. UNCHANGED <<snd, rcv, Submitted, got, Filled, Complete>>
      BY DEF Submitted, Filled, Complete
<1> QED BY <1>1 DEF Transfer!transfer, Submitted, Filled, Complete

LEMMA SubmitMaps ==
    ASSUME TypeInv, LogInv, NEW v \in Send, IsendPost(v), \A x \in Send \cup Recv : flag'[x] = flag[x]
    PROVE  Transfer!Step
<1>1. /\ isend_pc[v] = "enqueued" /\ UNCHANGED <<snd, rcv, got, rbuf>>
      /\ slog' = [slog EXCEPT ![snd[v].src][snd[v].dst] = Append(@, v)]
      BY DEF IsendPost, bufs
<1>2. snd[v] \in Message /\ snd[v] # None
      BY <1>1, NoneAssumption DEF TypeInv, Known, SendsKnown, Started
<1>3. PICK a \in Proc, b \in Proc : a = snd[v].src /\ b = snd[v].dst
      BY <1>2 DEF Message
<1>4. slog' = [slog EXCEPT ![a][b] = Append(@, v)] /\ slog \in [Proc -> [Proc -> Seq(Send)]]
      BY <1>1, <1>3 DEF TypeInv, TypeOK
<1>5. \A k \in DOMAIN slog[a][b] : slog[a][b][k] # v
  <2>1. v \notin Logged(a, b)
        BY <1>1 DEF LogInv
  <2> QED BY <2>1 DEF Logged, Range
<1>6. PICK pd \in Proc \X Proc : pd = <<a, b>>
      OBVIOUS
<1>7. /\ pd[1] = a /\ pd[2] = b
      /\ Submitted[pd] = slog[a][b] /\ DOMAIN Submitted = Proc \X Proc
      BY <1>6 DEF Submitted
<1>8. Submitted' = [Submitted EXCEPT ![pd] = Append(@, v)]
  <2>1. \A c, d \in Proc : slog'[c][d] = IF c = a /\ d = b THEN Append(slog[a][b], v) ELSE slog[c][d]
        BY ONLY <1>4
  <2>2. Submitted' = [z \in Proc \X Proc |-> slog'[z[1]][z[2]]]
        BY DEF Submitted
  <2>3. ASSUME NEW z \in Proc \X Proc
        PROVE  slog'[z[1]][z[2]] = IF z = pd THEN Append(Submitted[pd], v) ELSE Submitted[z]
    <3>1. z[1] \in Proc /\ z[2] \in Proc /\ z = <<z[1], z[2]>> /\ Submitted[z] = slog[z[1]][z[2]]
          BY DEF Submitted
    <3>2. CASE z = pd
          BY <1>7, <2>1, <3>1, <3>2
    <3>3. CASE z # pd
      <4>1. ~ (z[1] = a /\ z[2] = b)
            BY <1>6, <3>1, <3>3
      <4> QED BY <2>1, <3>1, <3>3, <4>1
    <3> QED BY <3>2, <3>3
  <2>4. [Submitted EXCEPT ![pd] = Append(@, v)] =
           [z \in Proc \X Proc |-> IF z = pd THEN Append(Submitted[pd], v) ELSE Submitted[z]]
        BY <1>7
  <2> QED BY <2>2, <2>3, <2>4
<1>9. UNCHANGED <<Filled, Complete>>
      BY <1>1 DEF Filled, Complete
<1>10. Transfer!Submit(v, pd)
       BY <1>1, <1>2, <1>5, <1>7, <1>8, <1>9 DEF Transfer!Submit, Submitted, Filled, Complete
<1> QED BY <1>10 DEF Transfer!Step

\* The buffer of receive r is written, or the request of call x is completed.
LEMMA FilledGrows ==
    ASSUME TypeInv, NEW r \in Recv, rbuf' = [rbuf EXCEPT ![r] = "orig"]
    PROVE  Filled' = Filled \cup {r}
<1>1. \A c \in Recv : rbuf'[c] = IF c = r THEN "orig" ELSE rbuf[c]
      BY DEF TypeInv, TypeOK
<1> QED BY <1>1 DEF Filled

LEMMA CompleteGrows ==
    ASSUME TypeInv, NEW x \in Send \cup Recv, \A y \in Send \cup Recv : flag'[y] = IF y = x THEN 1 ELSE flag[y]
    PROVE  Complete' = Complete \cup {x}
BY DEF Complete

\* A message is copied.
LEMMA CopyMaps ==
    ASSUME TypeInv, NEW r \in Recv, got[r] # None, UNCHANGED <<snd, rcv, slog, got>>,
           Filled' = Filled \cup {r},
           IF Rendezvous(got[r]) THEN Complete' = Complete ELSE Complete' = Complete \cup {r}
    PROVE  Transfer!Step \/ UNCHANGED Transfer!transfer
<1>1. Submitted' = Submitted
      BY DEF Submitted
<1>2. IsLarge(snd[got[r]]) <=> Rendezvous(got[r])
      BY DEF IsLarge, Rendezvous
<1> HIDE DEF Rendezvous, IsLarge
<1>3. CASE r \notin Filled
  <2>1. Complete' = IF IsLarge(snd[got[r]]) THEN Complete ELSE Complete \cup {r}
        BY <1>2
  <2>2. Transfer!Copy(r)
        BY <1>1, <1>3, <2>1 DEF Transfer!Copy, Submitted, Filled, Complete
  <2> QED BY <2>2 DEF Transfer!Step
<1>4. CASE r \in Filled \ Complete /\ ~ Rendezvous(got[r])
  <2>1. Filled' = Filled /\ Complete' = Complete \cup {r}
        BY <1>4
  <2>2. Transfer!RecvDone(r)
        BY <1>1, <1>4, <2>1 DEF Transfer!RecvDone, Submitted, Filled, Complete
  <2> QED BY <2>2 DEF Transfer!Step
<1>5. CASE r \in Filled /\ (r \in Complete \/ Rendezvous(got[r]))
  <2>1. Filled' = Filled /\ Complete' = Complete
        BY <1>5
  <2> QED BY <1>1, <2>1 DEF Transfer!transfer, Submitted, Filled, Complete
<1> QED BY <1>3, <1>4, <1>5

\* A receive completes.
LEMMA RecvDoneMaps ==
    ASSUME TypeInv, NEW r \in Filled, UNCHANGED <<snd, rcv, slog, got, rbuf>>, Complete' = Complete \cup {r}
    PROVE  Transfer!Step \/ UNCHANGED Transfer!transfer
<1>1. UNCHANGED <<Submitted, Filled>>
      BY DEF Submitted, Filled
<1>2. CASE r \in Complete
  <2>1. Complete' = Complete
        BY <1>2
  <2> QED BY <1>1, <2>1 DEF Transfer!transfer, Submitted, Filled, Complete
<1>3. CASE r \notin Complete
  <2>1. Transfer!RecvDone(r)
        BY <1>1, <1>3 DEF Transfer!RecvDone, Submitted, Filled, Complete
  <2>2. r \in Recv
        BY DEF Filled
  <2> QED BY <2>1, <2>2 DEF Transfer!Step
<1> QED BY <1>2, <1>3

\* A send completes.
LEMMA SendDoneMaps ==
    ASSUME TypeInv, PostedInv, NEW s \in Send, isend_pc[s] = "posted", Rendezvous(s) => WasRead(s),
           UNCHANGED <<snd, rcv, slog, got, rbuf>>, Complete' = Complete \cup {s}
    PROVE  Transfer!Step \/ UNCHANGED Transfer!transfer
<1>1. UNCHANGED <<Submitted, Filled>>
      BY DEF Submitted, Filled
<1>2. CASE s \in Complete
  <2>1. Complete' = Complete
        BY <1>2
  <2> QED BY <1>1, <2>1 DEF Transfer!transfer, Submitted, Filled, Complete
<1>3. CASE s \notin Complete
  <2>1. PICK a \in Proc, b \in Proc : a = snd[s].src /\ b = snd[s].dst
    <3>1. snd[s] \in Message
          BY DEF TypeInv, Known, SendsKnown, Started
    <3> QED BY <3>1 DEF Message
  <2>2. PICK k \in DOMAIN slog[a][b] : slog[a][b][k] = s
        BY <2>1 DEF PostedInv, Logged, Range
  <2>3. PICK pd \in Proc \X Proc : pd = <<a, b>>
        OBVIOUS
  <2>4. Submitted[pd] = slog[a][b]
        BY <2>3 DEF Submitted
  <2>5. \E z \in Proc \X Proc : \E n \in DOMAIN Submitted[z] : Submitted[z][n] = s
        BY <2>2, <2>4
  <2>6. IsLarge(snd[s]) => \E r \in Filled : got[r] = s
        BY DEF IsLarge, Rendezvous, WasRead, Filled
  <2>7. Transfer!SendDone(s)
        BY <1>1, <1>3, <2>5, <2>6 DEF Transfer!SendDone, Submitted, Filled, Complete
  <2> QED BY <2>7 DEF Transfer!Step
<1> QED BY <1>2, <1>3

\* A request of a send that is complete after the step may be completed by it.
LEMMA RequestMaps ==
    ASSUME TypeInv, PostedInv, SerialInv', NEW s \in Send, UNCHANGED <<isend_pc, snd, rcv, slog, got, rbuf>>,
           \A y \in Send \cup Recv : flag'[y] = IF y = s THEN 1 ELSE flag[y]
    PROVE  Transfer!Step \/ UNCHANGED Transfer!transfer
<1>1. isend_pc'[s] = "posted" /\ (Rendezvous(s)' => WasRead(s)')
      BY DEF SerialInv
<1>2. isend_pc[s] = "posted" /\ (Rendezvous(s) => WasRead(s))
      BY <1>1 DEF Rendezvous, WasRead
<1>3. Complete' = Complete \cup {s}
      BY CompleteGrows
<1> HIDE DEF Rendezvous, WasRead
<1> QED BY <1>2, <1>3, SendDoneMaps

LEMMA PollFinMaps ==
    ASSUME TypeInv, PostedInv, SerialInv', NEW p \in Proc, PollFin(p)
    PROVE  Transfer!Step \/ UNCHANGED Transfer!transfer
<1>1. UNCHANGED <<isend_pc, snd, rcv, slog, got, rbuf>>
      BY DEF PollFin, bufs, hist
<1>2. PICK q \in Seq(Send) : q = send_req_q[p]
      BY DEF TypeInv, TypeOK
<1>3. PICK n \in {0, 1} : flag' = [y \in DOMAIN flag |-> IF y \in ToSet(SubSeq(q, 1, n)) THEN 1 ELSE flag[y]]
      BY <1>2 DEF PollFin
<1>4. flag \in [Send \cup Recv -> {0, 1}]
      BY DEF TypeInv, TypeOK
<1>5. CASE q = <<>> \/ n = 0
  <2>1. SubSeq(q, 1, n) = <<>>
        BY <1>3, <1>5
  <2>2. ToSet(<<>>) = {}
        BY DEF ToSet
  <2>3. flag' = flag
        BY <1>3, <1>4, <2>1, <2>2
  <2> QED BY <1>1, <2>3, StutterMaps
<1>6. CASE q # <<>> /\ n = 1
  <2>1. Len(q) \in Nat \ {0} /\ DOMAIN q = 1 .. Len(q)
        BY <1>6, LenProperties, EmptySeq
  <2>2. PICK s \in Send : s = q[1]
        BY <2>1, ElementOfSeq
  <2>3. PICK w : w = SubSeq(q, 1, 1)
        OBVIOUS
  <2>4. DOMAIN w = 1 .. 1 /\ w[1] = s
        BY <2>1, <2>2, <2>3
  <2>5. ToSet(w) = {s}
        BY <2>4 DEF ToSet
  <2>6. \A y \in Send \cup Recv : flag'[y] = IF y = s THEN 1 ELSE flag[y]
        BY <1>3, <1>4, <1>6, <2>3, <2>5
  <2> QED BY <1>1, <2>6, RequestMaps
<1> QED BY <1>3, <1>5, <1>6

LEMMA PollSentMaps ==
    ASSUME TypeInv, PostedInv, SerialInv', NEW p \in Proc, PollSent(p)
    PROVE  Transfer!Step \/ UNCHANGED Transfer!transfer
<1>1. UNCHANGED <<isend_pc, snd, rcv, slog, got, rbuf>>
      BY DEF PollSent, bufs, hist
<1>2. PICK s : s = Head(cq[p]).send
      OBVIOUS
<1>3. flag' = flag \/ flag' = [flag EXCEPT ![s] = 1]
      BY <1>2 DEF PollSent
<1>4. s \in Send
  <2>1. Head(cq[p]) \in Wc
    <3>1. cq[p] # <<>> /\ cq[p] \in Seq(Wc)
          BY DEF PollSent, Polled, TypeInv, TypeOK
    <3> QED BY <3>1
  <2> QED BY <1>2, <2>1 DEF Wc
<1>5. CASE flag' = flag
      BY <1>1, <1>5, StutterMaps
<1>6. CASE flag' = [flag EXCEPT ![s] = 1]
  <2>1. \A y \in Send \cup Recv : flag'[y] = IF y = s THEN 1 ELSE flag[y]
        BY <1>6 DEF TypeInv, TypeOK
  <2> QED BY <1>1, <1>4, <2>1, RequestMaps
<1> QED BY <1>3, <1>5, <1>6

LEMMA PollReadMaps ==
    ASSUME TypeInv, TokenInv, DeliveryInv, NEW p \in Proc, PollRead(p)
    PROVE  Transfer!Step \/ UNCHANGED Transfer!transfer
<1>1. PICK x : x = Head(cq[p])
      OBVIOUS
<1>2. /\ cq[p] # <<>> /\ x.op = "READ" /\ cq' = [cq EXCEPT ![p] = Tail(@)]
      /\ flag' = [flag EXCEPT ![x.recv] = 1] /\ UNCHANGED <<snd, rcv, slog, got, rbuf>>
      BY <1>1 DEF PollRead, Polled, bufs, hist
<1>3. CqHead(p, x)
      BY <1>1, <1>2, CqTakes DEF TokenInv
<1>4. x \in Range(cq[p])
      BY <1>3 DEF CqHead
<1>5. x.recv \in Recv /\ rbuf[x.recv] # "none"
      BY <1>2, <1>4 DEF DeliveryInv, DataInv, CqData
<1>6. PICK r \in Filled : r = x.recv /\ r \in Recv
      BY <1>5 DEF Filled
<1>7. \A y \in Send \cup Recv : flag'[y] = IF y = r THEN 1 ELSE flag[y]
      BY <1>2, <1>6 DEF TypeInv, TypeOK
<1>8. Complete' = Complete \cup {r}
      BY <1>6, <1>7, CompleteGrows
<1> QED BY <1>2, <1>8, RecvDoneMaps

LEMMA NicReadMaps ==
    ASSUME TypeInv, TokenInv, DeliveryInv, NEW p \in Proc, NEW d \in Proc, NicRead(p, d)
    PROVE  Transfer!Step \/ UNCHANGED Transfer!transfer
<1>1. PICK x : x = Head(sq[p][d])
      OBVIOUS
<1>2. /\ sq[p][d] # <<>> /\ x.op = "READ" /\ sq' = [sq EXCEPT ![p][d] = Tail(@)]
      /\ rbuf' = [rbuf EXCEPT ![x.recv] = sbuf[x.send]] /\ UNCHANGED <<snd, rcv, slog, got, flag>>
      BY <1>1 DEF NicRead, app, hist
<1>3. x \in Wr /\ x \in Range(sq[p][d])
      BY <1>1, <1>2, SqTakes DEF TokenInv
<1>4. x.send \in Send /\ x.recv \in Recv /\ got[x.recv] = x.send /\ sbuf[x.send] = "orig"
      BY <1>2, <1>3, ReadIsIntact
<1>5. Rendezvous(x.send)
      BY <1>2, <1>3 DEF TokenInv, EntriesOK, SqOK
<1>6. PICK r \in Recv : r = x.recv /\ got[r] = x.send
      BY <1>4
<1>7. got[r] # None /\ Rendezvous(got[r])
      BY <1>4, <1>5, <1>6, ProtocolAssumption
<1>8. Filled' = Filled \cup {r}
      BY <1>2, <1>4, <1>6, FilledGrows
<1>9. Complete' = Complete
      BY <1>2 DEF Complete
<1> HIDE DEF Rendezvous
<1> QED BY <1>2, <1>7, <1>8, <1>9, CopyMaps

LEMMA DeliverMaps ==
    ASSUME TypeInv, TokenInv, DeliveryInv, NEW p \in Proc, Deliver(p)
    PROVE  Transfer!Step \/ UNCHANGED Transfer!transfer
<1>1. PICK s, r : s = poller[p].send /\ r = poller[p].recv
      OBVIOUS
<1>2. poller[p].pc = "matched" /\ UNCHANGED <<snd, rcv, slog, got>>
      BY DEF Deliver, hist
<1>3. s \in Send /\ r \in Recv
      BY <1>1, <1>2 DEF TypeInv, PollerOK
<1>4. got[r] = s /\ got[r] # None /\ (Rendezvous(s) \/ poller[p].data = "orig")
      BY <1>1, <1>2, <1>3, ProtocolAssumption DEF DeliveryInv, DataInv, PollerData
<1>5. \/ ~ Rendezvous(s) /\ rbuf' = [rbuf EXCEPT ![r] = "orig"] /\ flag' = [flag EXCEPT ![r] = 1]
      \/ UNCHANGED <<rbuf, flag>>
      BY <1>1, <1>4 DEF Deliver, Rendezvous
<1>6. CASE UNCHANGED <<rbuf, flag>>
      BY <1>2, <1>6, StutterMaps
<1>7. CASE ~ Rendezvous(s) /\ rbuf' = [rbuf EXCEPT ![r] = "orig"] /\ flag' = [flag EXCEPT ![r] = 1]
  <2>1. Filled' = Filled \cup {r}
        BY <1>3, <1>7, FilledGrows
  <2>2. \A y \in Send \cup Recv : flag'[y] = IF y = r THEN 1 ELSE flag[y]
        BY <1>3, <1>7 DEF TypeInv, TypeOK
  <2>3. Complete' = Complete \cup {r}
        BY <1>3, <2>2, CompleteGrows
  <2> HIDE DEF Rendezvous
  <2> QED BY <1>2, <1>3, <1>4, <1>7, <2>1, <2>3, CopyMaps
<1> QED BY <1>5, <1>6, <1>7

\* isend: no send has a message before it is called.
LEMMA IsendEnqMaps ==
    ASSUME TypeInv, CalledInv, NEW p \in Proc, NEW v \in Send, IsendEnq(p, v)
    PROVE  Transfer!Step
<1>1. isend_pc[v] = "idle" /\ UNCHANGED <<rcv, flag, rbuf, got, slog>>
      BY DEF IsendEnq, bufs, hist
<1>2. snd[v] = None
      BY <1>1 DEF CalledInv
<1>3. PICK m : snd' = [snd EXCEPT ![v] = m]
      BY DEF IsendEnq
<1>4. snd'[v] = m
      BY <1>3 DEF TypeInv, TypeOK
<1>5. UNCHANGED <<rcv, Submitted, got, Filled, Complete>>
      BY <1>1 DEF Submitted, Filled, Complete
<1> QED BY <1>2, <1>3, <1>4, <1>5, IsendMaps

LEMMA IsendPostMaps ==
    ASSUME TypeInv, LogInv, SerialInv, NEW v \in Send, IsendPost(v)
    PROVE  Transfer!Step
<1>1. isend_pc[v] = "enqueued" /\ flag' = [flag EXCEPT ![v] = 0]
      BY DEF IsendPost
<1>2. flag \in [Send \cup Recv -> {0, 1}]
      BY DEF TypeInv, TypeOK
<1>3. flag[v] = 0
  <2>1. flag[v] # 1
        BY <1>1 DEF SerialInv
  <2> QED BY <1>2, <2>1
<1>4. \A x \in Send \cup Recv : flag'[x] = flag[x]
      BY <1>1, <1>2, <1>3
<1> QED BY <1>4, SubmitMaps

\* The critical section of the completion-queue thread takes the message for the receive it
\* finds, or changes nothing that the callers see.
LEMMA PollInitMaps ==
    ASSUME TypeInv, WayInv, RecvOrderInv, SendsNotOvertaken', NEW p \in Proc, PollInit(p)
    PROVE  Transfer!Step \/ UNCHANGED Transfer!transfer
<1>1. UNCHANGED <<snd, rcv, flag, rbuf, slog>>
      BY DEF PollInit, app, bufs
<1>2. PICK x \in InitWc : \E u \in Send :
         /\ cq[p] # <<>> /\ x = Head(cq[p]) /\ u = x.send /\ Started(u)
         /\ \/ \E i \in DOMAIN pq[p] :
                  /\ FirstInPq(p, u, i) /\ aq' = aq
                  /\ got' = [got EXCEPT ![pq[p][i]] = u]
                  /\ pq' = [pq EXCEPT ![p] = RemoveAt(@, i)]
            \/ /\ UNCHANGED <<got, pq>>
               /\ \E e \in Arrived : e.send = u /\ aq' = [aq EXCEPT ![p] = Append(@, e)]
      BY PollInitCases
<1>3. PICK u \in Send :
         /\ x = Head(cq[p]) /\ u = x.send
         /\ \/ \E i \in DOMAIN pq[p] : FirstInPq(p, u, i) /\ got' = [got EXCEPT ![pq[p][i]] = u]
            \/ got' = got
      BY <1>2
<1>4. CASE got' = got
      BY <1>1, <1>4, StutterMaps
<1>5. ASSUME NEW i \in DOMAIN pq[p], FirstInPq(p, u, i), got' = [got EXCEPT ![pq[p][i]] = u]
      PROVE  Transfer!Step
  <2>1. pq[p][i] \in Recv /\ got[pq[p][i]] = None /\ rcv[pq[p][i]] \in Receive
        BY EntryType DEF TypeInv, Known, PqKnown, RecvOrderInv, Range
  <2>2. PICK r \in Recv : r = pq[p][i] /\ got[r] = None /\ rcv[r] \in Receive
        BY <2>1
  <2>3. got' = [got EXCEPT ![r] = u] /\ IsMatched(snd[u], rcv[r]) /\ rcv[r] # None
        BY <1>5, <2>2, NoneAssumption DEF FirstInPq
  <2>4. u \in Waiting(p)
        BY <1>3, PollInitTakes DEF WayInv
  <2>5. ~ Taken(u) /\ \E z \in Proc : u \in Logged(z, p)
        BY <2>4, WaitingFree
  <2>6. PICK z \in Proc : u \in Logged(z, p)
        BY <2>5
  <2>7. PICK q : q = rcv[r]
        OBVIOUS
  <2>8. Transfer!First(u, q)
    <3> HIDE DEF Taken, Logged, IsMatched
    <3> QED BY <1>1, <2>2, <2>3, <2>5, <2>6, <2>7, TakesFirst DEF WayInv
  <2>9. UNCHANGED <<snd, rcv, Submitted, Filled, Complete>>
        BY <1>1 DEF Submitted, Filled, Complete
  <2>10. Transfer!Take(r, u)
        BY <2>2, <2>3, <2>7, <2>8, <2>9 DEF Transfer!Take, Submitted, Filled, Complete
  <2> QED BY <2>10 DEF Transfer!Step
<1> QED BY <1>3, <1>4, <1>5

\* irecv takes the first message in aq that it accepts, or waits.
LEMMA IrecvMaps ==
    ASSUME TypeInv, WayInv, RecvOrderInv, DeliveryInv, FreeInv, SendsNotOvertaken',
           NEW p \in Proc, NEW r \in Recv, Irecv(p, r)
    PROVE  Transfer!Step
<1>1. rcv[r] = None /\ UNCHANGED <<snd, slog>>
      BY DEF Irecv
<1>2. PICK q : /\ rcv' = [rcv EXCEPT ![r] = q]
               /\ (\E i \in DOMAIN aq[p] : IrecvArrived(p, r, q, i)) \/ IrecvWaits(p, r, q)
      BY DEF Irecv
<1>3. rcv'[r] = q
      BY <1>2 DEF TypeInv, TypeOK
<1>4. got[r] = None
      BY <1>1 DEF RecvOrderInv
<1>5. flag \in [Send \cup Recv -> {0, 1}] /\ flag[r] = 0
  <2>1. flag[r] # 1
        BY <1>4 DEF DeliveryInv, ReceivedDataIntact
  <2> QED BY <2>1 DEF TypeInv, TypeOK
<1>6. UNCHANGED <<snd, Submitted>>
      BY <1>1 DEF Submitted
<1>7. ASSUME flag' = [flag EXCEPT ![r] = 0] PROVE flag' = flag
      BY <1>5, <1>7
<1>8. SUFFICES Transfer!Irecv(r, rcv'[r])
  <2> HIDE DEF Transfer!Irecv
  <2> QED BY <1>8 DEF Transfer!Step
<1>9. CASE IrecvWaits(p, r, q)
  <2>1. UNCHANGED <<got, rbuf, flag>>
        BY <1>7, <1>9 DEF IrecvWaits
  <2>2. UNCHANGED <<Filled, Complete>>
        BY <2>1 DEF Filled, Complete
  <2> QED BY <1>1, <1>2, <1>3, <1>6, <2>1, <2>2 DEF Transfer!Irecv, Submitted, Filled, Complete
<1>10. ASSUME NEW i \in DOMAIN aq[p], IrecvArrived(p, r, q, i) PROVE Transfer!Irecv(r, rcv'[r])
  <2>1. aq[p][i] \in Arrived
        BY EntryType DEF TypeInv
  <2>2. PICK e \in Arrived : e = aq[p][i] /\ e.send \in Send /\ e \in Range(aq[p])
        BY <2>1 DEF Arrived, Range
  <2>3. PICK s \in Send : s = e.send
        BY <2>2
  <2>4. Rendezvous(s) \/ e.data = "orig"
        BY <2>2, <2>3 DEF DeliveryInv, DataInv
  <2>5. /\ got' = [got EXCEPT ![r] = s] /\ IsMatched(snd[s], q)
        /\ \/ /\ ~ Rendezvous(s) /\ rbuf' = [rbuf EXCEPT ![r] = "orig"] /\ flag' = [flag EXCEPT ![r] = 1]
           \/ UNCHANGED <<rbuf, flag>>
        BY <1>7, <1>10, <2>2, <2>3, <2>4 DEF IrecvArrived, FirstInAq, Rendezvous
  <2>6. s \in Queued(p)
        BY <2>2, <2>3 DEF Queued, Has, Range
  <2>7. ~ Taken(s) /\ \E z \in Proc : s \in Logged(z, p)
        BY <2>6 DEF FreeInv, WayInv, RouteInv
  <2>8. PICK z \in Proc : s \in Logged(z, p)
        BY <2>7
  <2>9. Transfer!First(s, q)
    <3> HIDE DEF Taken, Logged, IsMatched
    <3> QED BY <1>1, <1>3, <1>4, <2>5, <2>7, <2>8, TakesFirst DEF WayInv
  <2>10. \/ UNCHANGED <<Filled, Complete>>
         \/ ~ IsLarge(snd[s]) /\ Filled' = Filled \cup {r} /\ Complete' = Complete \cup {r}
    <3>1. CASE UNCHANGED <<rbuf, flag>>
          BY <3>1 DEF Filled, Complete
    <3>2. CASE ~ Rendezvous(s) /\ rbuf' = [rbuf EXCEPT ![r] = "orig"] /\ flag' = [flag EXCEPT ![r] = 1]
      <4>1. Filled' = Filled \cup {r}
            BY <3>2, FilledGrows
      <4>2. \A y \in Send \cup Recv : flag'[y] = IF y = r THEN 1 ELSE flag[y]
            BY <1>5, <3>2
      <4>3. Complete' = Complete \cup {r}
            BY <4>2, CompleteGrows
      <4> QED BY <3>2, <4>1, <4>3 DEF IsLarge, Rendezvous
    <3> QED BY <2>5, <3>1, <3>2
  <2> HIDE DEF Transfer!First, IsLarge
  <2>11. Transfer!First(s, rcv'[r])
        BY <1>3, <2>9
  <2> QED BY <1>1, <1>2, <1>3, <1>6, <2>5, <2>10, <2>11 DEF Transfer!Irecv, Submitted, Filled, Complete
<1> QED BY <1>2, <1>9, <1>10

LEMMA NextMaps ==
    ASSUME TypeInv, TokenInv, OrderInv, OrderInv', DeliveryInv, DeliveryInv', PromiseInv, [Next]_vars
    PROVE  Transfer!Step \/ UNCHANGED Transfer!transfer
<1> DEFINE maps == Transfer!Step \/ UNCHANGED Transfer!transfer
<1>1. /\ WayInv /\ LogInv /\ RecvOrderInv /\ SendsNotOvertaken' /\ SerialInv /\ SerialInv'
      /\ CalledInv /\ PostedInv /\ FreeInv
      BY DEF OrderInv, SendOrderInv, WayInv, DeliveryInv, PromiseInv
<1>2. CASE UNCHANGED vars
  <2>1. UNCHANGED <<snd, rcv, slog, got, rbuf, flag>>
        BY <1>2 DEF vars, app, bufs, hist
  <2> QED BY <2>1, StutterMaps
<1>3. ASSUME NEW p \in Proc, NEW s \in Send, IsendEnq(p, s) PROVE maps
      BY <1>1, <1>3, IsendEnqMaps
<1>4. ASSUME NEW s \in Send, IsendPost(s) PROVE maps
      BY <1>1, <1>4, IsendPostMaps
<1>5. ASSUME NEW s \in Send, ReuseSendBuffer(s) PROVE maps
  <2>1. UNCHANGED <<snd, rcv, slog, got, rbuf, flag>>
        BY <1>5 DEF ReuseSendBuffer, app, hist
  <2> QED BY <2>1, StutterMaps
<1>6. ASSUME NEW p \in Proc, NEW r \in Recv, Irecv(p, r) PROVE maps
      BY <1>1, <1>6, IrecvMaps
<1>7. ASSUME NEW p \in Proc, PollerStep(p) PROVE maps
  <2>1. CASE PollInit(p)
        BY <1>1, <2>1, PollInitMaps
  <2>2. CASE Deliver(p)
        BY <2>2, DeliverMaps
  <2>3. CASE PollRead(p)
        BY <2>3, PollReadMaps
  <2>4. CASE SendFin(p) \/ PollFinSent(p) \/ RemoveSendReq(p)
    <3>1. UNCHANGED <<snd, rcv, slog, got, rbuf, flag>>
          BY <2>4 DEF SendFin, PollFinSent, RemoveSendReq, app, bufs, hist
    <3> QED BY <3>1, StutterMaps
  <2>5. CASE PollSent(p)
        BY <1>1, <2>5, PollSentMaps
  <2>6. CASE PollFin(p)
        BY <1>1, <2>6, PollFinMaps
  <2> QED BY <1>7, <2>1, <2>2, <2>3, <2>4, <2>5, <2>6 DEF PollerStep
<1>8. ASSUME NEW p \in Proc, NEW d \in Proc, NicRead(p, d) PROVE maps
      BY <1>8, NicReadMaps
<1>9. ASSUME NEW p \in Proc, NEW d \in Proc,
             NicSend(p, d) \/ NicComplete(p, d) \/ Break(p, d) \/ Disconnected(p, d)
      PROVE  maps
  <2>1. UNCHANGED <<snd, rcv, slog, got, rbuf, flag>>
        BY <1>9 DEF NicSend, NicComplete, Break, Disconnected, app, bufs, hist
  <2> QED BY <2>1, StutterMaps
<1> HIDE DEF maps
<1>10. ASSUME Next PROVE maps
       BY <1>3, <1>4, <1>5, <1>6, <1>7, <1>8, <1>9, <1>10 DEF Next, NicStep
<1> QED BY <1>2, <1>10 DEF maps

LEMMA NextPromise ==
    ASSUME TypeInv, TokenInv, OrderInv, PromiseInv, [Next]_vars
    PROVE  PromiseInv'
<1>1. WayInv /\ RecvOrderInv /\ CalledInv /\ PostedInv /\ FreeInv
      BY DEF OrderInv, SendOrderInv, PromiseInv
<1>2. CalledInv' /\ PostedInv'
      BY <1>1, NextCalled
<1>3. FreeInv'
      BY <1>1, NextFree
<1> QED BY <1>2, <1>3 DEF PromiseInv

LEMMA InitPromise == Init => PromiseInv /\ Transfer!Init
<1> SUFFICES ASSUME Init PROVE PromiseInv /\ Transfer!Init
    OBVIOUS
<1>1. CalledInv /\ PostedInv
      BY DEF Init, CalledInv, PostedInv
<1>2. FreeInv
      BY DEF Init, FreeInv, Queued, Has
<1>3. Filled = {} /\ Complete = {}
      BY DEF Init, Filled, Complete
<1>4. Submitted = [pd \in Proc \X Proc |-> <<>>]
  <2>1. \A pd \in Proc \X Proc : pd[1] \in Proc /\ pd[2] \in Proc
        OBVIOUS
  <2>2. \A a, b \in Proc : slog[a][b] = <<>>
        BY DEF Init
  <2> QED BY <2>1, <2>2 DEF Submitted
<1>5. snd = [s \in Send |-> None] /\ rcv = [r \in Recv |-> None] /\ got = [r \in Recv |-> None]
      BY DEF Init
<1>6. Transfer!Init
      BY <1>3, <1>4, <1>5 DEF Transfer!Init, Submitted, Filled, Complete
<1> QED BY <1>1, <1>2, <1>6 DEF PromiseInv

\* The protocol implements MessageTransfer, what isend, irecv and wait promise their callers,
\* as long as a process has one send outstanding: with any number of processes, calls and
\* lost connections, every step of an application thread, of a completion-queue thread and of
\* the hardware is one step of MessageTransfer or changes nothing that the callers see.
THEOREM ProtocolKeepsPromises ==
    ASSUME SerialSends PROVE Spec => KeepsPromises
<1>1. TypeInv /\ NoLostMatch /\ OrderInv /\ [Next]_vars => OrderInv'
      BY NextSendOrder, NextRecvOrder DEF OrderInv
<1>2. TypeInv /\ TokenInv /\ OrderInv /\ PromiseInv /\ [Next]_vars => PromiseInv'
      BY NextPromise
<1>3. TypeInv /\ TokenInv /\ OrderInv /\ OrderInv' /\ DeliveryInv /\ DeliveryInv' /\ PromiseInv /\ [Next]_vars
         => [Transfer!Step]_(Transfer!transfer)
      BY NextMaps
<1>4. Spec => [](TypeInv /\ TokenInv /\ CountInv)
      BY CountInvHolds
<1>5. Spec => []DeliveryInv
      BY DeliveryInvHolds
<1> QED BY <1>1, <1>2, <1>3, <1>4, <1>5, InitOrder, InitPromise, NoMatchIsLost, PTL
        DEF Spec, KeepsPromises, Transfer!Spec

=============================================================================
