------------------------ MODULE FdmiQueryPoolProofs ------------------------
(***************************************************************************)
(* Who holds a query, for any number of connections, receives, calls and   *)
(* messages: proofs about FdmiQueryPool.                                   *)
(***************************************************************************)
EXTENDS FdmiQueryPool, QueueLemmas, FiniteSetTheorems

Wr == [op : {"SEND", "READ", "RECV"}, query : Query]

FreeSet   == Range(free)
AqSet     == Range(aq)
PqSet     == Range(pq)
CqSet     == Range(Queries(cq))
RqSet(c)  == Range(rq[c])
SqSet(c)  == Range(Queries(sq[c]))

\* the kinds of places; "read" is active_query_to_free of a rendezvous under way
Kind == {"new", "free", "aq", "pq", "cq", "rq", "sq", "act", "pas", "read"}

\* Query q is at loc[q], and nowhere else; idx[q] is its connection in rq and
\* sq, and the passive query it is to be freed with in a rendezvous.
InQueues(loc) ==
    \A q \in Query :
        /\ loc[q] = "new"  <=> q > malloced
        /\ loc[q] = "free" <=> q \in FreeSet
        /\ loc[q] = "aq"   <=> q \in AqSet
        /\ loc[q] = "pq"   <=> q \in PqSet
        /\ loc[q] = "cq"   <=> q \in CqSet
InConns(loc, idx) ==
    \A q \in Query :
        /\ loc[q] \in {"rq", "sq"} => idx[q] \in Conn
        /\ \A c \in Conn : /\ (loc[q] = "rq" /\ idx[q] = c) <=> q \in RqSet(c)
                           /\ (loc[q] = "sq" /\ idx[q] = c) <=> q \in SqSet(c)
InHands(loc) ==
    \A q \in Query :
        /\ loc[q] = "act" <=> poller.pc \in Holding /\ q = poller.act
        /\ loc[q] = "pas" <=> poller.pc \in Holding /\ q = poller.pas
InReads(loc, idx) ==
    \A q \in Query :
        /\ loc[q] = "read" => idx[q] \in Query
        /\ \A z \in Query : (loc[q] = "read" /\ idx[q] = z)
                                <=> (loc[z] \in {"cq", "sq"} /\ to_free[z] = q)
Located(loc, idx) ==
    InQueues(loc) /\ InConns(loc, idx) /\ InHands(loc) /\ InReads(loc, idx)

\* No queue has a query twice.
NoRepeats ==
    /\ IsInjective(free) /\ IsInjective(aq) /\ IsInjective(pq) /\ IsInjective(Queries(cq))
    /\ \A c \in Conn : IsInjective(rq[c]) /\ IsInjective(Queries(sq[c]))

\* What the fields of a query are where it is: a query with a connection has a
\* registered msg; the poller, the hardware and aq hold queries with one.
Fields(loc) ==
    \A q \in Query :
        /\ conn[q] # None => msg_mr[q] = TRUE /\ loc[q] # "new"
        /\ loc[q] \in {"rq", "sq", "cq", "aq", "act", "read"} => conn[q] # None
        /\ loc[q] \in {"rq", "aq", "act", "read"} => to_free[q] = None
        /\ loc[q] \in {"aq", "act", "read"} => msg[q].tag # FMI_ANY_TAG

\* A work request or completion has active_query_to_free iff it is a read.
EntryOK(e) ==
    /\ e.op = "READ" <=> to_free[e.query] # None
    /\ e.op = "RECV" => msg[e.query].tag # FMI_ANY_TAG
Entries ==
    /\ \A e \in Range(cq) : EntryOK(e)
    /\ \A c \in Conn : \A e \in Range(sq[c]) : EntryOK(e)

\* The query that a thread reads: the poller's is one with a connection, also
\* after it has been freed.
Threads ==
    /\ poller.pc \in Holding => poller.act \in Query /\ poller.pas \in Query
    /\ poller.pc = "repost" => poller.act \in Query /\ conn[poller.act] # None
    /\ app.pc = "irecv" => app.act \in Query /\ msg[app.act].tag # FMI_ANY_TAG
    /\ \A c \in Conn : \A m \in Range(wire[c]) : m.tag # FMI_ANY_TAG

Placed(loc, idx) ==
    /\ loc \in [Query -> Kind] /\ idx \in [Query -> Nat]
    /\ Located(loc, idx) /\ Fields(loc)

PoolInv ==
    /\ TypeOK /\ NoRepeats /\ Entries /\ Threads
    /\ \E loc, idx : Placed(loc, idx)

\* NULL is neither a query nor a connection.
LEMMA NoneIsNoQuery == None \notin Query /\ None \notin Conn
BY PoolAssumption DEF Query, Conn

-----------------------------------------------------------------------------
(* Work requests *)

\* The queries of a queue of work requests.
LEMMA QueriesSeq ==
    ASSUME NEW s \in Seq(Wr)
    PROVE  /\ Queries(s) \in Seq(Query) /\ Len(Queries(s)) = Len(s) /\ Len(s) \in Nat
           /\ DOMAIN s = 1 .. Len(s)
           /\ \A i \in 1 .. Len(s) : s[i] \in Wr /\ Queries(s)[i] = s[i].query
<1>1. Len(s) \in Nat /\ DOMAIN s = 1 .. Len(s) /\ \A i \in 1 .. Len(s) : s[i] \in Wr
      BY LenProperties, ElementOfSeq
<1>2. \A i \in 1 .. Len(s) : s[i].query \in Query
      BY <1>1 DEF Wr
<1>3. Queries(s) = [i \in 1 .. Len(s) |-> s[i].query]
      BY <1>1 DEF Queries
<1> HIDE DEF Queries
<1>4. Queries(s) \in Seq(Query) /\ Len(Queries(s)) = Len(s)
      BY <1>1, <1>2, <1>3, IsASeq
<1> QED BY <1>1, <1>3, <1>4

\* A work request is posted, or a completion reported.
LEMMA WrPut ==
    ASSUME NEW s \in Seq(Wr), NEW e \in Wr
    PROVE  /\ Range(Append(s, e)) = Range(s) \cup {e}
           /\ Range(Queries(Append(s, e))) = Range(Queries(s)) \cup {e.query}
           /\ IsInjective(Queries(s)) /\ e.query \notin Range(Queries(s))
                => IsInjective(Queries(Append(s, e)))
<1>1. Append(s, e) \in Seq(Wr) /\ Range(Append(s, e)) = Range(s) \cup {e}
      BY PutLast
<1>2. /\ Len(Append(s, e)) = Len(s) + 1 /\ Append(s, e)[Len(s) + 1] = e
      /\ \A j \in 1 .. Len(s) : Append(s, e)[j] = s[j]
      OBVIOUS
<1>3. e.query \in Query
      BY DEF Wr
<1> DEFINE a == Queries(Append(s, e))
           b == Append(Queries(s), e.query)
<1>4. /\ a \in Seq(Query) /\ Len(a) = Len(s) + 1
      /\ \A i \in 1 .. Len(s) + 1 : a[i] = Append(s, e)[i].query
      BY <1>1, <1>2, QueriesSeq
<1>5. /\ Queries(s) \in Seq(Query) /\ Len(Queries(s)) = Len(s) /\ Len(s) \in Nat
      /\ \A i \in 1 .. Len(s) : Queries(s)[i] = s[i].query
      BY QueriesSeq
<1>6. /\ b \in Seq(Query) /\ Len(b) = Len(s) + 1 /\ b[Len(s) + 1] = e.query
      /\ \A i \in 1 .. Len(s) : b[i] = Queries(s)[i]
      BY <1>3, <1>5
<1> HIDE DEF a, b
<1>7. \A i \in 1 .. Len(s) + 1 : a[i] = b[i]
  <2>1. \A i \in 1 .. Len(s) + 1 : i \in 1 .. Len(s) \/ i = Len(s) + 1
        BY <1>5
  <2> QED BY <1>2, <1>4, <1>5, <1>6, <2>1
<1>8. a = b
      BY <1>4, <1>6, <1>7, SeqEqual
<1> QED BY <1>1, <1>3, <1>5, <1>8, PutLast DEF a, b

\* A work request is executed, or a completion polled.
LEMMA WrTake ==
    ASSUME NEW s \in Seq(Wr), s # <<>>
    PROVE  /\ Head(s) \in Wr /\ Head(s) \in Range(s)
           /\ Head(s).query \in Query /\ Head(s).query \in Range(Queries(s))
           /\ \A e \in Range(Tail(s)) : e \in Range(s)
           /\ IsInjective(Queries(s)) =>
                 /\ IsInjective(Queries(Tail(s)))
                 /\ Range(Queries(Tail(s))) = Range(Queries(s)) \ {Head(s).query}
<1>1. /\ Head(s) \in Wr /\ 1 \in DOMAIN s /\ Head(s) = s[1] /\ Tail(s) \in Seq(Wr)
      /\ \A j \in DOMAIN Tail(s) : \E k \in DOMAIN s : Tail(s)[j] = s[k]
      BY TailEntries
<1>2. /\ Len(Tail(s)) = Len(s) - 1
      /\ \A j \in 1 .. Len(s) - 1 : Tail(s)[j] = s[j + 1]
      BY HeadTailProperties
<1> DEFINE q == Queries(s)
           a == Queries(Tail(s))
           b == Tail(q)
<1>3. /\ q \in Seq(Query) /\ Len(q) = Len(s) /\ Len(s) \in Nat /\ DOMAIN s = 1 .. Len(s)
      /\ \A i \in 1 .. Len(s) : q[i] = s[i].query
      BY QueriesSeq
<1>4. q # <<>> /\ Len(s) > 0
      BY <1>1, <1>3, EmptySeq
<1>5. /\ a \in Seq(Query) /\ Len(a) = Len(s) - 1
      /\ \A i \in 1 .. Len(s) - 1 : a[i] = Tail(s)[i].query
      BY <1>1, <1>2, QueriesSeq
<1> HIDE DEF q, a
<1>6. /\ b \in Seq(Query) /\ Len(b) = Len(s) - 1 /\ Head(q) = q[1]
      /\ \A i \in 1 .. Len(s) - 1 : b[i] = q[i + 1]
      BY <1>3, <1>4, HeadTailProperties
<1> HIDE DEF b
<1>7. a = b
  <2>1. \A i \in 1 .. Len(s) - 1 : i + 1 \in 1 .. Len(s)
        BY <1>3
  <2>2. \A i \in 1 .. Len(s) - 1 : a[i] = b[i]
        BY <1>2, <1>3, <1>5, <1>6, <2>1
  <2> QED BY <1>5, <1>6, <2>2, SeqEqual
<1>8. Head(q) = Head(s).query
      BY <1>1, <1>3, <1>4, <1>6
<1>9. /\ Head(q) \in Range(q) /\ Head(q) \in Query
      /\ IsInjective(q) => IsInjective(b) /\ Range(b) = Range(q) \ {Head(q)}
      BY <1>3, <1>4, TakeFirst DEF b
<1>10. Head(s) \in Range(s) /\ \A e \in Range(Tail(s)) : e \in Range(s)
      BY <1>1 DEF Range
<1> QED BY <1>1, <1>7, <1>8, <1>9, <1>10 DEF q, a

-----------------------------------------------------------------------------
(* The initial state *)

\* The receives of connection c are numbers (c-1)*PendingRecvs+1 .. c*PendingRecvs.
LEMMA FirstReceives ==
    ASSUME NEW q \in Nat \ {0}, NEW c \in Conn
    PROVE  /\ (q - 1) \div PendingRecvs + 1 \in Nat \ {0}
           /\ q <= NumConn * PendingRecvs => (q - 1) \div PendingRecvs + 1 \in Conn
           /\ (\E k \in 1 .. PendingRecvs : q = (c - 1) * PendingRecvs + k)
                 <=> (q <= NumConn * PendingRecvs /\ (q - 1) \div PendingRecvs + 1 = c)
<1> DEFINE P == PendingRecvs
           d == (q - 1) \div P
           r == (q - 1) % P
<1>1. P \in Nat \ {0} /\ NumConn \in Nat \ {0} /\ c \in Nat /\ 1 <= c /\ c <= NumConn
      BY PoolAssumption DEF Conn
<1>2. q - 1 \in Nat /\ d \in Nat /\ r \in 0 .. P - 1 /\ q - 1 = d * P + r
      BY <1>1
<1>3. ASSUME q <= NumConn * P PROVE d < NumConn
      BY <1>1, <1>2, <1>3
<1>4. ASSUME NEW k \in 1 .. P, q = (c - 1) * P + k
      PROVE  q <= NumConn * P /\ d + 1 = c
  <2>1. q - 1 = (c - 1) * P + (k - 1) /\ k - 1 \in 0 .. P - 1 /\ c - 1 \in Nat
        BY <1>1, <1>4
  <2>2. d = c - 1
        BY <1>1, <1>2, <2>1
  <2>3. (c - 1) * P + P = c * P /\ c * P <= NumConn * P
        BY <1>1
  <2> QED BY <1>1, <1>2, <1>4, <2>1, <2>2, <2>3
<1>5. ASSUME d + 1 = c PROVE r + 1 \in 1 .. P /\ q = (c - 1) * P + (r + 1)
      BY <1>1, <1>2, <1>5
<1> HIDE DEF d, r
<1>6. d + 1 \in Nat \ {0} /\ (q <= NumConn * P => d + 1 \in Conn)
      BY <1>1, <1>2, <1>3 DEF Conn
<1> QED BY <1>4, <1>5, <1>6 DEF d

\* Nothing is queued but the receives.
LEMMA EmptyQueues ==
    /\ <<>> \in Seq(Query) /\ <<>> \in Seq(Wr)
    /\ Range(<<>>) = {} /\ Range(Queries(<<>>)) = {}
    /\ IsInjective(<<>>) /\ IsInjective(Queries(<<>>))
<1>1. Queries(<<>>) = <<>>
  <2>1. Queries(<<>>) \in Seq(Query) /\ Len(Queries(<<>>)) = 0
    <3>1. <<>> \in Seq(Wr) /\ Len(<<>>) = 0
          OBVIOUS
    <3> QED BY <3>1, QueriesSeq
  <2> QED BY <2>1, EmptySeq
<1> QED BY <1>1 DEF Range, IsInjective

\* The state after RDMA_CM_EVENT_ESTABLISHED.
LEMMA InitPool == Init => PoolInv
<1> SUFFICES ASSUME Init PROVE PoolInv
    OBVIOUS
<1> DEFINE P == PendingRecvs
           loc == [q \in Query |-> IF q <= malloced THEN "rq" ELSE "new"]
           idx == [q \in Query |-> (q - 1) \div P + 1]
<1>0. /\ P \in Nat \ {0} /\ NumConn \in Nat \ {0} /\ MaxQueries \in Nat
      /\ NumConn * P <= MaxQueries /\ MaxArrivals \in Nat /\ None \notin Nat
      /\ FMI_ANY_TAG \notin Tag
      BY PoolAssumption
<1>1. /\ malloced = NumConn * P /\ malloced \in 0 .. MaxQueries
      /\ \A q \in Query : q \in Nat \ {0}
      BY <1>0 DEF Init, Query
<1>2. ASSUME NEW q \in Query, NEW c \in Conn
      PROVE  /\ idx[q] \in Nat /\ (q <= malloced => idx[q] \in Conn)
             /\ (\E k \in 1 .. P : q = (c - 1) * P + k) <=> (q <= malloced /\ idx[q] = c)
      BY <1>1, FirstReceives
<1>3. \A q \in Query : conn[q] = IF q <= malloced THEN idx[q] ELSE None
      BY DEF Init
<1> HIDE DEF idx
<1>4. ASSUME NEW c \in Conn
      PROVE  /\ rq[c] \in Seq(Query) /\ IsInjective(rq[c])
             /\ \A q \in Query : q \in RqSet(c) <=> (q <= malloced /\ idx[q] = c)
  <2>1. rq[c] = [k \in 1 .. P |-> (c - 1) * P + k]
        BY DEF Init
  <2>2. c \in Nat /\ 1 <= c /\ c <= NumConn
        BY <1>0 DEF Conn
  <2>3. ASSUME NEW k \in 1 .. P PROVE (c - 1) * P + k \in Query
    <3>1. (c - 1) * P + P = c * P /\ c * P <= NumConn * P /\ (c - 1) * P \in Nat
          BY <1>0, <2>2
    <3> QED BY <1>0, <3>1 DEF Query
  <2>4. rq[c] \in Seq(Query)
    <3> DEFINE e(k) == (c - 1) * P + k
    <3>1. \A k \in 1 .. P : e(k) \in Query
          BY <2>3
    <3>2. P \in Nat
          BY <1>0
    <3> HIDE DEF e
    <3>3. [k \in 1 .. P |-> e(k)] \in Seq(Query)
          BY <3>1, <3>2, IsASeq
    <3> QED BY <2>1, <3>3 DEF e
  <2>5. IsInjective(rq[c])
    <3>1. (c - 1) * P \in Nat
          BY <1>0, <2>2
    <3> DEFINE b == (c - 1) * P
    <3> HIDE DEF b
    <3>2. rq[c] = [k \in 1 .. P |-> b + k] /\ b \in Nat
          BY <2>1, <3>1 DEF b
    <3> QED BY <1>0, <3>2 DEF IsInjective
  <2>6. \A q \in Query : q \in RqSet(c) <=> \E k \in 1 .. P : q = (c - 1) * P + k
        BY <2>1 DEF RqSet, Range
  <2> QED BY <1>2, <2>4, <2>5, <2>6
<1>5. TypeOK
  <2>1. Blank \in Message
        BY DEF Blank, Message, Opcode
  <2>2. conn \in [Query -> Conn \cup {None}] /\ rq \in [Conn -> Seq(Query)]
    <3>1. rq \in [Conn -> Seq(Query)]
          BY <1>4 DEF Init
    <3>2. \A q \in Query : conn[q] \in Conn \cup {None}
      <4>1. 1 \in Conn
            BY <1>0 DEF Conn
      <4> QED BY <1>2, <1>3, <4>1
    <3> QED BY <3>1, <3>2 DEF Init
  <2>3. /\ malloced \in 0 .. MaxQueries /\ msg \in [Query -> Message]
        /\ msg_mr \in [Query -> BOOLEAN] /\ request \in [Query -> Call \cup {None}]
        /\ to_free \in [Query -> Query \cup {None}] /\ called \subseteq Call
        /\ wire \in [Conn -> Seq(Message)] /\ owed \in [Conn -> Nat]
        /\ arrivals \in 0 .. MaxArrivals
        /\ sq \in [Conn -> Seq([op : {"SEND", "READ"}, query : Query])]
        BY <1>0, <1>1, <2>1 DEF Init
  <2>4. /\ poller \in [pc : Holding \cup {"idle", "repost"},
                       act : Query \cup {None}, pas : Query \cup {None}]
        /\ app \in [pc : {"idle", "irecv"}, act : Query \cup {None},
                    pas : RecvCall \cup {None}]
        BY DEF Init, Idle
  <2>5. req \in [Call -> [flag : {0, 1}, prank : Conn \cup {None}, tag : Tag \cup {None}]]
        BY DEF Init
  <2>6. /\ free \in Seq(Query) /\ aq \in Seq(Query) /\ pq \in Seq(Query)
        /\ send_req_q \in Seq(SendCall)
        /\ cq \in Seq([op : {"SEND", "READ", "RECV"}, query : Query])
        BY DEF Init
  <2> QED BY <2>2, <2>3, <2>4, <2>5, <2>6 DEF TypeOK
<1>6. /\ free = <<>> /\ aq = <<>> /\ pq = <<>> /\ cq = <<>>
      /\ \A c \in Conn : sq[c] = <<>> /\ wire[c] = <<>>
      /\ poller.pc = "idle" /\ app.pc = "idle"
      BY DEF Init, Idle
<1>7. /\ FreeSet = {} /\ AqSet = {} /\ PqSet = {} /\ CqSet = {} /\ Range(cq) = {}
      /\ \A c \in Conn : SqSet(c) = {} /\ Range(sq[c]) = {} /\ Range(wire[c]) = {}
      BY <1>6, EmptyQueues DEF FreeSet, AqSet, PqSet, CqSet, SqSet
<1>8. NoRepeats
      BY <1>4, <1>6, EmptyQueues DEF NoRepeats
<1>9. Entries /\ Threads
  <2>1. poller.pc \notin Holding
        BY <1>6 DEF Holding
  <2> QED BY <1>6, <1>7, <2>1 DEF Entries, Threads
<1>10. Placed(loc, idx)
  <2>1. loc \in [Query -> Kind]
        BY DEF Kind
  <2>2. idx \in [Query -> Nat]
    <3>1. 1 \in Conn
          BY <1>0 DEF Conn
    <3> QED BY <1>2, <3>1 DEF idx
  <2>3. \A q \in Query : loc[q] = IF q <= malloced THEN "rq" ELSE "new"
        OBVIOUS
  <2> HIDE DEF loc
  <2>4. InQueues(loc)
        BY <1>1, <1>7, <2>3 DEF InQueues
  <2>8. \A q \in Query : q <= malloced => idx[q] \in Conn
    <3>1. 1 \in Conn
          BY <1>0 DEF Conn
    <3> QED BY <1>2, <3>1
  <2>5. InConns(loc, idx)
    <3>1. \A q \in Query : loc[q] \in {"rq", "sq"} => idx[q] \in Conn
          BY <2>3, <2>8
    <3>2. \A q \in Query, c \in Conn : (loc[q] = "rq" /\ idx[q] = c) <=> q \in RqSet(c)
          BY <1>4, <2>3
    <3>3. \A q \in Query, c \in Conn : (loc[q] = "sq" /\ idx[q] = c) <=> q \in SqSet(c)
          BY <1>7, <2>3
    <3> QED BY <3>1, <3>2, <3>3 DEF InConns
  <2>6. InHands(loc) /\ InReads(loc, idx)
    <3>1. poller.pc \notin Holding
          BY <1>6 DEF Holding
    <3> QED BY <2>3, <3>1 DEF InHands, InReads
  <2>7. Fields(loc)
    <3>1. \A q \in Query : to_free[q] = None /\ (q <= malloced => msg_mr[q] = TRUE)
          BY DEF Init
    <3>2. None \notin Conn
          BY <1>0 DEF Conn
    <3> QED BY <1>3, <2>3, <2>8, <3>1, <3>2 DEF Fields
  <2> QED BY <2>1, <2>2, <2>4, <2>5, <2>6, <2>7 DEF Placed, Located
<1> QED BY <1>5, <1>8, <1>9, <1>10 DEF PoolInv

-----------------------------------------------------------------------------
(* The pool *)

\* fdmi_create_query returns a query that is free or new and takes it out of
\* free_query_q.  For a connection it is one with a registered msg, for none it
\* is a query without a connection.
LEMMA Creates ==
    ASSUME TypeOK, NoRepeats, NEW loc, NEW idx, Placed(loc, idx),
           NEW c \in Conn \cup {None}, TakeQuery(c)
    PROVE  /\ Created(c) \in Query /\ loc[Created(c)] \in {"new", "free"}
           /\ free' \in Seq(Query) /\ IsInjective(free') /\ FreeSet' = FreeSet \ {Created(c)}
           /\ malloced' \in 0 .. MaxQueries
           /\ \A x \in Query : x > malloced' <=> x > malloced /\ x # Created(c)
           /\ c = None => conn[Created(c)] = None
           /\ CreatedMr(c) \in BOOLEAN /\ (c # None => CreatedMr(c) = TRUE)
<1> DEFINE q == Created(c)
           I == Reusables(c)
<1>0. /\ free \in Seq(Query) /\ IsInjective(free) /\ malloced \in 0 .. MaxQueries
      /\ msg_mr \in [Query -> BOOLEAN]
      BY DEF TypeOK, NoRepeats
<1>1. /\ \A x \in Query : loc[x] = "new" <=> x > malloced
      /\ \A x \in Query : loc[x] = "free" <=> x \in FreeSet
      /\ \A x \in Query : conn[x] # None => msg_mr[x] = TRUE /\ loc[x] # "new"
      BY DEF Placed, Located, InQueues, Fields
<1>2. MaxQueries \in Nat
      BY PoolAssumption
<1>3. CASE I = {}
  <2>1. /\ q = malloced + 1 /\ malloced < MaxQueries /\ malloced' = malloced + 1
        /\ free' = free /\ CreatedMr(c) = (c # None)
        BY <1>3 DEF Created, CreatedMr, TakeQuery
  <2> HIDE DEF q, I
  <2>2. q \in Query /\ q > malloced /\ malloced' \in 0 .. MaxQueries
        BY <1>0, <1>2, <2>1 DEF Query
  <2>3. loc[q] = "new" /\ q \notin FreeSet /\ conn[q] = None
        BY <1>1, <2>2
  <2>4. FreeSet' = FreeSet \ {q}
        BY <2>1, <2>3 DEF FreeSet
  <2>5. \A x \in Query : x > malloced' <=> x > malloced /\ x # q
        BY <1>0, <2>1 DEF Query
  <2> QED BY <1>0, <2>1, <2>2, <2>3, <2>4, <2>5 DEF q
<1>4. CASE I # {}
  <2> DEFINE i == Min(I)
  <2>1. /\ q = free[i] /\ free' = RemoveAt(free, i) /\ malloced' = malloced
        /\ CreatedMr(c) = msg_mr[q]
        BY <1>4 DEF Created, CreatedMr, TakeQuery
  <2>2. I \subseteq Nat
        BY <1>0, LenProperties DEF Reusables
  <2>3. i \in I
    <3> HIDE DEF I
    <3> QED BY <1>4, <2>2, LeastPlace
  <2>4. i \in DOMAIN free /\ (conn[q] = None) = (c = None)
        BY <2>1, <2>3 DEF Reusables, Reusable
  <2> HIDE DEF q, I, i
  <2>5. /\ q \in Query /\ q \in Range(free) /\ free' \in Seq(Query)
        /\ IsInjective(free') /\ Range(free') = Range(free) \ {q}
        BY <1>0, <2>1, <2>4, TakeAt
  <2>6. q \in FreeSet /\ FreeSet' = FreeSet \ {q}
        BY <2>5 DEF FreeSet
  <2>7. loc[q] = "free" /\ ~ (q > malloced)
        BY <1>1, <2>5, <2>6
  <2>8. c # None => msg_mr[q] = TRUE
        BY <1>1, <2>4, <2>5
  <2> QED BY <1>0, <2>1, <2>4, <2>5, <2>6, <2>7, <2>8 DEF q
<1> QED BY <1>3, <1>4

\* A step that gives query q these fields and leaves the others alone.
Filled(q, nc, mr, tf, m) ==
    /\ conn' \in [Query -> Conn \cup {None}] /\ msg' \in [Query -> Message]
    /\ msg_mr' \in [Query -> BOOLEAN] /\ request' \in [Query -> Call \cup {None}]
    /\ to_free' \in [Query -> Query \cup {None}]
    /\ \A x \in Query :
          /\ conn'[x] = IF x = q THEN nc ELSE conn[x]
          /\ msg_mr'[x] = IF x = q THEN mr ELSE msg_mr[x]
          /\ to_free'[x] = IF x = q THEN tf ELSE to_free[x]
          /\ msg'[x] = IF x = q THEN m ELSE msg[x]

\* The fields of the query that fdmi_create_query returns, and of the others.
LEMMA Fills ==
    ASSUME TypeOK, NEW c, NEW nc \in Conn \cup {None}, NEW mr \in BOOLEAN,
           NEW k \in Call \cup {None}, NEW tf \in Query \cup {None}, NEW m \in Message,
           Created(c) \in Query, Fill(c, nc, mr, k, tf, m)
    PROVE  Filled(Created(c), nc, mr, tf, m)
BY DEF TypeOK, Fill, Filled

\* fdmi_destroy_query
LEMMA Destroys ==
    ASSUME TypeOK, NoRepeats, NEW x \in Query, x \notin FreeSet
    PROVE  /\ Append(free, x) \in Seq(Query) /\ IsInjective(Append(free, x))
           /\ Range(Append(free, x)) = FreeSet \cup {x}
           /\ free \o <<x>> = Append(free, x)
BY PutLast, PutTwo DEF TypeOK, NoRepeats, FreeSet

-----------------------------------------------------------------------------
(* Work requests and completions *)

SendWr == [op : {"SEND", "READ"}, query : Query]

\* The queries of work requests and completions are where they should be.
LEMMA EntryQueries ==
    ASSUME TypeOK, NEW loc, NEW idx, Placed(loc, idx)
    PROVE  /\ cq \in Seq(Wr) /\ \A c \in Conn : sq[c] \in Seq(Wr) /\ sq[c] \in Seq(SendWr)
           /\ \A e \in Range(cq) : e \in Wr /\ e.query \in Query /\ loc[e.query] = "cq"
           /\ \A c \in Conn : \A e \in Range(sq[c]) :
                 e \in Wr /\ e.query \in Query /\ loc[e.query] = "sq" /\ e.op # "RECV"
<1>1. cq \in Seq(Wr)
      BY DEF TypeOK, Wr
<1>2. ASSUME NEW c \in Conn PROVE sq[c] \in Seq(Wr) /\ sq[c] \in Seq(SendWr)
  <2>1. sq[c] \in Seq(SendWr)
        BY DEF TypeOK, SendWr
  <2>2. \A i \in 1 .. Len(sq[c]) : sq[c][i] \in SendWr
        BY <2>1, ElementOfSeq
  <2>3. SendWr \subseteq Wr
        BY DEF SendWr, Wr
  <2> QED BY <2>1, <2>3, SeqMonotonic
<1>3. ASSUME NEW s \in Seq(Wr), NEW e \in Range(s)
      PROVE  e \in Wr /\ e.query \in Query /\ e.query \in Range(Queries(s))
  <2>1. PICK i \in DOMAIN s : e = s[i]
        BY DEF Range
  <2>2. /\ DOMAIN s = 1 .. Len(s) /\ s[i] \in Wr /\ Queries(s)[i] = s[i].query
        /\ Queries(s) \in Seq(Query) /\ Len(Queries(s)) = Len(s)
        BY <2>1, QueriesSeq
  <2>3. DOMAIN Queries(s) = 1 .. Len(s)
        BY <2>2, LenProperties
  <2>4. e.query \in Range(Queries(s))
        BY <2>1, <2>2, <2>3 DEF Range
  <2> QED BY <2>1, <2>2, <2>4 DEF Wr
<1>4. ASSUME NEW e \in Range(cq)
      PROVE  e \in Wr /\ e.query \in Query /\ loc[e.query] = "cq"
      BY <1>1, <1>3 DEF Placed, Located, InQueues, CqSet
<1>5. ASSUME NEW c \in Conn, NEW e \in Range(sq[c])
      PROVE  e \in Wr /\ e.query \in Query /\ loc[e.query] = "sq" /\ e.op # "RECV"
  <2>1. e \in Wr /\ e.query \in Query /\ e.query \in SqSet(c)
        BY <1>2, <1>3 DEF SqSet
  <2>2. PICK i \in DOMAIN sq[c] : e = sq[c][i]
        BY DEF Range
  <2>3. e \in SendWr
        BY <1>2, <2>2, ElementOfSeq, LenProperties
  <2>4. e.op # "RECV"
        BY <2>3 DEF SendWr
  <2> QED BY <2>1, <2>4 DEF Placed, Located, InConns
<1> QED BY <1>1, <1>2, <1>4, <1>5

\* A step that leaves the queries of work requests and completions alone.
LEMMA EntriesKept ==
    ASSUME TypeOK, Entries, NEW loc, NEW idx, Placed(loc, idx),
           \A x \in Query : loc[x] = "cq" =>
               to_free'[x] = to_free[x] /\ (msg[x].tag # FMI_ANY_TAG => msg'[x].tag # FMI_ANY_TAG),
           \A x \in Query : loc[x] = "sq" => to_free'[x] = to_free[x]
    PROVE  /\ \A e \in Range(cq) : EntryOK(e)'
           /\ \A c \in Conn : \A e \in Range(sq[c]) : EntryOK(e)'
<1>1. ASSUME NEW e \in Range(cq) PROVE EntryOK(e)'
      BY EntryQueries DEF Entries, EntryOK
<1>2. ASSUME NEW c \in Conn, NEW e \in Range(sq[c]) PROVE EntryOK(e)'
      BY EntryQueries DEF Entries, EntryOK
<1> QED BY <1>1, <1>2

\* ibv_post_send
LEMMA Posts ==
    ASSUME TypeOK, NoRepeats, NEW loc, NEW idx, Placed(loc, idx),
           NEW b \in Conn, NEW o \in {"SEND", "READ"}, NEW x \in Query,
           loc[x] # "sq", Post(b, o, x)
    PROVE  /\ sq' \in [Conn -> Seq(SendWr)]
           /\ \A c \in Conn : IsInjective(Queries(sq'[c]))
           /\ \A c \in Conn : SqSet(c)' = IF c = b THEN SqSet(c) \cup {x} ELSE SqSet(c)
           /\ \A c \in Conn : \A e \in Range(sq'[c]) :
                 e \in Range(sq[c]) \/ e = [op |-> o, query |-> x]
<1> DEFINE w == [op |-> o, query |-> x]
           s == sq[b]
<1>1. w \in SendWr /\ w \in Wr /\ w.query = x
      BY DEF SendWr, Wr
<1>2. /\ sq \in [Conn -> Seq(SendWr)] /\ s \in Seq(Wr) /\ s \in Seq(SendWr)
      /\ \A c \in Conn : IsInjective(Queries(sq[c]))
      BY EntryQueries DEF TypeOK, NoRepeats, SendWr
<1>3. x \notin Range(Queries(s))
      BY DEF Placed, Located, InConns, SqSet
<1> HIDE DEF w
<1>4. /\ Append(s, w) \in Seq(SendWr) /\ Range(Append(s, w)) = Range(s) \cup {w}
      /\ Range(Queries(Append(s, w))) = Range(Queries(s)) \cup {x}
      /\ IsInjective(Queries(Append(s, w)))
      BY <1>1, <1>2, <1>3, WrPut
<1>5. sq' = [sq EXCEPT ![b] = Append(s, w)]
      BY DEF Post, w
<1> DEFINE v == Append(s, w)
<1> HIDE DEF v, s
<1>6. /\ sq' \in [Conn -> Seq(SendWr)]
      /\ \A c \in Conn : sq'[c] = IF c = b THEN v ELSE sq[c]
      BY <1>2, <1>4, <1>5 DEF v
<1>7. \A c \in Conn : IsInjective(Queries(sq'[c]))
      BY <1>2, <1>4, <1>6 DEF v
<1>8. ASSUME NEW c \in Conn
      PROVE  SqSet(c)' = IF c = b THEN SqSet(c) \cup {x} ELSE SqSet(c)
      BY <1>4, <1>6 DEF v, s, SqSet
<1>9. ASSUME NEW c \in Conn, NEW e \in Range(sq'[c])
      PROVE  e \in Range(sq[c]) \/ e = w
      BY <1>4, <1>6 DEF v, s
<1> QED BY <1>6, <1>7, <1>8, <1>9 DEF w

\* ibv_poll_cq
LEMMA Polls ==
    ASSUME TypeOK, NoRepeats, Entries, NEW loc, NEW idx, Placed(loc, idx),
           cq # <<>>, cq' = Tail(cq)
    PROVE  /\ Head(cq) \in Wr /\ Head(cq).query \in Query /\ loc[Head(cq).query] = "cq"
           /\ EntryOK(Head(cq))
           /\ cq' \in Seq(Wr) /\ IsInjective(Queries(cq'))
           /\ CqSet' = CqSet \ {Head(cq).query}
           /\ \A e \in Range(cq') : e \in Range(cq)
<1>1. cq \in Seq(Wr) /\ IsInjective(Queries(cq))
      BY EntryQueries DEF NoRepeats
<1>2. /\ Head(cq) \in Wr /\ Head(cq) \in Range(cq)
      /\ \A e \in Range(cq') : e \in Range(cq)
      /\ IsInjective(Queries(cq'))
      /\ Range(Queries(cq')) = Range(Queries(cq)) \ {Head(cq).query}
      BY <1>1, WrTake
<1>3. Head(cq).query \in Query /\ loc[Head(cq).query] = "cq" /\ EntryOK(Head(cq))
      BY <1>2, EntryQueries DEF Entries
<1>4. cq' \in Seq(Wr)
      BY <1>1, TailEntries
<1> QED BY <1>2, <1>3, <1>4 DEF CqSet

\* The hardware reports a completion.
LEMMA Completes ==
    ASSUME TypeOK, NoRepeats, NEW loc, NEW idx, Placed(loc, idx),
           NEW w \in Wr, loc[w.query] # "cq", cq' = Append(cq, w)
    PROVE  /\ cq' \in Seq(Wr) /\ IsInjective(Queries(cq'))
           /\ CqSet' = CqSet \cup {w.query}
           /\ \A e \in Range(cq') : e \in Range(cq) \/ e = w
<1>1. cq \in Seq(Wr) /\ IsInjective(Queries(cq))
      BY EntryQueries DEF NoRepeats
<1>2. w.query \in Query /\ w.query \notin Range(Queries(cq))
  <2>1. w.query \in Query
        BY DEF Wr
  <2> QED BY <2>1 DEF Placed, Located, InQueues, CqSet
<1>3. /\ Range(cq') = Range(cq) \cup {w}
      /\ Range(Queries(cq')) = Range(Queries(cq)) \cup {w.query}
      /\ IsInjective(Queries(cq'))
      BY <1>1, <1>2, WrPut
<1>4. cq' \in Seq(Wr)
      BY <1>1, PutLast
<1> QED BY <1>3, <1>4 DEF CqSet

\* A step that neither begins nor ends a rendezvous.
LEMMA ReadsKept ==
    ASSUME NEW loc, NEW idx, NEW l, NEW i, InReads(loc, idx),
           \A x \in Query : (l[x] = "read" <=> loc[x] = "read")
                           /\ (l[x] = "read" => i[x] = idx[x]),
           \A x, z \in Query : (l[z] \in {"cq", "sq"} /\ to_free'[z] = x)
                               <=> (loc[z] \in {"cq", "sq"} /\ to_free[z] = x)
    PROVE  InReads(l, i)'
<1>1. \A q \in Query : l[q] = "read" => i[q] \in Query
      BY DEF InReads
<1>2. ASSUME NEW q \in Query, NEW z \in Query
      PROVE  (l[q] = "read" /\ i[q] = z) <=> (l[z] \in {"cq", "sq"} /\ to_free'[z] = q)
  <2>1. (loc[q] = "read" /\ idx[q] = z) <=> (loc[z] \in {"cq", "sq"} /\ to_free[z] = q)
        BY DEF InReads
  <2>2. (l[q] = "read" /\ i[q] = z) <=> (loc[q] = "read" /\ idx[q] = z)
        OBVIOUS
  <2> QED BY <2>1, <2>2, SMTT(60)
<1> QED BY <1>1, <1>2 DEF InReads

-----------------------------------------------------------------------------
(* The application thread *)

\* fdmi_verbs_isend: a query goes from the pool to the send queue.
LEMMA IsendKeeps ==
    ASSUME PoolInv, NEW k \in SendCall, NEW c \in Conn, NEW t \in Tag, NEW o \in Opcode,
           Isend(k, c, t, o)
    PROVE  PoolInv'
<1>1. PICK loc, idx : Placed(loc, idx)
      BY DEF PoolInv
<1>2. TypeOK /\ NoRepeats /\ Entries /\ Threads
      BY DEF PoolInv
<1>3. PICK q, m : /\ q = Created(c)
                  /\ m = [type |-> "INIT", opcode |-> o, rank |-> None, tag |-> t]
      OBVIOUS
<1>4. /\ Fill(c, c, CreatedMr(c), k, None, m) /\ Post(c, "SEND", q)
      /\ c \in Conn \cup {None} /\ TakeQuery(c) /\ c # None /\ c \in Nat
      BY <1>3, PoolAssumption DEF Isend, Fill, Conn
<1>5. /\ q \in Query /\ loc[q] \in {"new", "free"}
      /\ free' \in Seq(Query) /\ IsInjective(free') /\ FreeSet' = FreeSet \ {q}
      /\ malloced' \in 0 .. MaxQueries
      /\ \A x \in Query : x > malloced' <=> x > malloced /\ x # q
      /\ CreatedMr(c) = TRUE
      BY <1>1, <1>2, <1>3, <1>4, Creates
<1>6. m \in Message /\ m.tag # FMI_ANY_TAG
      BY <1>3, PoolAssumption DEF Message
<1>7. Filled(q, c, TRUE, None, m)
  <2>1. /\ k \in Call \cup {None} /\ Created(c) \in Query /\ Fill(c, c, TRUE, k, None, m)
        /\ None \in Query \cup {None} /\ TRUE \in BOOLEAN
        BY <1>3, <1>4, <1>5 DEF Call
  <2> QED BY <1>2, <1>3, <1>4, <1>6, <2>1, Fills
<1>8. /\ sq' \in [Conn -> Seq(SendWr)]
      /\ \A d \in Conn : IsInjective(Queries(sq'[d]))
      /\ \A d \in Conn : SqSet(d)' = IF d = c THEN SqSet(d) \cup {q} ELSE SqSet(d)
      /\ \A d \in Conn : \A e \in Range(sq'[d]) :
            e \in Range(sq[d]) \/ e = [op |-> "SEND", query |-> q]
      BY <1>1, <1>2, <1>4, <1>5, Posts
<1>9. /\ rq' = rq /\ cq' = cq /\ aq' = aq /\ pq' = pq /\ poller' = poller /\ app' = app
      /\ wire' = wire /\ owed' = owed /\ arrivals' = arrivals
      /\ called' = called \cup {k} /\ send_req_q' = Append(send_req_q, k)
      /\ req' = [req EXCEPT ![k].flag = 0]
      BY DEF Isend, env
<1>10. TypeOK'
  <2>1. called' \subseteq Call /\ send_req_q' \in Seq(SendCall)
        BY <1>2, <1>9 DEF TypeOK, Call
  <2>2. req' \in [Call -> [flag : {0, 1}, prank : Conn \cup {None}, tag : Tag \cup {None}]]
        BY <1>2, <1>9, ZenonT(120) DEF TypeOK
  <2> QED BY <1>2, <1>5, <1>7, <1>8, <1>9, <2>1, <2>2 DEF TypeOK, SendWr, Filled
<1>11. NoRepeats'
      BY <1>2, <1>5, <1>8, <1>9 DEF NoRepeats
<1>12. /\ AqSet' = AqSet /\ PqSet' = PqSet /\ CqSet' = CqSet
       /\ \A d \in Conn : RqSet(d)' = RqSet(d)
      BY <1>9 DEF AqSet, PqSet, CqSet, RqSet
<1>13. loc \in [Query -> Kind] /\ idx \in [Query -> Nat] /\ Located(loc, idx) /\ Fields(loc)
      BY <1>1 DEF Placed
<1>14. PICK l, i : /\ l = [loc EXCEPT ![q] = "sq"] /\ i = [idx EXCEPT ![q] = c]
      OBVIOUS
<1>15. Placed(l, i)'
  <2>1. l \in [Query -> Kind] /\ i \in [Query -> Nat]
        BY <1>4, <1>13, <1>14 DEF Kind
  <2>2. \A x \in Query : /\ l[x] = IF x = q THEN "sq" ELSE loc[x]
                         /\ i[x] = IF x = q THEN c ELSE idx[x]
        BY <1>13, <1>14
  <2>3. InQueues(l)'
        BY <1>5, <1>12, <1>13, <2>2 DEF Located, InQueues
  <2>4. InConns(l, i)'
        BY <1>5, <1>8, <1>12, <1>13, <2>2, SMTT(60) DEF Located, InConns
  <2>5. InHands(l)'
        BY <1>5, <1>9, <1>13, <2>2 DEF Located, InHands
  <2>6. InReads(l, i)'
    <3>1. \A z \in Query : to_free'[z] = IF z = q THEN None ELSE to_free[z]
          BY <1>7 DEF Filled
    <3>2. \A x \in Query : /\ l[x] = "read" <=> loc[x] = "read"
                           /\ l[x] = "read" => i[x] = idx[x]
          BY <1>5, <2>2
    <3>3. \A x, z \in Query : (l[z] \in {"cq", "sq"} /\ to_free'[z] = x)
                                <=> (loc[z] \in {"cq", "sq"} /\ to_free[z] = x)
          BY <1>5, <2>2, <3>1, NoneIsNoQuery
    <3> QED BY <1>13, <3>2, <3>3, ReadsKept DEF Located
  <2>7. Fields(l)'
        BY <1>4, <1>5, <1>7, <1>13, <2>2, ZenonT(120) DEF Fields, Filled
  <2> QED BY <2>1, <2>3, <2>4, <2>5, <2>6, <2>7 DEF Placed, Located
<1>16. Entries'
  <2>1. /\ \A e \in Range(cq) : EntryOK(e)'
        /\ \A d \in Conn : \A e \in Range(sq[d]) : EntryOK(e)'
        BY <1>1, <1>2, <1>5, <1>7, EntriesKept DEF Filled
  <2>2. EntryOK([op |-> "SEND", query |-> q])'
        BY <1>5, <1>7 DEF EntryOK, Filled
  <2> QED BY <1>8, <1>9, <2>1, <2>2 DEF Entries
<1>17. Threads'
      BY <1>2, <1>4, <1>5, <1>6, <1>7, <1>9 DEF Threads, Filled
<1> QED BY <1>10, <1>11, <1>15, <1>16, <1>17 DEF PoolInv

\* A step that leaves all queries where and as they are.
LEMMA QuietKeeps ==
    ASSUME PoolInv, TypeOK', Threads', UNCHANGED <<mem, rq, sq, cq, aq, pq>>,
           poller'.pc \in Holding <=> poller.pc \in Holding,
           poller'.act = poller.act, poller'.pas = poller.pas
    PROVE  PoolInv'
<1>1. PICK loc, idx : Placed(loc, idx)
      BY DEF PoolInv
<1>2. UNCHANGED <<free, malloced, conn, msg, msg_mr, to_free, rq, sq, cq, aq, pq>>
      BY DEF mem
<1>3. /\ FreeSet' = FreeSet /\ AqSet' = AqSet /\ PqSet' = PqSet /\ CqSet' = CqSet
      /\ \A c \in Conn : RqSet(c)' = RqSet(c) /\ SqSet(c)' = SqSet(c)
      BY <1>2 DEF FreeSet, AqSet, PqSet, CqSet, RqSet, SqSet
<1>4. Placed(loc, idx)'
  <2>1. InQueues(loc)' /\ InConns(loc, idx)'
        BY <1>1, <1>2, <1>3 DEF Placed, Located, InQueues, InConns
  <2>2. InHands(loc)'
        BY <1>1 DEF Placed, Located, InHands
  <2>3. InReads(loc, idx)' /\ Fields(loc)'
        BY <1>1, <1>2 DEF Placed, Located, InReads, Fields
  <2> QED BY <1>1, <2>1, <2>2, <2>3 DEF Placed, Located
<1>5. NoRepeats' /\ Entries'
      BY <1>2 DEF PoolInv, NoRepeats, Entries, EntryOK
<1> QED BY <1>4, <1>5 DEF PoolInv

Requests == [Call -> [flag : {0, 1}, prank : Conn \cup {None}, tag : Tag \cup {None}]]

\* The status of a request, and its flag.
LEMMA StatusType ==
    ASSUME NEW r \in Requests, NEW k, NEW n \in Conn \cup {None}, NEW t \in Tag \cup {None}
    PROVE  [r EXCEPT ![k].prank = n, ![k].tag = t] \in Requests
<1>1. CASE k \in Call
  <2>1. [r EXCEPT ![k].prank = n] \in Requests
        BY <1>1 DEF Requests
  <2> DEFINE r2 == [r EXCEPT ![k].prank = n]
  <2> HIDE DEF r2
  <2>2. r2 \in Requests
        BY <2>1 DEF r2
  <2>3. [r2 EXCEPT ![k].tag = t] \in Requests
        BY <1>1, <2>2 DEF Requests
  <2> QED BY <2>3 DEF r2
<1>2. CASE k \notin Call
      BY <1>2 DEF Requests
<1> QED BY <1>1, <1>2

\* A request whose flag is set stays a request.
LEMMA FlagType ==
    ASSUME NEW r \in Requests, NEW k, NEW f \in {0, 1}
    PROVE  [r EXCEPT ![k].flag = f] \in Requests
<1>1. CASE k \in Call
      BY <1>1 DEF Requests
<1>2. CASE k \notin Call
      BY <1>2 DEF Requests
<1> QED BY <1>1, <1>2

\* The status that irecv copies from a freed query is one of a message.
LEMMA IrecvStatusKeeps ==
    ASSUME PoolInv, IrecvStatus
    PROVE  PoolInv'
<1>1. TypeOK /\ Threads
      BY DEF PoolInv
<1>2. /\ UNCHANGED <<mem, rq, sq, cq, aq, pq>>
      /\ UNCHANGED <<send_req_q, poller, called, wire, owed, arrivals>>
      /\ app.pc = "irecv" /\ app' = Idle
      /\ req' = [req EXCEPT ![app.pas].prank = msg[app.act].rank,
                            ![app.pas].tag = msg[app.act].tag]
      BY DEF IrecvStatus, env
<1>3. msg[app.act].rank \in Conn \cup {None} /\ msg[app.act].tag \in Tag \cup {None}
      BY <1>1, <1>2 DEF TypeOK, Threads, Message
<1>4. /\ app' \in [pc : {"idle", "irecv"}, act : Query \cup {None}, pas : RecvCall \cup {None}]
      /\ app'.pc = "idle"
      BY <1>2 DEF Idle
<1>5. req' \in Requests
  <2>1. req \in Requests
        BY <1>1 DEF TypeOK, Requests
  <2> QED BY <1>2, <1>3, <2>1, StatusType
<1>6. TypeOK'
      BY <1>1, <1>2, <1>4, <1>5 DEF TypeOK, Requests, mem
<1>7. Threads'
      BY <1>1, <1>2, <1>4 DEF Threads, mem
<1> QED BY <1>2, <1>6, <1>7, QuietKeeps

\* The peers send what they send: no query of this process is touched.
LEMMA PeerSendKeeps ==
    ASSUME PoolInv, NEW c \in Conn, NEW t \in Tag, NEW o \in Opcode, PeerSend(c, t, o)
    PROVE  PoolInv'
<1>1. TypeOK /\ Threads
      BY DEF PoolInv
<1>2. PICK m : m = [Blank EXCEPT !.opcode = o, !.tag = t]
      OBVIOUS
<1>3. m \in Message /\ m.tag # FMI_ANY_TAG
      BY <1>2, PoolAssumption DEF Blank, Message, Opcode
<1>4. /\ UNCHANGED <<mem, rq, sq, cq, aq, pq>>
      /\ UNCHANGED <<send_req_q, poller, app, called, req, owed>>
      /\ arrivals < MaxArrivals /\ arrivals' = arrivals + 1
      /\ wire' = [wire EXCEPT ![c] = Append(wire[c], m)]
      BY <1>2 DEF PeerSend, calls
<1>5. /\ Append(wire[c], m) \in Seq(Message)
      /\ Range(Append(wire[c], m)) = Range(wire[c]) \cup {m}
      BY <1>1, <1>3, PutLast DEF TypeOK
<1>6. wire' \in [Conn -> Seq(Message)] /\ arrivals' \in 0 .. MaxArrivals
      BY <1>1, <1>4, <1>5, PoolAssumption DEF TypeOK
<1>7. TypeOK'
      BY <1>1, <1>4, <1>6 DEF TypeOK, mem
<1>8. \A d \in Conn : \A x \in Range(wire'[d]) : x \in Range(wire[d]) \/ x = m
      BY <1>1, <1>4, <1>5 DEF TypeOK
<1>9. Threads'
      BY <1>1, <1>3, <1>4, <1>8 DEF Threads, mem
<1> QED BY <1>4, <1>7, <1>9, QuietKeeps

\* The FIN of a peer changes the wire only.
LEMMA PeerFinKeeps ==
    ASSUME PoolInv, NEW c \in Conn, PeerFin(c)
    PROVE  PoolInv'
<1>1. TypeOK /\ Threads
      BY DEF PoolInv
<1>2. PICK m : m = [Blank EXCEPT !.type = "FIN", !.opcode = "RDMA_READ"]
      OBVIOUS
<1>3. m \in Message /\ m.tag # FMI_ANY_TAG
  <2>1. m.tag = None /\ m \in Message
        BY <1>2 DEF Blank, Message, Opcode
  <2> QED BY <2>1, PoolAssumption
<1>4. /\ UNCHANGED <<mem, rq, sq, cq, aq, pq>>
      /\ UNCHANGED <<send_req_q, poller, app, called, req, arrivals>>
      /\ owed[c] > 0 /\ owed' = [owed EXCEPT ![c] = owed[c] - 1]
      /\ wire' = [wire EXCEPT ![c] = Append(wire[c], m)]
      BY <1>2 DEF PeerFin, calls
<1>5. /\ Append(wire[c], m) \in Seq(Message)
      /\ Range(Append(wire[c], m)) = Range(wire[c]) \cup {m}
      BY <1>1, <1>3, PutLast DEF TypeOK
<1>6. wire' \in [Conn -> Seq(Message)] /\ owed' \in [Conn -> Nat]
      BY <1>1, <1>4, <1>5, SMTT(60) DEF TypeOK
<1>7. TypeOK'
      BY <1>1, <1>4, <1>6 DEF TypeOK, mem
<1>8. \A d \in Conn : \A x \in Range(wire'[d]) : x \in Range(wire[d]) \/ x = m
      BY <1>1, <1>4, <1>5 DEF TypeOK
<1>9. Threads'
      BY <1>1, <1>3, <1>4, <1>8 DEF Threads, mem
<1> QED BY <1>4, <1>7, <1>9, QuietKeeps

\* fdmi_verbs_irecv that finds nothing: a query without a connection goes from
\* the pool to pq.
LEMMA IrecvWaitsKeeps ==
    ASSUME PoolInv, NEW k \in RecvCall, NEW t \in Tag \cup {FMI_ANY_TAG}, app.pc = "idle",
           IrecvWaits(k, t), called' = called \cup {k},
           UNCHANGED <<rq, cq, send_req_q, poller, env>>
    PROVE  PoolInv'
<1>1. PICK loc, idx : Placed(loc, idx)
      BY DEF PoolInv
<1>2. TypeOK /\ NoRepeats /\ Entries /\ Threads
      BY DEF PoolInv
<1>3. PICK q, m, mr : /\ q = Created(None) /\ m = [Blank EXCEPT !.tag = t]
                      /\ mr = CreatedMr(None)
      OBVIOUS
<1>4. /\ Fill(None, None, mr, k, None, m) /\ TakeQuery(None)
      /\ pq' = Append(pq, q) /\ UNCHANGED <<aq, sq, app, from>>
      /\ req' = [req EXCEPT ![k].flag = 0] /\ None \in Conn \cup {None}
      BY <1>3 DEF IrecvWaits, Fill
<1>5. /\ q \in Query /\ loc[q] \in {"new", "free"}
      /\ free' \in Seq(Query) /\ IsInjective(free') /\ FreeSet' = FreeSet \ {q}
      /\ malloced' \in 0 .. MaxQueries
      /\ \A x \in Query : x > malloced' <=> x > malloced /\ x # q
      /\ conn[q] = None /\ mr \in BOOLEAN
      BY <1>1, <1>2, <1>3, <1>4, Creates
<1>6. m \in Message
      BY <1>3 DEF Blank, Message, Opcode
<1>7. Filled(q, None, mr, None, m)
  <2>1. k \in Call \cup {None} /\ Created(None) \in Query /\ None \in Query \cup {None}
        BY <1>3, <1>5 DEF Call
  <2> QED BY <1>2, <1>3, <1>4, <1>5, <1>6, <2>1, Fills
<1>8. pq' \in Seq(Query) /\ IsInjective(pq') /\ PqSet' = PqSet \cup {q}
  <2>1. q \notin PqSet
        BY <1>1, <1>5 DEF Placed, Located, InQueues
  <2> QED BY <1>2, <1>4, <1>5, <2>1, PutLast DEF TypeOK, NoRepeats, PqSet
<1>9. /\ rq' = rq /\ cq' = cq /\ aq' = aq /\ sq' = sq /\ poller' = poller /\ app' = app
      /\ wire' = wire /\ owed' = owed /\ arrivals' = arrivals /\ send_req_q' = send_req_q
      BY <1>4 DEF env
<1>10. TypeOK'
  <2>1. called' \subseteq Call
        BY <1>2 DEF TypeOK, Call
  <2>2. req' \in Requests
        BY <1>2, <1>4, FlagType DEF TypeOK, Requests
  <2> QED BY <1>2, <1>5, <1>7, <1>8, <1>9, <2>1, <2>2 DEF TypeOK, Requests, Filled
<1>11. NoRepeats'
      BY <1>2, <1>5, <1>8, <1>9 DEF NoRepeats
<1>12. /\ AqSet' = AqSet /\ CqSet' = CqSet
       /\ \A d \in Conn : RqSet(d)' = RqSet(d) /\ SqSet(d)' = SqSet(d)
      BY <1>9 DEF AqSet, CqSet, RqSet, SqSet
<1>13. loc \in [Query -> Kind] /\ idx \in [Query -> Nat] /\ Located(loc, idx) /\ Fields(loc)
      BY <1>1 DEF Placed
<1>14. PICK l : l = [loc EXCEPT ![q] = "pq"]
      OBVIOUS
<1>15. Placed(l, idx)'
  <2>1. l \in [Query -> Kind]
        BY <1>13, <1>14 DEF Kind
  <2>2. \A x \in Query : l[x] = IF x = q THEN "pq" ELSE loc[x]
        BY <1>13, <1>14
  <2>3. InQueues(l)'
        BY <1>5, <1>8, <1>12, <1>13, <2>2 DEF Located, InQueues
  <2>4. InConns(l, idx)'
        BY <1>5, <1>12, <1>13, <2>2 DEF Located, InConns
  <2>5. InHands(l)'
        BY <1>5, <1>9, <1>13, <2>2 DEF Located, InHands
  <2>6. InReads(l, idx)'
    <3>1. \A z \in Query : to_free'[z] = IF z = q THEN None ELSE to_free[z]
          BY <1>7 DEF Filled
    <3>2. \A x \in Query : l[x] = "read" <=> loc[x] = "read"
          BY <1>5, <2>2
    <3>3. \A x, z \in Query : (l[z] \in {"cq", "sq"} /\ to_free'[z] = x)
                                <=> (loc[z] \in {"cq", "sq"} /\ to_free[z] = x)
          BY <1>5, <2>2, <3>1, NoneIsNoQuery
    <3> QED BY <1>13, <3>2, <3>3, ReadsKept DEF Located
  <2>7. Fields(l)'
    <3>1. \A x \in Query : x # q => /\ conn'[x] = conn[x] /\ msg_mr'[x] = msg_mr[x]
                                    /\ to_free'[x] = to_free[x] /\ msg'[x] = msg[x]
          BY <1>7 DEF Filled
    <3>2. conn'[q] = None
          BY <1>5, <1>7 DEF Filled
    <3> QED BY <1>13, <2>2, <3>1, <3>2 DEF Fields
  <2> QED BY <1>13, <2>1, <2>3, <2>4, <2>5, <2>6, <2>7 DEF Placed, Located
<1>16. Entries'
  <2>1. /\ \A e \in Range(cq) : EntryOK(e)'
        /\ \A d \in Conn : \A e \in Range(sq[d]) : EntryOK(e)'
        BY <1>1, <1>2, <1>5, <1>7, EntriesKept DEF Filled
  <2> QED BY <1>9, <2>1 DEF Entries
<1>17. Threads'
      BY <1>2, <1>5, <1>7, <1>9 DEF Threads, Filled
<1> QED BY <1>10, <1>11, <1>15, <1>16, <1>17 DEF PoolInv

\* fdmi_verbs_irecv that finds an eager message: its query goes from aq to the
\* pool, and is yet to be read.
LEMMA IrecvEagerKeeps ==
    ASSUME PoolInv, NEW k \in RecvCall, NEW i \in DOMAIN aq, NEW q, q = aq[i],
           called' = called \cup {k}, aq' = RemoveAt(aq, i), Destroy(<<q>>),
           req' = [req EXCEPT ![k].flag = 1],
           app' = [pc |-> "irecv", act |-> q, pas |-> k],
           UNCHANGED <<rq, sq, cq, pq, send_req_q, poller, env>>
    PROVE  PoolInv'
<1>1. PICK loc, idx : Placed(loc, idx)
      BY DEF PoolInv
<1>2. TypeOK /\ NoRepeats /\ Entries /\ Threads
      BY DEF PoolInv
<1>3. /\ q \in Query /\ q \in AqSet /\ aq' \in Seq(Query) /\ IsInjective(aq')
      /\ AqSet' = AqSet \ {q}
      BY <1>2, TakeAt DEF TypeOK, NoRepeats, AqSet
<1>4. loc[q] = "aq" /\ q \notin FreeSet
      BY <1>1, <1>3 DEF Placed, Located, InQueues
<1>5. free' \in Seq(Query) /\ IsInjective(free') /\ FreeSet' = FreeSet \cup {q}
      BY <1>2, <1>3, <1>4, Destroys DEF Destroy, FreeSet
<1>6. /\ UNCHANGED <<malloced, conn, msg, msg_mr, request, to_free>>
      /\ UNCHANGED <<rq, sq, cq, pq, send_req_q, poller, wire, owed, arrivals>>
      BY DEF Destroy, env
<1>7. msg[q].tag # FMI_ANY_TAG
      BY <1>1, <1>3, <1>4 DEF Placed, Fields
<1>8. TypeOK'
  <2>1. called' \subseteq Call
        BY <1>2 DEF TypeOK, Call
  <2>2. req' \in Requests
        BY <1>2, FlagType DEF TypeOK, Requests
  <2>3. app' \in [pc : {"idle", "irecv"}, act : Query \cup {None}, pas : RecvCall \cup {None}]
        BY <1>3
  <2> QED BY <1>2, <1>3, <1>5, <1>6, <2>1, <2>2, <2>3 DEF TypeOK, Requests
<1>9. NoRepeats'
      BY <1>2, <1>3, <1>5, <1>6 DEF NoRepeats
<1>10. /\ PqSet' = PqSet /\ CqSet' = CqSet
       /\ \A d \in Conn : RqSet(d)' = RqSet(d) /\ SqSet(d)' = SqSet(d)
      BY <1>6 DEF PqSet, CqSet, RqSet, SqSet
<1>11. loc \in [Query -> Kind] /\ idx \in [Query -> Nat] /\ Located(loc, idx) /\ Fields(loc)
      BY <1>1 DEF Placed
<1>12. PICK l : l = [loc EXCEPT ![q] = "free"]
      OBVIOUS
<1>13. Placed(l, idx)'
  <2>1. l \in [Query -> Kind]
        BY <1>11, <1>12 DEF Kind
  <2>2. \A x \in Query : l[x] = IF x = q THEN "free" ELSE loc[x]
        BY <1>11, <1>12
  <2>3. InQueues(l)'
        BY <1>3, <1>4, <1>5, <1>6, <1>10, <1>11, <2>2 DEF Located, InQueues
  <2>4. InConns(l, idx)' /\ InHands(l)'
        BY <1>3, <1>4, <1>6, <1>10, <1>11, <2>2 DEF Located, InConns, InHands
  <2>5. InReads(l, idx)'
    <3>1. \A x \in Query : l[x] = "read" <=> loc[x] = "read"
          BY <1>4, <2>2
    <3>2. \A x, z \in Query : (l[z] \in {"cq", "sq"} /\ to_free'[z] = x)
                                <=> (loc[z] \in {"cq", "sq"} /\ to_free[z] = x)
          BY <1>4, <1>6, <2>2
    <3> QED BY <1>11, <3>1, <3>2, ReadsKept DEF Located
  <2>6. Fields(l)'
        BY <1>4, <1>6, <1>11, <2>2 DEF Fields
  <2> QED BY <1>11, <2>1, <2>3, <2>4, <2>5, <2>6 DEF Placed, Located
<1>14. Entries'
      BY <1>2, <1>6 DEF Entries, EntryOK
<1>15. Threads'
  <2>1. app'.pc = "irecv" /\ app'.act = q
        OBVIOUS
  <2> QED BY <1>2, <1>3, <1>6, <1>7, <2>1 DEF Threads
<1> QED BY <1>8, <1>9, <1>13, <1>14, <1>15 DEF PoolInv

\* fdmi_verbs_irecv that finds a rendezvous: the active query goes from aq to
\* active_query_to_free of a query without a connection, which is given one and
\* goes from the pool to the send queue.
LEMMA IrecvRndvKeeps ==
    ASSUME PoolInv, NEW k \in RecvCall, NEW t \in Tag \cup {FMI_ANY_TAG},
           NEW i \in DOMAIN aq, NEW q, q = aq[i], app.pc = "idle",
           called' = called \cup {k}, aq' = RemoveAt(aq, i),
           req' = [req EXCEPT ![k].flag = 0],
           Fill(None, conn[q], TRUE, k, q, [Blank EXCEPT !.tag = t]),
           Post(conn[q], "READ", Created(None)),
           UNCHANGED <<rq, cq, pq, send_req_q, poller, app, env>>
    PROVE  PoolInv'
<1>1. PICK loc, idx : Placed(loc, idx)
      BY DEF PoolInv
<1>2. TypeOK /\ NoRepeats /\ Entries /\ Threads
      BY DEF PoolInv
<1>3. PICK z, m, c : /\ z = Created(None) /\ m = [Blank EXCEPT !.tag = t] /\ c = conn[q]
      OBVIOUS
<1>4. /\ q \in Query /\ q \in AqSet /\ aq' \in Seq(Query) /\ IsInjective(aq')
      /\ AqSet' = AqSet \ {q}
      BY <1>2, TakeAt DEF TypeOK, NoRepeats, AqSet
<1>5. loc[q] = "aq" /\ c # None /\ to_free[q] = None /\ msg[q].tag # FMI_ANY_TAG
      BY <1>1, <1>3, <1>4 DEF Placed, Located, InQueues, Fields
<1>6. c \in Conn /\ c \in Nat
      BY <1>2, <1>3, <1>4, <1>5 DEF TypeOK, Conn
<1>7. /\ Fill(None, c, TRUE, k, q, m) /\ TakeQuery(None) /\ Post(c, "READ", z)
      /\ None \in Conn \cup {None}
      BY <1>3 DEF Fill
<1>8. /\ z \in Query /\ loc[z] \in {"new", "free"}
      /\ free' \in Seq(Query) /\ IsInjective(free') /\ FreeSet' = FreeSet \ {z}
      /\ malloced' \in 0 .. MaxQueries
      /\ \A x \in Query : x > malloced' <=> x > malloced /\ x # z
      /\ conn[z] = None
      BY <1>1, <1>2, <1>3, <1>7, Creates
<1>9. m \in Message
      BY <1>3 DEF Blank, Message, Opcode
<1>10. Filled(z, c, TRUE, q, m)
  <2>1. /\ k \in Call \cup {None} /\ Created(None) \in Query /\ q \in Query \cup {None}
        /\ c \in Conn \cup {None} /\ TRUE \in BOOLEAN
        BY <1>3, <1>4, <1>6, <1>8 DEF Call
  <2> QED BY <1>2, <1>3, <1>7, <1>9, <2>1, Fills
<1>11. /\ sq' \in [Conn -> Seq(SendWr)]
       /\ \A d \in Conn : IsInjective(Queries(sq'[d]))
       /\ \A d \in Conn : SqSet(d)' = IF d = c THEN SqSet(d) \cup {z} ELSE SqSet(d)
       /\ \A d \in Conn : \A e \in Range(sq'[d]) :
             e \in Range(sq[d]) \/ e = [op |-> "READ", query |-> z]
      BY <1>1, <1>2, <1>6, <1>7, <1>8, Posts
<1>12. /\ rq' = rq /\ cq' = cq /\ pq' = pq /\ poller' = poller /\ app' = app
       /\ wire' = wire /\ owed' = owed /\ arrivals' = arrivals /\ send_req_q' = send_req_q
      BY DEF env
<1>13. TypeOK'
  <2>1. called' \subseteq Call
        BY <1>2 DEF TypeOK, Call
  <2>2. req' \in Requests
        BY <1>2, FlagType DEF TypeOK, Requests
  <2> QED BY <1>2, <1>4, <1>8, <1>10, <1>11, <1>12, <2>1, <2>2
          DEF TypeOK, Requests, Filled, SendWr
<1>14. NoRepeats'
      BY <1>2, <1>4, <1>8, <1>11, <1>12 DEF NoRepeats
<1>15. /\ PqSet' = PqSet /\ CqSet' = CqSet /\ \A d \in Conn : RqSet(d)' = RqSet(d)
      BY <1>12 DEF PqSet, CqSet, RqSet
<1>16. loc \in [Query -> Kind] /\ idx \in [Query -> Nat] /\ Located(loc, idx) /\ Fields(loc)
      BY <1>1 DEF Placed
<1>17. PICK l, j : /\ l = [loc EXCEPT ![q] = "read", ![z] = "sq"]
                   /\ j = [idx EXCEPT ![q] = z, ![z] = c]
      OBVIOUS
<1>18. q # z /\ \A x \in Query : /\ conn'[x] = IF x = z THEN c ELSE conn[x]
                                 /\ msg_mr'[x] = IF x = z THEN TRUE ELSE msg_mr[x]
                                 /\ to_free'[x] = IF x = z THEN q ELSE to_free[x]
                                 /\ msg'[x] = IF x = z THEN m ELSE msg[x]
      BY <1>5, <1>8, <1>10 DEF Filled
<1>19. Placed(l, j)'
  <2>1. l \in [Query -> Kind] /\ j \in [Query -> Nat]
    <3>1. z \in Nat
          BY <1>8, PoolAssumption DEF Query
    <3> QED BY <1>6, <1>16, <1>17, <3>1 DEF Kind
  <2>2. \A x \in Query :
           /\ l[x] = IF x = z THEN "sq" ELSE IF x = q THEN "read" ELSE loc[x]
           /\ j[x] = IF x = z THEN c ELSE IF x = q THEN z ELSE idx[x]
        BY <1>16, <1>17, <1>18
  <2>3. InQueues(l)'
        BY <1>4, <1>5, <1>8, <1>15, <1>16, <1>18, <2>2 DEF Located, InQueues
  <2>4. InConns(l, j)'
        BY <1>4, <1>5, <1>6, <1>8, <1>11, <1>15, <1>16, <1>18, <2>2, SMTT(60) DEF Located, InConns
  <2>5. InHands(l)'
        BY <1>5, <1>8, <1>12, <1>16, <1>18, <2>2 DEF Located, InHands
  <2>6. InReads(l, j)'
    <3>0. InReads(loc, idx)
          BY <1>16 DEF Located
    <3>1. \A x \in Query : l[x] = "read" => j[x] \in Query
          BY <1>8, <2>2, <3>0 DEF InReads
    <3>2. ASSUME NEW x \in Query, NEW y \in Query
          PROVE  (l[x] = "read" /\ j[x] = y) <=> (l[y] \in {"cq", "sq"} /\ to_free'[y] = x)
      <4>1. (loc[x] = "read" /\ idx[x] = y) <=> (loc[y] \in {"cq", "sq"} /\ to_free[y] = x)
            BY <3>0 DEF InReads
      <4>2. CASE y = z
            BY <1>4, <1>5, <1>8, <1>18, <2>2, <4>1, <4>2
      <4>3. CASE y # z /\ x = q
            BY <1>4, <1>5, <1>8, <1>18, <2>2, <4>1, <4>3
      <4>4. CASE y # z /\ x # q
            BY <1>4, <1>5, <1>8, <1>18, <2>2, <4>1, <4>4
      <4> QED BY <4>2, <4>3, <4>4
    <3> QED BY <3>1, <3>2 DEF InReads
  <2>7. Fields(l)'
    <3>1. ASSUME NEW x \in Query
          PROVE  /\ conn'[x] # None => msg_mr'[x] = TRUE /\ l[x] # "new"
                 /\ l[x] \in {"rq", "sq", "cq", "aq", "act", "read"} => conn'[x] # None
                 /\ l[x] \in {"rq", "aq", "act", "read"} => to_free'[x] = None
                 /\ l[x] \in {"aq", "act", "read"} => msg'[x].tag # FMI_ANY_TAG
      <4>1. CASE x = z
            BY <1>5, <1>18, <2>2, <4>1
      <4>2. CASE x = q
            BY <1>3, <1>5, <1>16, <1>18, <2>2, <4>2 DEF Fields
      <4>3. CASE x # z /\ x # q
            BY <1>16, <1>18, <2>2, <4>3, ZenonT(120) DEF Fields
      <4> QED BY <4>1, <4>2, <4>3
    <3> QED BY <3>1 DEF Fields
  <2> QED BY <2>1, <2>3, <2>4, <2>5, <2>6, <2>7 DEF Placed, Located
<1>20. Entries'
  <2>1. /\ \A e \in Range(cq) : EntryOK(e)'
        /\ \A d \in Conn : \A e \in Range(sq[d]) : EntryOK(e)'
        BY <1>1, <1>2, <1>8, <1>18, EntriesKept
  <2>2. EntryOK([op |-> "READ", query |-> z])'
        BY <1>4, <1>8, <1>18, NoneIsNoQuery DEF EntryOK
  <2> QED BY <1>11, <1>12, <2>1, <2>2 DEF Entries
<1>21. Threads'
      BY <1>2, <1>5, <1>8, <1>12, <1>18 DEF Threads
<1> QED BY <1>13, <1>14, <1>19, <1>20, <1>21 DEF PoolInv

\* fdmi_verbs_irecv
LEMMA IrecvKeeps ==
    ASSUME PoolInv, NEW k \in RecvCall, NEW t \in Tag \cup {FMI_ANY_TAG}, Irecv(k, t)
    PROVE  PoolInv'
<1>1. /\ app.pc = "idle" /\ called' = called \cup {k}
      /\ UNCHANGED <<rq, cq, send_req_q, poller, env>>
      BY DEF Irecv
<1>2. ASSUME NEW i \in DOMAIN aq, IrecvArrived(k, t, i)
      PROVE  PoolInv'
  <2>1. /\ aq' = RemoveAt(aq, i) /\ pq' = pq
        /\ \/ /\ req' = [req EXCEPT ![k].flag = 1] /\ Destroy(<<aq[i]>>)
              /\ app' = [pc |-> "irecv", act |-> aq[i], pas |-> k] /\ UNCHANGED sq
           \/ /\ req' = [req EXCEPT ![k].flag = 0]
              /\ Fill(None, conn[aq[i]], TRUE, k, aq[i], [Blank EXCEPT !.tag = t])
              /\ Post(conn[aq[i]], "READ", Created(None)) /\ UNCHANGED app
        BY <1>2 DEF IrecvArrived
  <2>2. CASE /\ req' = [req EXCEPT ![k].flag = 1] /\ Destroy(<<aq[i]>>)
             /\ app' = [pc |-> "irecv", act |-> aq[i], pas |-> k] /\ UNCHANGED sq
        BY <1>1, <2>1, <2>2, IrecvEagerKeeps
  <2>3. CASE /\ req' = [req EXCEPT ![k].flag = 0]
             /\ Fill(None, conn[aq[i]], TRUE, k, aq[i], [Blank EXCEPT !.tag = t])
             /\ Post(conn[aq[i]], "READ", Created(None)) /\ UNCHANGED app
        BY <1>1, <2>1, <2>3, IrecvRndvKeeps
  <2> QED BY <2>1, <2>2, <2>3
<1> QED BY <1>1, <1>2, IrecvWaitsKeeps DEF Irecv

-----------------------------------------------------------------------------
(* The hardware *)

\* A message is received: a query goes from the receive queue to the
\* completion queue.
LEMMA ArriveKeeps ==
    ASSUME PoolInv, NEW c \in Conn, Arrive(c)
    PROVE  PoolInv'
<1>1. PICK loc, idx : Placed(loc, idx)
      BY DEF PoolInv
<1>2. TypeOK /\ NoRepeats /\ Entries /\ Threads
      BY DEF PoolInv
<1>3. PICK q, m : q = Head(rq[c]) /\ m = Head(wire[c])
      OBVIOUS
<1>4. /\ wire[c] # <<>> /\ rq[c] # <<>>
      /\ msg' = [msg EXCEPT ![q] = m] /\ cq' = Append(cq, [op |-> "RECV", query |-> q])
      /\ wire' = [wire EXCEPT ![c] = Tail(wire[c])] /\ rq' = [rq EXCEPT ![c] = Tail(rq[c])]
      /\ UNCHANGED <<free, malloced, conn, msg_mr, request, to_free, sq, aq, pq>>
      /\ UNCHANGED <<send_req_q, poller, app, called, req, owed, arrivals>>
      BY <1>3 DEF Arrive, calls
<1>5. PICK s, v : s = Tail(rq[c]) /\ v = Tail(wire[c])
      OBVIOUS
<1>6. /\ q \in Query /\ q \in RqSet(c) /\ s \in Seq(Query) /\ IsInjective(s)
      /\ Range(s) = RqSet(c) \ {q}
  <2>1. rq[c] \in Seq(Query) /\ IsInjective(rq[c])
        BY <1>2 DEF TypeOK, NoRepeats
  <2> QED BY <1>3, <1>4, <1>5, <2>1, TakeFirst DEF RqSet
<1>7. /\ m \in Message /\ m \in Range(wire[c]) /\ v \in Seq(Message)
      /\ \A x \in Range(v) : x \in Range(wire[c])
  <2>1. wire[c] \in Seq(Message)
        BY <1>2 DEF TypeOK
  <2> QED BY <1>3, <1>4, <1>5, <2>1, TakeFirst, TailEntries DEF Range
<1>8. m.tag # FMI_ANY_TAG
      BY <1>2, <1>7 DEF Threads
<1>9. /\ loc[q] = "rq" /\ idx[q] = c /\ conn[q] # None /\ to_free[q] = None
      BY <1>1, <1>6 DEF Placed, Located, InConns, Fields
<1>10. PICK w : w = [op |-> "RECV", query |-> q]
      OBVIOUS
<1>11. w \in Wr /\ w.query = q /\ w.op = "RECV"
      BY <1>6, <1>10 DEF Wr
<1>12. /\ cq' \in Seq(Wr) /\ IsInjective(Queries(cq')) /\ CqSet' = CqSet \cup {q}
       /\ \A e \in Range(cq') : e \in Range(cq) \/ e = w
      BY <1>1, <1>2, <1>4, <1>9, <1>10, <1>11, Completes
<1>13. /\ rq' \in [Conn -> Seq(Query)] /\ \A d \in Conn : IsInjective(rq'[d])
       /\ \A d \in Conn : RqSet(d)' = IF d = c THEN RqSet(d) \ {q} ELSE RqSet(d)
  <2>1. rq \in [Conn -> Seq(Query)] /\ \A d \in Conn : IsInjective(rq[d])
        BY <1>2 DEF TypeOK, NoRepeats
  <2>2. /\ rq' \in [Conn -> Seq(Query)]
        /\ \A d \in Conn : rq'[d] = IF d = c THEN s ELSE rq[d]
        BY <1>4, <1>5, <1>6, <2>1
  <2> QED BY <1>6, <2>1, <2>2 DEF RqSet
<1>14. /\ wire' \in [Conn -> Seq(Message)]
       /\ \A d \in Conn : \A x \in Range(wire'[d]) : x \in Range(wire[d])
  <2>1. wire \in [Conn -> Seq(Message)]
        BY <1>2 DEF TypeOK
  <2>2. /\ wire' \in [Conn -> Seq(Message)]
        /\ \A d \in Conn : wire'[d] = IF d = c THEN v ELSE wire[d]
        BY <1>4, <1>5, <1>7, <2>1
  <2> QED BY <1>7, <2>2
<1>15. msg' \in [Query -> Message] /\ \A x \in Query : msg'[x] = IF x = q THEN m ELSE msg[x]
      BY <1>2, <1>4, <1>6, <1>7 DEF TypeOK
<1>16. TypeOK'
      BY <1>2, <1>4, <1>12, <1>13, <1>14, <1>15 DEF TypeOK, Wr
<1>17. NoRepeats'
      BY <1>2, <1>4, <1>12, <1>13 DEF NoRepeats
<1>18. /\ FreeSet' = FreeSet /\ AqSet' = AqSet /\ PqSet' = PqSet
       /\ \A d \in Conn : SqSet(d)' = SqSet(d)
      BY <1>4 DEF FreeSet, AqSet, PqSet, SqSet
<1>19. loc \in [Query -> Kind] /\ idx \in [Query -> Nat] /\ Located(loc, idx) /\ Fields(loc)
      BY <1>1 DEF Placed
<1>20. PICK l : l = [loc EXCEPT ![q] = "cq"]
      OBVIOUS
<1>21. Placed(l, idx)'
  <2>1. l \in [Query -> Kind]
        BY <1>19, <1>20 DEF Kind
  <2>2. \A x \in Query : l[x] = IF x = q THEN "cq" ELSE loc[x]
        BY <1>19, <1>20
  <2>3. InQueues(l)'
        BY <1>4, <1>6, <1>9, <1>12, <1>18, <1>19, <2>2 DEF Located, InQueues
  <2>4. InConns(l, idx)'
    <3>1. InConns(loc, idx)
          BY <1>19 DEF Located
    <3>2. \A x \in Query : l[x] \in {"rq", "sq"} => idx[x] \in Conn
          BY <2>2, <3>1 DEF InConns
    <3>3. ASSUME NEW x \in Query, NEW d \in Conn
          PROVE  (l[x] = "rq" /\ idx[x] = d) <=> x \in RqSet(d)'
          BY <1>9, <1>13, <2>2, <3>1 DEF InConns
    <3>4. \A x \in Query, d \in Conn : (l[x] = "sq" /\ idx[x] = d) <=> x \in SqSet(d)'
          BY <1>9, <1>18, <2>2, <3>1 DEF InConns
    <3> QED BY <3>2, <3>3, <3>4 DEF InConns
  <2>5. InHands(l)'
        BY <1>4, <1>9, <1>19, <2>2 DEF Located, InHands
  <2>6. InReads(l, idx)'
    <3>1. \A x \in Query : l[x] = "read" <=> loc[x] = "read"
          BY <1>9, <2>2
    <3>2. \A x, z \in Query : (l[z] \in {"cq", "sq"} /\ to_free'[z] = x)
                                <=> (loc[z] \in {"cq", "sq"} /\ to_free[z] = x)
          BY <1>4, <1>9, <2>2, NoneIsNoQuery
    <3> QED BY <1>19, <3>1, <3>2, ReadsKept DEF Located
  <2>7. Fields(l)'
        BY <1>4, <1>9, <1>15, <1>19, <2>2 DEF Fields
  <2> QED BY <1>19, <2>1, <2>3, <2>4, <2>5, <2>6, <2>7 DEF Placed, Located
<1>22. Entries'
  <2>1. /\ \A e \in Range(cq) : EntryOK(e)'
        /\ \A d \in Conn : \A e \in Range(sq[d]) : EntryOK(e)'
        BY <1>1, <1>2, <1>4, <1>9, <1>15, EntriesKept
  <2>2. EntryOK(w)'
        BY <1>4, <1>6, <1>8, <1>9, <1>11, <1>15 DEF EntryOK
  <2> QED BY <1>4, <1>12, <2>1, <2>2 DEF Entries
<1>23. Threads'
      BY <1>2, <1>4, <1>8, <1>14, <1>15 DEF Threads
<1> QED BY <1>16, <1>17, <1>21, <1>22, <1>23 DEF PoolInv

\* A work request is executed: a query goes from the send queue to the
\* completion queue.
LEMMA ExecuteKeeps ==
    ASSUME PoolInv, NEW c \in Conn, Execute(c)
    PROVE  PoolInv'
<1>1. PICK loc, idx : Placed(loc, idx)
      BY DEF PoolInv
<1>2. TypeOK /\ NoRepeats /\ Entries /\ Threads
      BY DEF PoolInv
<1>3. PICK w, q, s : w = Head(sq[c]) /\ q = w.query /\ s = Tail(sq[c])
      OBVIOUS
<1>4. /\ sq[c] # <<>> /\ cq' = Append(cq, w) /\ sq' = [sq EXCEPT ![c] = s]
      /\ UNCHANGED <<free, malloced, conn, msg, msg_mr, request, to_free, rq, aq, pq>>
      /\ UNCHANGED <<send_req_q, poller, app, called, req, wire, arrivals>>
      BY <1>3 DEF Execute, calls, mem
<1>5. owed' \in [Conn -> Nat]
  <2>1. PICK b \in BOOLEAN : owed' = [owed EXCEPT ![c] = IF b THEN owed[c] + 1 ELSE owed[c]]
    <3> DEFINE b == /\ Head(sq[c]).op = "SEND" /\ msg[Head(sq[c]).query].type = "INIT"
                    /\ msg[Head(sq[c]).query].opcode = "RDMA_READ"
    <3>1. b \in BOOLEAN /\ owed' = [owed EXCEPT ![c] = IF b THEN owed[c] + 1 ELSE owed[c]]
          BY DEF Execute
    <3> QED BY <3>1
  <2> QED BY <1>2, <2>1 DEF TypeOK
<1>6. /\ w \in Wr /\ w \in Range(sq[c]) /\ q \in Query /\ q \in SqSet(c)
      /\ s \in Seq(SendWr) /\ IsInjective(Queries(s))
      /\ Range(Queries(s)) = SqSet(c) \ {q} /\ \A e \in Range(s) : e \in Range(sq[c])
  <2>1. sq[c] \in Seq(Wr) /\ sq[c] \in Seq(SendWr) /\ IsInjective(Queries(sq[c]))
        BY <1>1, <1>2, EntryQueries DEF NoRepeats
  <2>2. s \in Seq(SendWr)
        BY <1>3, <1>4, <2>1, TailEntries
  <2> QED BY <1>3, <1>4, <2>1, <2>2, WrTake DEF SqSet
<1>7. loc[q] = "sq" /\ idx[q] = c /\ EntryOK(w) /\ w.op # "RECV"
  <2>1. loc[q] = "sq" /\ idx[q] = c
        BY <1>1, <1>6 DEF Placed, Located, InConns
  <2> QED BY <1>1, <1>2, <1>6, <2>1, EntryQueries DEF Entries
<1>8. /\ cq' \in Seq(Wr) /\ IsInjective(Queries(cq')) /\ CqSet' = CqSet \cup {q}
      /\ \A e \in Range(cq') : e \in Range(cq) \/ e = w
      BY <1>1, <1>2, <1>3, <1>4, <1>6, <1>7, Completes
<1>9. /\ sq' \in [Conn -> Seq(SendWr)] /\ \A d \in Conn : IsInjective(Queries(sq'[d]))
      /\ \A d \in Conn : SqSet(d)' = IF d = c THEN SqSet(d) \ {q} ELSE SqSet(d)
      /\ \A d \in Conn : \A e \in Range(sq'[d]) : e \in Range(sq[d])
  <2>1. sq \in [Conn -> Seq(SendWr)] /\ \A d \in Conn : IsInjective(Queries(sq[d]))
        BY <1>2 DEF TypeOK, NoRepeats, SendWr
  <2>2. /\ sq' \in [Conn -> Seq(SendWr)]
        /\ \A d \in Conn : sq'[d] = IF d = c THEN s ELSE sq[d]
        BY <1>4, <1>6, <2>1
  <2> QED BY <1>6, <2>1, <2>2 DEF SqSet
<1>10. TypeOK'
      BY <1>2, <1>4, <1>5, <1>8, <1>9 DEF TypeOK, Wr, SendWr
<1>11. NoRepeats'
      BY <1>2, <1>4, <1>8, <1>9 DEF NoRepeats
<1>12. /\ FreeSet' = FreeSet /\ AqSet' = AqSet /\ PqSet' = PqSet
       /\ \A d \in Conn : RqSet(d)' = RqSet(d)
      BY <1>4 DEF FreeSet, AqSet, PqSet, RqSet
<1>13. loc \in [Query -> Kind] /\ idx \in [Query -> Nat] /\ Located(loc, idx) /\ Fields(loc)
      BY <1>1 DEF Placed
<1>14. PICK l : l = [loc EXCEPT ![q] = "cq"]
      OBVIOUS
<1>15. Placed(l, idx)'
  <2>1. l \in [Query -> Kind]
        BY <1>13, <1>14 DEF Kind
  <2>2. \A x \in Query : l[x] = IF x = q THEN "cq" ELSE loc[x]
        BY <1>13, <1>14
  <2>3. InQueues(l)'
        BY <1>4, <1>6, <1>7, <1>8, <1>12, <1>13, <2>2 DEF Located, InQueues
  <2>4. InConns(l, idx)'
    <3>1. InConns(loc, idx)
          BY <1>13 DEF Located
    <3>2. \A x \in Query : l[x] \in {"rq", "sq"} => idx[x] \in Conn
          BY <2>2, <3>1 DEF InConns
    <3>3. \A x \in Query, d \in Conn : (l[x] = "rq" /\ idx[x] = d) <=> x \in RqSet(d)'
          BY <1>7, <1>12, <2>2, <3>1 DEF InConns
    <3>4. ASSUME NEW x \in Query, NEW d \in Conn
          PROVE  (l[x] = "sq" /\ idx[x] = d) <=> x \in SqSet(d)'
          BY <1>7, <1>9, <2>2, <3>1 DEF InConns
    <3> QED BY <3>2, <3>3, <3>4 DEF InConns
  <2>5. InHands(l)'
        BY <1>4, <1>7, <1>13, <2>2 DEF Located, InHands
  <2>6. InReads(l, idx)'
    <3>1. \A x \in Query : l[x] = "read" <=> loc[x] = "read"
          BY <1>7, <2>2
    <3>2. \A x, z \in Query : (l[z] \in {"cq", "sq"} /\ to_free'[z] = x)
                                <=> (loc[z] \in {"cq", "sq"} /\ to_free[z] = x)
          BY <1>4, <1>7, <2>2
    <3> QED BY <1>13, <3>1, <3>2, ReadsKept DEF Located
  <2>7. Fields(l)'
        BY <1>4, <1>7, <1>13, <2>2 DEF Fields
  <2> QED BY <1>13, <2>1, <2>3, <2>4, <2>5, <2>6, <2>7 DEF Placed, Located
<1>16. Entries'
  <2>1. \A e : EntryOK(e)' <=> EntryOK(e)
        BY <1>4 DEF EntryOK
  <2> QED BY <1>2, <1>7, <1>8, <1>9, <2>1 DEF Entries
<1>17. Threads'
      BY <1>2, <1>4 DEF Threads
<1> QED BY <1>10, <1>11, <1>15, <1>16, <1>17 DEF PoolInv

-----------------------------------------------------------------------------
(* The completion-queue thread *)

\* The poll loop writes the rank of the peer.
LEMMA RankedType ==
    ASSUME TypeOK, NEW q \in Query
    PROVE  /\ Ranked(q) \in [Query -> Message]
           /\ \A x \in Query : /\ Ranked(q)[x].tag = msg[x].tag
                               /\ Ranked(q)[x].opcode = msg[x].opcode
                               /\ x # q => Ranked(q)[x] = msg[x]
<1>1. msg \in [Query -> Message] /\ conn[q] \in Conn \cup {None}
      BY DEF TypeOK
<1>2. [msg[q] EXCEPT !.rank = conn[q]] \in Message
      BY <1>1 DEF Message
<1>3. Ranked(q) = [msg EXCEPT ![q] = [msg[q] EXCEPT !.rank = conn[q]]]
      BY <1>1 DEF Ranked
<1>4. [msg[q] EXCEPT !.rank = conn[q]].tag = msg[q].tag
      BY <1>1 DEF Message
<1>5. [msg[q] EXCEPT !.rank = conn[q]].opcode = msg[q].opcode
      BY <1>1 DEF Message
<1> QED BY <1>1, <1>2, <1>3, <1>4, <1>5

\* fdmi_on_recv_cq_wc_recv, a receive is waiting: the active query goes from
\* the completion queue and the passive one from pq into the poller's hands.
LEMMA MatchKeeps ==
    ASSUME PoolInv, NEW q, q = Head(cq).query, NEW i \in DOMAIN pq,
           poller.pc = "idle", cq # <<>>, Head(cq).op = "RECV", cq' = Tail(cq),
           msg' = Ranked(q), pq' = RemoveAt(pq, i),
           poller' = [pc |-> msg[q].opcode, act |-> q, pas |-> pq[i]],
           UNCHANGED <<free, malloced, conn, msg_mr, request, to_free, rq, sq, aq>>,
           UNCHANGED <<send_req_q, app, called, req, env>>
    PROVE  PoolInv'
<1>1. PICK loc, idx : Placed(loc, idx)
      BY DEF PoolInv
<1>2. TypeOK /\ NoRepeats /\ Entries /\ Threads
      BY DEF PoolInv
<1>3. PICK z : z = pq[i]
      OBVIOUS
<1>4. /\ q \in Query /\ loc[q] = "cq" /\ EntryOK(Head(cq)) /\ cq' \in Seq(Wr)
      /\ IsInjective(Queries(cq')) /\ CqSet' = CqSet \ {q}
      /\ \A e \in Range(cq') : e \in Range(cq)
      BY <1>1, <1>2, Polls
<1>5. /\ z \in Query /\ z \in PqSet /\ pq' \in Seq(Query) /\ IsInjective(pq')
      /\ PqSet' = PqSet \ {z}
      BY <1>2, <1>3, TakeAt DEF TypeOK, NoRepeats, PqSet
<1>6. to_free[q] = None /\ msg[q].tag # FMI_ANY_TAG
      BY <1>4 DEF EntryOK
<1>7. loc[z] = "pq" /\ conn[q] # None
      BY <1>1, <1>4, <1>5 DEF Placed, Located, InQueues, Fields
<1>8. /\ poller'.pc \in Holding /\ poller'.act = q /\ poller'.pas = z
      /\ poller' \in [pc : Holding \cup {"idle", "repost"},
                      act : Query \cup {None}, pas : Query \cup {None}]
  <2>1. msg[q].opcode \in Opcode
        BY <1>2, <1>4 DEF TypeOK, Message
  <2> QED BY <1>3, <1>4, <1>5, <2>1 DEF Opcode, Holding
<1>9. /\ msg' \in [Query -> Message]
      /\ \A x \in Query : msg'[x].tag = msg[x].tag
      BY <1>2, <1>4, RankedType
<1>10. UNCHANGED <<wire, owed, arrivals>>
      BY DEF env
<1>11. TypeOK'
      BY <1>2, <1>4, <1>5, <1>8, <1>9, <1>10 DEF TypeOK, Wr
<1>12. NoRepeats'
      BY <1>2, <1>4, <1>5 DEF NoRepeats
<1>13. /\ FreeSet' = FreeSet /\ AqSet' = AqSet
       /\ \A d \in Conn : RqSet(d)' = RqSet(d) /\ SqSet(d)' = SqSet(d)
      BY DEF FreeSet, AqSet, RqSet, SqSet
<1>14. loc \in [Query -> Kind] /\ idx \in [Query -> Nat] /\ Located(loc, idx) /\ Fields(loc)
      BY <1>1 DEF Placed
<1>15. PICK l : l = [loc EXCEPT ![q] = "act", ![z] = "pas"]
      OBVIOUS
<1>16. Placed(l, idx)'
  <2>1. l \in [Query -> Kind] /\ q # z
        BY <1>4, <1>7, <1>14, <1>15 DEF Kind
  <2>2. \A x \in Query : l[x] = IF x = z THEN "pas" ELSE IF x = q THEN "act" ELSE loc[x]
        BY <1>14, <1>15, <2>1
  <2>3. InQueues(l)'
        BY <1>4, <1>5, <1>7, <1>13, <1>14, <2>1, <2>2 DEF Located, InQueues
  <2>4. InConns(l, idx)'
        BY <1>4, <1>7, <1>13, <1>14, <2>2 DEF Located, InConns
  <2>5. InHands(l)'
    <3>1. poller.pc \notin Holding
          BY DEF Holding
    <3>2. \A x \in Query : loc[x] # "act" /\ loc[x] # "pas"
          BY <1>14, <3>1 DEF Located, InHands
    <3> QED BY <1>8, <2>1, <2>2, <3>2 DEF InHands
  <2>6. InReads(l, idx)'
    <3>1. \A x \in Query : l[x] = "read" <=> loc[x] = "read"
          BY <1>4, <1>7, <2>2
    <3>2. \A x, y \in Query : (l[y] \in {"cq", "sq"} /\ to_free'[y] = x)
                                <=> (loc[y] \in {"cq", "sq"} /\ to_free[y] = x)
          BY <1>4, <1>6, <1>7, <2>2, NoneIsNoQuery
    <3> QED BY <1>14, <3>1, <3>2, ReadsKept DEF Located
  <2>7. Fields(l)'
    <3>1. ASSUME NEW x \in Query
          PROVE  /\ conn[x] # None => msg_mr[x] = TRUE /\ l[x] # "new"
                 /\ l[x] \in {"rq", "sq", "cq", "aq", "act", "read"} => conn[x] # None
                 /\ l[x] \in {"rq", "aq", "act", "read"} => to_free[x] = None
                 /\ l[x] \in {"aq", "act", "read"} => msg[x].tag # FMI_ANY_TAG
          BY <1>6, <1>7, <1>14, <2>2 DEF Fields
    <3> QED BY <1>9, <3>1 DEF Fields
  <2> QED BY <1>14, <2>1, <2>3, <2>4, <2>5, <2>6, <2>7 DEF Placed, Located
<1>17. Entries'
  <2>1. /\ \A e \in Range(cq) : EntryOK(e)'
        /\ \A d \in Conn : \A e \in Range(sq[d]) : EntryOK(e)'
        BY <1>1, <1>2, <1>9, EntriesKept
  <2> QED BY <1>4, <2>1 DEF Entries
<1>18. Threads'
  <2>1. poller'.pc # "repost"
        BY <1>8 DEF Holding
  <2> QED BY <1>2, <1>4, <1>5, <1>8, <1>9, <1>10, <2>1 DEF Threads
<1> QED BY <1>11, <1>12, <1>16, <1>17, <1>18 DEF PoolInv

\* fdmi_on_recv_cq_wc_recv, nothing is waiting: the query goes from the
\* completion queue to aq, and its connection gets another receive.
LEMMA NoMatchKeeps ==
    ASSUME PoolInv, NEW q, q = Head(cq).query,
           poller.pc = "idle", cq # <<>>, Head(cq).op = "RECV", cq' = Tail(cq),
           msg' = Ranked(q), aq' = Append(aq, q),
           poller' = [pc |-> "repost", act |-> q, pas |-> None],
           UNCHANGED <<free, malloced, conn, msg_mr, request, to_free, rq, sq, pq>>,
           UNCHANGED <<send_req_q, app, called, req, env>>
    PROVE  PoolInv'
<1>1. PICK loc, idx : Placed(loc, idx)
      BY DEF PoolInv
<1>2. TypeOK /\ NoRepeats /\ Entries /\ Threads
      BY DEF PoolInv
<1>4. /\ q \in Query /\ loc[q] = "cq" /\ EntryOK(Head(cq)) /\ cq' \in Seq(Wr)
      /\ IsInjective(Queries(cq')) /\ CqSet' = CqSet \ {q}
      /\ \A e \in Range(cq') : e \in Range(cq)
      BY <1>1, <1>2, Polls
<1>5. to_free[q] = None /\ msg[q].tag # FMI_ANY_TAG
      BY <1>4 DEF EntryOK
<1>6. q \notin AqSet /\ conn[q] # None
      BY <1>1, <1>4 DEF Placed, Located, InQueues, Fields
<1>7. aq' \in Seq(Query) /\ IsInjective(aq') /\ AqSet' = AqSet \cup {q}
      BY <1>2, <1>4, <1>6, PutLast, SMTT(60) DEF TypeOK, NoRepeats, AqSet
<1>8. /\ poller'.pc = "repost" /\ poller'.act = q
      /\ poller' \in [pc : Holding \cup {"idle", "repost"},
                      act : Query \cup {None}, pas : Query \cup {None}]
      BY <1>4
<1>9. /\ msg' \in [Query -> Message]
      /\ \A x \in Query : msg'[x].tag = msg[x].tag
      BY <1>2, <1>4, RankedType
<1>10. UNCHANGED <<wire, owed, arrivals>>
      BY DEF env
<1>11. TypeOK'
      BY <1>2, <1>4, <1>7, <1>8, <1>9, <1>10 DEF TypeOK, Wr
<1>12. NoRepeats'
      BY <1>2, <1>4, <1>7 DEF NoRepeats
<1>13. /\ FreeSet' = FreeSet /\ PqSet' = PqSet
       /\ \A d \in Conn : RqSet(d)' = RqSet(d) /\ SqSet(d)' = SqSet(d)
      BY DEF FreeSet, PqSet, RqSet, SqSet
<1>14. loc \in [Query -> Kind] /\ idx \in [Query -> Nat] /\ Located(loc, idx) /\ Fields(loc)
      BY <1>1 DEF Placed
<1>15. PICK l : l = [loc EXCEPT ![q] = "aq"]
      OBVIOUS
<1>16. Placed(l, idx)'
  <2>1. l \in [Query -> Kind]
        BY <1>4, <1>14, <1>15 DEF Kind
  <2>2. \A x \in Query : l[x] = IF x = q THEN "aq" ELSE loc[x]
        BY <1>14, <1>15
  <2>3. InQueues(l)'
        BY <1>4, <1>7, <1>13, <1>14, <2>2 DEF Located, InQueues
  <2>4. InConns(l, idx)'
        BY <1>4, <1>13, <1>14, <2>2 DEF Located, InConns
  <2>5. InHands(l)'
        BY <1>4, <1>8, <1>14, <2>2 DEF Located, InHands, Holding
  <2>6. InReads(l, idx)'
    <3>1. \A x \in Query : l[x] = "read" <=> loc[x] = "read"
          BY <1>4, <2>2
    <3>2. \A x, y \in Query : (l[y] \in {"cq", "sq"} /\ to_free'[y] = x)
                                <=> (loc[y] \in {"cq", "sq"} /\ to_free[y] = x)
          BY <1>4, <1>5, <2>2, NoneIsNoQuery
    <3> QED BY <1>14, <3>1, <3>2, ReadsKept DEF Located
  <2>7. Fields(l)'
    <3>1. ASSUME NEW x \in Query
          PROVE  /\ conn[x] # None => msg_mr[x] = TRUE /\ l[x] # "new"
                 /\ l[x] \in {"rq", "sq", "cq", "aq", "act", "read"} => conn[x] # None
                 /\ l[x] \in {"rq", "aq", "act", "read"} => to_free[x] = None
                 /\ l[x] \in {"aq", "act", "read"} => msg[x].tag # FMI_ANY_TAG
          BY <1>5, <1>6, <1>14, <2>2 DEF Fields
    <3> QED BY <1>9, <3>1 DEF Fields
  <2> QED BY <1>14, <2>1, <2>3, <2>4, <2>5, <2>6, <2>7 DEF Placed, Located
<1>17. Entries'
  <2>1. /\ \A e \in Range(cq) : EntryOK(e)'
        /\ \A d \in Conn : \A e \in Range(sq[d]) : EntryOK(e)'
        BY <1>1, <1>2, <1>9, EntriesKept
  <2> QED BY <1>4, <2>1 DEF Entries
<1>18. Threads'
  <2>1. poller'.pc \notin Holding
        BY <1>8 DEF Holding
  <2> QED BY <1>2, <1>4, <1>6, <1>8, <1>9, <1>10, <2>1 DEF Threads
<1> QED BY <1>11, <1>12, <1>16, <1>17, <1>18 DEF PoolInv

\* fdmi_on_recv_cq_wc_recv
LEMMA PollInitKeeps ==
    ASSUME PoolInv, PollInit
    PROVE  PoolInv'
<1>1. /\ poller.pc = "idle" /\ cq # <<>> /\ Head(cq).op = "RECV" /\ cq' = Tail(cq)
      /\ msg' = Ranked(Head(cq).query)
      /\ UNCHANGED <<free, malloced, conn, msg_mr, request, to_free, rq, sq>>
      /\ UNCHANGED <<send_req_q, app, called, req, env>>
      BY DEF PollInit, Polled
<1>2. \/ \E i \in DOMAIN pq :
            /\ pq' = RemoveAt(pq, i) /\ UNCHANGED aq
            /\ poller' = [pc |-> msg[Head(cq).query].opcode, act |-> Head(cq).query,
                          pas |-> pq[i]]
      \/ /\ aq' = Append(aq, Head(cq).query) /\ UNCHANGED pq
         /\ poller' = [pc |-> "repost", act |-> Head(cq).query, pas |-> None]
      BY DEF PollInit
<1>3. ASSUME NEW i \in DOMAIN pq, pq' = RemoveAt(pq, i), UNCHANGED aq,
             poller' = [pc |-> msg[Head(cq).query].opcode, act |-> Head(cq).query,
                        pas |-> pq[i]]
      PROVE  PoolInv'
      BY <1>1, <1>3, MatchKeeps
<1>4. CASE /\ aq' = Append(aq, Head(cq).query) /\ UNCHANGED pq
           /\ poller' = [pc |-> "repost", act |-> Head(cq).query, pas |-> None]
      BY <1>1, <1>4, NoMatchKeeps
<1> QED BY <1>2, <1>3, <1>4

\* The flag and the status of a receive: the queries stay in the poller's hands.
LEMMA HandlerStepKeeps ==
    ASSUME PoolInv, NEW pc \in Holding, poller.pc \in Holding,
           poller' = [poller EXCEPT !.pc = pc], req' \in Requests,
           UNCHANGED <<mem, rq, sq, cq, aq, pq>>, UNCHANGED <<send_req_q, app, called, env>>
    PROVE  PoolInv'
<1>1. TypeOK /\ Threads
      BY DEF PoolInv
<1>2. UNCHANGED <<send_req_q, app, called, wire, owed, arrivals>>
      BY DEF env
<1>3. /\ poller'.pc = pc /\ poller'.act = poller.act /\ poller'.pas = poller.pas
      /\ poller' \in [pc : Holding \cup {"idle", "repost"},
                      act : Query \cup {None}, pas : Query \cup {None}]
      BY <1>1 DEF TypeOK
<1>4. TypeOK'
      BY <1>1, <1>2, <1>3 DEF TypeOK, Requests, mem
<1>5. Threads'
  <2>1. poller'.pc # "repost"
        BY <1>3 DEF Holding
  <2> QED BY <1>1, <1>2, <1>3, <2>1 DEF Threads, mem
<1> QED BY <1>3, <1>4, <1>5, QuietKeeps

\* fdmi_cpy_eager_buff: the flag
LEMMA EagerFlagKeeps ==
    ASSUME PoolInv, EagerFlag
    PROVE  PoolInv'
<1>1. /\ poller.pc \in Holding /\ poller' = [poller EXCEPT !.pc = "status"]
      /\ "status" \in Holding
      /\ UNCHANGED <<mem, rq, sq, cq, aq, pq>> /\ UNCHANGED <<send_req_q, app, called, env>>
      /\ req' = [req EXCEPT ![request[poller.pas]].flag = 1]
      BY DEF EagerFlag, Holding
<1>2. req' \in Requests
      BY <1>1, FlagType DEF PoolInv, TypeOK, Requests
<1> QED BY <1>1, <1>2, HandlerStepKeeps

\* The status comes from the active query in the poller's hands.
LEMMA HandlerStatus ==
    ASSUME PoolInv, poller.pc \in Holding
    PROVE  /\ msg[poller.act].rank \in Conn \cup {None}
           /\ msg[poller.act].tag \in Tag \cup {None}
<1>1. PICK loc, idx : Placed(loc, idx)
      BY DEF PoolInv
<1>2. poller.act \in Query /\ msg[poller.act] \in Message
      BY DEF PoolInv, Threads, TypeOK
<1>3. loc[poller.act] = "act"
      BY <1>1, <1>2 DEF Placed, Located, InHands
<1>4. msg[poller.act].tag # FMI_ANY_TAG
      BY <1>1, <1>2, <1>3 DEF Placed, Fields
<1> QED BY <1>2, <1>4 DEF Message

\* fdmi_cpy_eager_buff: the status
LEMMA EagerStatusKeeps ==
    ASSUME PoolInv, EagerStatus
    PROVE  PoolInv'
<1>1. /\ poller.pc \in Holding /\ poller' = [poller EXCEPT !.pc = "free"]
      /\ "free" \in Holding
      /\ UNCHANGED <<mem, rq, sq, cq, aq, pq>> /\ UNCHANGED <<send_req_q, app, called, env>>
      /\ req' = [req EXCEPT ![request[poller.pas]].prank = msg[poller.act].rank,
                            ![request[poller.pas]].tag = msg[poller.act].tag]
      BY DEF EagerStatus, Holding
<1>2. req \in Requests
      BY DEF PoolInv, TypeOK, Requests
<1>3. req' \in Requests
      BY <1>1, <1>2, StatusType, HandlerStatus
<1> QED BY <1>1, <1>3, HandlerStepKeeps

\* fdmi_on_recv_cq_wc_rdma_read: the status
LEMMA ReadStatusKeeps ==
    ASSUME PoolInv, ReadStatus
    PROVE  PoolInv'
<1>1. /\ poller.pc \in Holding /\ poller' = [poller EXCEPT !.pc = "fin"]
      /\ "fin" \in Holding
      /\ UNCHANGED <<mem, rq, sq, cq, aq, pq>> /\ UNCHANGED <<send_req_q, app, called, env>>
      /\ req' = [req EXCEPT ![request[poller.pas]].prank = msg[poller.act].rank,
                            ![request[poller.pas]].tag = msg[poller.act].tag]
      BY DEF ReadStatus, Holding
<1>2. req \in Requests
      BY DEF PoolInv, TypeOK, Requests
<1>3. req' \in Requests
      BY <1>1, <1>2, StatusType, HandlerStatus
<1> QED BY <1>1, <1>3, HandlerStepKeeps

\* The two queries in the poller's hands.
LEMMA InTheHands ==
    ASSUME PoolInv, poller.pc \in Holding, NEW loc, NEW idx, Placed(loc, idx)
    PROVE  /\ poller.act \in Query /\ poller.pas \in Query
           /\ loc[poller.act] = "act" /\ loc[poller.pas] = "pas" /\ poller.act # poller.pas
           /\ conn[poller.act] \in Conn /\ to_free[poller.act] = None
           /\ msg[poller.act].tag # FMI_ANY_TAG
<1>1. poller.act \in Query /\ poller.pas \in Query
      BY DEF PoolInv, Threads
<1>2. loc[poller.act] = "act" /\ loc[poller.pas] = "pas"
      BY <1>1 DEF Placed, Located, InHands
<1>3. /\ conn[poller.act] # None /\ to_free[poller.act] = None
      /\ msg[poller.act].tag # FMI_ANY_TAG
      BY <1>1, <1>2 DEF Placed, Fields
<1>4. conn[poller.act] \in Conn
      BY <1>1, <1>3 DEF PoolInv, TypeOK
<1> QED BY <1>1, <1>2, <1>3, <1>4

\* fdmi_cpy_eager_buff frees both queries.
LEMMA EagerFreeKeeps ==
    ASSUME PoolInv, EagerFree
    PROVE  PoolInv'
<1>1. PICK loc, idx : Placed(loc, idx)
      BY DEF PoolInv
<1>2. TypeOK /\ NoRepeats /\ Entries /\ Threads
      BY DEF PoolInv
<1>3. PICK q, z : q = poller.act /\ z = poller.pas
      OBVIOUS
<1>4. /\ poller.pc \in Holding /\ free' = free \o <<z, q>>
      /\ poller' = [poller EXCEPT !.pc = "repost", !.pas = None]
      /\ UNCHANGED <<malloced, conn, msg, msg_mr, request, to_free, rq, sq, cq, aq, pq>>
      /\ UNCHANGED <<send_req_q, app, called, req, wire, owed, arrivals>>
      BY <1>3 DEF EagerFree, Destroy, Holding, calls, env
<1>5. /\ q \in Query /\ z \in Query /\ loc[q] = "act" /\ loc[z] = "pas" /\ q # z
      /\ conn[q] \in Conn /\ conn[q] # None
      BY <1>1, <1>3, <1>4, InTheHands, NoneIsNoQuery
<1>6. q \notin FreeSet /\ z \notin FreeSet
      BY <1>1, <1>5 DEF Placed, Located, InQueues
<1>7. free' \in Seq(Query) /\ IsInjective(free') /\ FreeSet' = FreeSet \cup {q, z}
  <2>1. PICK f : f = Append(free, z)
        OBVIOUS
  <2>2. /\ f \in Seq(Query) /\ Range(f) = FreeSet \cup {z} /\ IsInjective(f)
        BY <1>2, <1>5, <1>6, <2>1, Destroys
  <2>3. free' = Append(f, q)
        BY <1>2, <1>4, <1>5, <2>1, PutTwo, SMTT(60) DEF TypeOK
  <2>4. q \notin Range(f)
        BY <1>5, <1>6, <2>2
  <2> QED BY <1>5, <2>2, <2>3, <2>4, PutLast DEF FreeSet
<1>8. /\ poller'.pc = "repost" /\ poller'.act = q
      /\ poller' \in [pc : Holding \cup {"idle", "repost"},
                      act : Query \cup {None}, pas : Query \cup {None}]
      BY <1>2, <1>3, <1>4 DEF TypeOK
<1>9. TypeOK'
      BY <1>2, <1>4, <1>7, <1>8 DEF TypeOK
<1>10. NoRepeats'
      BY <1>2, <1>4, <1>7 DEF NoRepeats
<1>11. /\ AqSet' = AqSet /\ PqSet' = PqSet /\ CqSet' = CqSet
       /\ \A d \in Conn : RqSet(d)' = RqSet(d) /\ SqSet(d)' = SqSet(d)
      BY <1>4 DEF AqSet, PqSet, CqSet, RqSet, SqSet
<1>12. loc \in [Query -> Kind] /\ idx \in [Query -> Nat] /\ Located(loc, idx) /\ Fields(loc)
      BY <1>1 DEF Placed
<1>13. PICK l : l = [loc EXCEPT ![q] = "free", ![z] = "free"]
      OBVIOUS
<1>14. Placed(l, idx)'
  <2>1. l \in [Query -> Kind]
        BY <1>12, <1>13 DEF Kind
  <2>2. \A x \in Query : l[x] = IF x = z \/ x = q THEN "free" ELSE loc[x]
        BY <1>12, <1>13
  <2>3. InQueues(l)'
        BY <1>4, <1>5, <1>7, <1>11, <1>12, <2>2 DEF Located, InQueues
  <2>4. InConns(l, idx)'
        BY <1>5, <1>11, <1>12, <2>2 DEF Located, InConns
  <2>5. InHands(l)'
    <3>1. poller'.pc \notin Holding
          BY <1>8 DEF Holding
    <3>2. \A x \in Query : l[x] # "act" /\ l[x] # "pas"
          BY <1>3, <1>12, <2>2 DEF Located, InHands
    <3> QED BY <3>1, <3>2 DEF InHands
  <2>6. InReads(l, idx)'
    <3>1. \A x \in Query : l[x] = "read" <=> loc[x] = "read"
          BY <1>5, <2>2
    <3>2. \A x, y \in Query : (l[y] \in {"cq", "sq"} /\ to_free'[y] = x)
                                <=> (loc[y] \in {"cq", "sq"} /\ to_free[y] = x)
          BY <1>4, <1>5, <2>2
    <3> QED BY <1>12, <3>1, <3>2, ReadsKept DEF Located
  <2>7. Fields(l)'
        BY <1>4, <1>12, <2>2 DEF Fields
  <2> QED BY <1>12, <2>1, <2>3, <2>4, <2>5, <2>6, <2>7 DEF Placed, Located
<1>15. Entries'
      BY <1>2, <1>4 DEF Entries, EntryOK
<1>16. Threads'
  <2>1. poller'.pc \notin Holding
        BY <1>8 DEF Holding
  <2> QED BY <1>2, <1>4, <1>5, <1>8, <2>1 DEF Threads
<1> QED BY <1>9, <1>10, <1>14, <1>15, <1>16 DEF PoolInv

\* fdmi_post_rdma_read: the passive query is posted, with the active one as
\* active_query_to_free.
LEMMA PostReadKeeps ==
    ASSUME PoolInv, PostRead
    PROVE  PoolInv'
<1>1. PICK loc, idx : Placed(loc, idx)
      BY DEF PoolInv
<1>2. TypeOK /\ NoRepeats /\ Entries /\ Threads
      BY DEF PoolInv
<1>3. PICK q, z, c : q = poller.act /\ z = poller.pas /\ c = conn[q]
      OBVIOUS
<1>4. /\ poller.pc \in Holding
      /\ to_free' = [to_free EXCEPT ![z] = q] /\ conn' = [conn EXCEPT ![z] = c]
      /\ msg_mr' = [msg_mr EXCEPT ![z] = TRUE] /\ Post(c, "READ", z)
      /\ poller' = [poller EXCEPT !.pc = "repost", !.pas = None]
      /\ UNCHANGED <<free, malloced, msg, request, rq, cq, aq, pq>>
      /\ UNCHANGED <<send_req_q, app, called, req, wire, owed, arrivals>>
      BY <1>3 DEF PostRead, Holding, calls, env
<1>5. /\ q \in Query /\ z \in Query /\ loc[q] = "act" /\ loc[z] = "pas" /\ q # z
      /\ c \in Conn /\ c # None /\ c \in Nat /\ to_free[q] = None
      /\ msg[q].tag # FMI_ANY_TAG
  <2>1. \A x \in Conn : x # None /\ x \in Nat
        BY NoneIsNoQuery DEF Conn
  <2> QED BY <1>1, <1>3, <1>4, <2>1, InTheHands
<1>6. /\ sq' \in [Conn -> Seq(SendWr)]
      /\ \A d \in Conn : IsInjective(Queries(sq'[d]))
      /\ \A d \in Conn : SqSet(d)' = IF d = c THEN SqSet(d) \cup {z} ELSE SqSet(d)
      /\ \A d \in Conn : \A e \in Range(sq'[d]) :
            e \in Range(sq[d]) \/ e = [op |-> "READ", query |-> z]
      BY <1>1, <1>2, <1>4, <1>5, Posts
<1>7. /\ conn' \in [Query -> Conn \cup {None}] /\ msg_mr' \in [Query -> BOOLEAN]
      /\ to_free' \in [Query -> Query \cup {None}]
      /\ \A x \in Query : /\ conn'[x] = IF x = z THEN c ELSE conn[x]
                          /\ msg_mr'[x] = IF x = z THEN TRUE ELSE msg_mr[x]
                          /\ to_free'[x] = IF x = z THEN q ELSE to_free[x]
      BY <1>2, <1>4, <1>5 DEF TypeOK
<1>8. /\ poller'.pc = "repost" /\ poller'.act = q
      /\ poller' \in [pc : Holding \cup {"idle", "repost"},
                      act : Query \cup {None}, pas : Query \cup {None}]
      BY <1>2, <1>3, <1>4 DEF TypeOK
<1>9. TypeOK'
      BY <1>2, <1>4, <1>6, <1>7, <1>8 DEF TypeOK, SendWr
<1>10. NoRepeats'
      BY <1>2, <1>4, <1>6 DEF NoRepeats
<1>11. /\ FreeSet' = FreeSet /\ AqSet' = AqSet /\ PqSet' = PqSet /\ CqSet' = CqSet
       /\ \A d \in Conn : RqSet(d)' = RqSet(d)
      BY <1>4 DEF FreeSet, AqSet, PqSet, CqSet, RqSet
<1>12. loc \in [Query -> Kind] /\ idx \in [Query -> Nat] /\ Located(loc, idx) /\ Fields(loc)
      BY <1>1 DEF Placed
<1>13. PICK l, j : /\ l = [loc EXCEPT ![q] = "read", ![z] = "sq"]
                   /\ j = [idx EXCEPT ![q] = z, ![z] = c]
      OBVIOUS
<1>14. Placed(l, j)'
  <2>1. l \in [Query -> Kind] /\ j \in [Query -> Nat]
    <3>1. z \in Nat
          BY <1>5, PoolAssumption DEF Query
    <3> QED BY <1>5, <1>12, <1>13, <3>1 DEF Kind
  <2>2. \A x \in Query :
           /\ l[x] = IF x = z THEN "sq" ELSE IF x = q THEN "read" ELSE loc[x]
           /\ j[x] = IF x = z THEN c ELSE IF x = q THEN z ELSE idx[x]
        BY <1>5, <1>12, <1>13
  <2>3. InQueues(l)'
        BY <1>4, <1>5, <1>11, <1>12, <2>2 DEF Located, InQueues
  <2>4. InConns(l, j)'
        BY <1>5, <1>6, <1>11, <1>12, <2>2, SMTT(60) DEF Located, InConns
  <2>5. InHands(l)'
    <3>1. poller'.pc \notin Holding
          BY <1>8 DEF Holding
    <3>2. \A x \in Query : l[x] # "act" /\ l[x] # "pas"
          BY <1>3, <1>12, <2>2 DEF Located, InHands
    <3> QED BY <3>1, <3>2 DEF InHands
  <2>6. InReads(l, j)'
    <3>0. InReads(loc, idx)
          BY <1>12 DEF Located
    <3>1. \A x \in Query : l[x] = "read" => j[x] \in Query
          BY <1>5, <2>2, <3>0 DEF InReads
    <3>2. ASSUME NEW x \in Query, NEW y \in Query
          PROVE  (l[x] = "read" /\ j[x] = y) <=> (l[y] \in {"cq", "sq"} /\ to_free'[y] = x)
      <4>1. (loc[x] = "read" /\ idx[x] = y) <=> (loc[y] \in {"cq", "sq"} /\ to_free[y] = x)
            BY <3>0 DEF InReads
      <4>2. CASE y = z
            BY <1>5, <1>7, <2>2, <4>1, <4>2
      <4>3. CASE y # z /\ x = q
            BY <1>5, <1>7, <2>2, <4>1, <4>3
      <4>4. CASE y # z /\ x # q
            BY <1>5, <1>7, <2>2, <4>1, <4>4
      <4> QED BY <4>2, <4>3, <4>4
    <3> QED BY <3>1, <3>2 DEF InReads
  <2>7. Fields(l)'
    <3>1. ASSUME NEW x \in Query
          PROVE  /\ conn'[x] # None => msg_mr'[x] = TRUE /\ l[x] # "new"
                 /\ l[x] \in {"rq", "sq", "cq", "aq", "act", "read"} => conn'[x] # None
                 /\ l[x] \in {"rq", "aq", "act", "read"} => to_free'[x] = None
                 /\ l[x] \in {"aq", "act", "read"} => msg'[x].tag # FMI_ANY_TAG
      <4>1. CASE x = z
            BY <1>5, <1>7, <2>2, <4>1
      <4>2. CASE x = q
            BY <1>3, <1>4, <1>5, <1>7, <1>12, <2>2, <4>2 DEF Fields
      <4>3. CASE x # z /\ x # q
            BY <1>4, <1>7, <1>12, <2>2, <4>3 DEF Fields
      <4> QED BY <4>1, <4>2, <4>3
    <3> QED BY <3>1 DEF Fields
  <2> QED BY <2>1, <2>3, <2>4, <2>5, <2>6, <2>7 DEF Placed, Located
<1>15. Entries'
  <2>1. /\ \A e \in Range(cq) : EntryOK(e)'
        /\ \A d \in Conn : \A e \in Range(sq[d]) : EntryOK(e)'
        BY <1>1, <1>2, <1>4, <1>5, <1>7, EntriesKept
  <2>2. EntryOK([op |-> "READ", query |-> z])'
        BY <1>5, <1>7, NoneIsNoQuery DEF EntryOK
  <2> QED BY <1>4, <1>6, <2>1, <2>2 DEF Entries
<1>16. Threads'
  <2>1. poller'.pc \notin Holding /\ conn'[q] # None
        BY <1>3, <1>5, <1>7, <1>8 DEF Holding
  <2> QED BY <1>2, <1>4, <1>5, <1>8, <2>1 DEF Threads
<1> QED BY <1>9, <1>10, <1>14, <1>15, <1>16 DEF PoolInv

\* The receive that a handler posts: a query goes from the pool to the receive
\* queue of the connection that the handled query has now.
LEMMA RepostKeeps ==
    ASSUME PoolInv, Repost
    PROVE  PoolInv'
<1>1. PICK loc, idx : Placed(loc, idx)
      BY DEF PoolInv
<1>2. TypeOK /\ NoRepeats /\ Entries /\ Threads
      BY DEF PoolInv
<1>3. PICK c : c = conn[poller.act]
      OBVIOUS
<1>4. PICK q, m : q = Created(c) /\ m = msg[q]
      OBVIOUS
<1>5. /\ poller.pc = "repost" /\ poller' = Idle
      /\ Fill(c, c, CreatedMr(c), None, None, m) /\ TakeQuery(c)
      /\ rq' = [rq EXCEPT ![c] = Append(rq[c], q)]
      /\ UNCHANGED <<sq, cq, aq, pq, send_req_q, app, called, req, wire, owed, arrivals>>
      BY <1>3, <1>4 DEF Repost, Fill, calls, env
<1>6. c \in Conn /\ c # None /\ c \in Nat /\ c \in Conn \cup {None}
      BY <1>2, <1>3, <1>5 DEF Threads, TypeOK, Conn
<1>7. /\ q \in Query /\ loc[q] \in {"new", "free"}
      /\ free' \in Seq(Query) /\ IsInjective(free') /\ FreeSet' = FreeSet \ {q}
      /\ malloced' \in 0 .. MaxQueries
      /\ \A x \in Query : x > malloced' <=> x > malloced /\ x # q
      /\ CreatedMr(c) = TRUE
      BY <1>1, <1>2, <1>4, <1>5, <1>6, Creates
<1>8. Filled(q, c, TRUE, None, m)
  <2>1. /\ None \in Call \cup {None} /\ Created(c) \in Query
        /\ Fill(c, c, TRUE, None, None, m)
        /\ None \in Query \cup {None} /\ TRUE \in BOOLEAN /\ m \in Message
        BY <1>2, <1>4, <1>5, <1>7 DEF TypeOK
  <2> QED BY <1>2, <1>4, <1>6, <2>1, Fills
<1>9. PICK s : s = Append(rq[c], q)
      OBVIOUS
<1>10. s \in Seq(Query) /\ IsInjective(s) /\ Range(s) = RqSet(c) \cup {q}
  <2>1. q \notin RqSet(c)
        BY <1>1, <1>6, <1>7 DEF Placed, Located, InConns
  <2>2. rq[c] \in Seq(Query) /\ IsInjective(rq[c])
        BY <1>2, <1>6 DEF TypeOK, NoRepeats
  <2> QED BY <1>7, <1>9, <2>1, <2>2, PutLast DEF RqSet
<1>11. /\ rq' \in [Conn -> Seq(Query)] /\ \A d \in Conn : IsInjective(rq'[d])
       /\ \A d \in Conn : RqSet(d)' = IF d = c THEN RqSet(d) \cup {q} ELSE RqSet(d)
  <2>1. rq \in [Conn -> Seq(Query)] /\ \A d \in Conn : IsInjective(rq[d])
        BY <1>2 DEF TypeOK, NoRepeats
  <2>2. /\ rq' \in [Conn -> Seq(Query)]
        /\ \A d \in Conn : rq'[d] = IF d = c THEN s ELSE rq[d]
        BY <1>5, <1>6, <1>9, <1>10, <2>1
  <2> QED BY <1>10, <2>1, <2>2 DEF RqSet
<1>12. /\ poller'.pc = "idle"
       /\ poller' \in [pc : Holding \cup {"idle", "repost"},
                       act : Query \cup {None}, pas : Query \cup {None}]
      BY <1>5 DEF Idle
<1>13. TypeOK'
      BY <1>2, <1>5, <1>7, <1>8, <1>11, <1>12 DEF TypeOK, Filled
<1>14. NoRepeats'
      BY <1>2, <1>5, <1>7, <1>11 DEF NoRepeats
<1>15. /\ AqSet' = AqSet /\ PqSet' = PqSet /\ CqSet' = CqSet
       /\ \A d \in Conn : SqSet(d)' = SqSet(d)
      BY <1>5 DEF AqSet, PqSet, CqSet, SqSet
<1>16. loc \in [Query -> Kind] /\ idx \in [Query -> Nat] /\ Located(loc, idx) /\ Fields(loc)
      BY <1>1 DEF Placed
<1>17. PICK l, i : /\ l = [loc EXCEPT ![q] = "rq"] /\ i = [idx EXCEPT ![q] = c]
      OBVIOUS
<1>18. \A x \in Query : /\ conn'[x] = IF x = q THEN c ELSE conn[x]
                        /\ msg_mr'[x] = IF x = q THEN TRUE ELSE msg_mr[x]
                        /\ to_free'[x] = IF x = q THEN None ELSE to_free[x]
                        /\ msg'[x] = msg[x]
      BY <1>4, <1>8 DEF Filled
<1>19. Placed(l, i)'
  <2>1. l \in [Query -> Kind] /\ i \in [Query -> Nat]
        BY <1>6, <1>16, <1>17 DEF Kind
  <2>2. \A x \in Query : /\ l[x] = IF x = q THEN "rq" ELSE loc[x]
                         /\ i[x] = IF x = q THEN c ELSE idx[x]
        BY <1>16, <1>17
  <2>3. InQueues(l)'
        BY <1>7, <1>15, <1>16, <2>2 DEF Located, InQueues
  <2>4. InConns(l, i)'
    <3>1. InConns(loc, idx)
          BY <1>16 DEF Located
    <3>2. \A x \in Query : l[x] \in {"rq", "sq"} => i[x] \in Conn
          BY <1>6, <2>2, <3>1 DEF InConns
    <3>3. ASSUME NEW x \in Query, NEW d \in Conn
          PROVE  (l[x] = "rq" /\ i[x] = d) <=> x \in RqSet(d)'
          BY <1>7, <1>11, <2>2, <3>1 DEF InConns
    <3>4. \A x \in Query, d \in Conn : (l[x] = "sq" /\ i[x] = d) <=> x \in SqSet(d)'
          BY <1>7, <1>15, <2>2, <3>1 DEF InConns
    <3> QED BY <3>2, <3>3, <3>4 DEF InConns
  <2>5. InHands(l)'
        BY <1>5, <1>7, <1>12, <1>16, <2>2 DEF Located, InHands, Holding
  <2>6. InReads(l, i)'
    <3>1. \A x \in Query : /\ l[x] = "read" <=> loc[x] = "read"
                           /\ l[x] = "read" => i[x] = idx[x]
          BY <1>7, <2>2
    <3>2. \A x, z \in Query : (l[z] \in {"cq", "sq"} /\ to_free'[z] = x)
                                <=> (loc[z] \in {"cq", "sq"} /\ to_free[z] = x)
          BY <1>7, <1>18, <2>2, NoneIsNoQuery
    <3> QED BY <1>16, <3>1, <3>2, ReadsKept DEF Located
  <2>7. Fields(l)'
        BY <1>6, <1>7, <1>16, <1>18, <2>2, ZenonT(120) DEF Fields
  <2> QED BY <2>1, <2>3, <2>4, <2>5, <2>6, <2>7 DEF Placed, Located
<1>20. Entries'
  <2>1. /\ \A e \in Range(cq) : EntryOK(e)'
        /\ \A d \in Conn : \A e \in Range(sq[d]) : EntryOK(e)'
        BY <1>1, <1>2, <1>7, <1>18, EntriesKept
  <2> QED BY <1>5, <2>1 DEF Entries
<1>21. Threads'
  <2>1. poller'.pc \notin Holding
        BY <1>12 DEF Holding
  <2> QED BY <1>2, <1>5, <1>12, <1>18, <2>1 DEF Threads
<1> QED BY <1>13, <1>14, <1>19, <1>20, <1>21 DEF PoolInv

\* fdmi_on_recv_cq_wc_rdma_read: the read query and its active_query_to_free
\* come into the poller's hands.
LEMMA PollReadKeeps ==
    ASSUME PoolInv, PollRead
    PROVE  PoolInv'
<1>1. PICK loc, idx : Placed(loc, idx)
      BY DEF PoolInv
<1>2. TypeOK /\ NoRepeats /\ Entries /\ Threads
      BY DEF PoolInv
<1>3. PICK z, a, r : z = Head(cq).query /\ a = to_free[z] /\ r = Ranked(z)
      OBVIOUS
<1>4. /\ poller.pc = "idle" /\ cq # <<>> /\ Head(cq).op = "READ" /\ cq' = Tail(cq)
      /\ msg' = [r EXCEPT ![a].type = "FIN"]
      /\ req' = [req EXCEPT ![request[z]].flag = 1]
      /\ poller' = [pc |-> "read", act |-> a, pas |-> z]
      /\ UNCHANGED <<free, malloced, conn, msg_mr, request, to_free, rq, sq, aq, pq>>
      /\ UNCHANGED <<send_req_q, app, called, wire, owed, arrivals>>
      BY <1>3 DEF PollRead, Polled, env
<1>5. /\ z \in Query /\ loc[z] = "cq" /\ EntryOK(Head(cq)) /\ cq' \in Seq(Wr)
      /\ IsInjective(Queries(cq')) /\ CqSet' = CqSet \ {z}
      /\ \A e \in Range(cq') : e \in Range(cq)
      BY <1>1, <1>2, <1>3, <1>4, Polls
<1>6. a \in Query
  <2>1. a # None
        BY <1>3, <1>4, <1>5 DEF EntryOK
  <2> QED BY <1>2, <1>3, <1>5, <2>1 DEF TypeOK
<1>7. loc \in [Query -> Kind] /\ idx \in [Query -> Nat] /\ Located(loc, idx) /\ Fields(loc)
      BY <1>1 DEF Placed
<1>8. loc[a] = "read" /\ idx[a] = z /\ a # z
      BY <1>3, <1>5, <1>6, <1>7 DEF Located, InReads
<1>9. conn[a] # None /\ to_free[a] = None /\ msg[a].tag # FMI_ANY_TAG
      BY <1>6, <1>7, <1>8 DEF Fields
<1>10. /\ poller'.pc = "read" /\ poller'.pc \in Holding /\ poller'.act = a /\ poller'.pas = z
       /\ poller' \in [pc : Holding \cup {"idle", "repost"},
                       act : Query \cup {None}, pas : Query \cup {None}]
      BY <1>4, <1>5, <1>6 DEF Holding
<1>11. msg' \in [Query -> Message] /\ \A x \in Query : msg'[x].tag = msg[x].tag
  <2>1. r \in [Query -> Message] /\ \A x \in Query : r[x].tag = msg[x].tag
        BY <1>2, <1>3, <1>5, RankedType
  <2>2. /\ [r[a] EXCEPT !.type = "FIN"] \in Message
        /\ [r[a] EXCEPT !.type = "FIN"].tag = r[a].tag
        BY <1>6, <2>1 DEF Message
  <2>3. msg' = [r EXCEPT ![a] = [r[a] EXCEPT !.type = "FIN"]]
        BY <1>4, <1>6, <2>1
  <2> QED BY <1>6, <2>1, <2>2, <2>3
<1>12. TypeOK'
  <2>1. req' \in Requests
        BY <1>2, <1>4, FlagType DEF TypeOK, Requests
  <2> QED BY <1>2, <1>4, <1>5, <1>10, <1>11, <2>1 DEF TypeOK, Requests, Wr
<1>13. NoRepeats'
      BY <1>2, <1>4, <1>5 DEF NoRepeats
<1>14. /\ FreeSet' = FreeSet /\ AqSet' = AqSet /\ PqSet' = PqSet
       /\ \A d \in Conn : RqSet(d)' = RqSet(d) /\ SqSet(d)' = SqSet(d)
      BY <1>4 DEF FreeSet, AqSet, PqSet, RqSet, SqSet
<1>15. PICK l : l = [loc EXCEPT ![a] = "act", ![z] = "pas"]
      OBVIOUS
<1>16. Placed(l, idx)'
  <2>1. l \in [Query -> Kind]
        BY <1>7, <1>15 DEF Kind
  <2>2. \A x \in Query : l[x] = IF x = z THEN "pas" ELSE IF x = a THEN "act" ELSE loc[x]
        BY <1>7, <1>8, <1>15
  <2>3. InQueues(l)'
        BY <1>4, <1>5, <1>6, <1>7, <1>8, <1>14, <2>2 DEF Located, InQueues
  <2>4. InConns(l, idx)'
        BY <1>5, <1>7, <1>8, <1>14, <2>2 DEF Located, InConns
  <2>5. InHands(l)'
    <3>1. poller.pc \notin Holding
          BY <1>4 DEF Holding
    <3>2. \A x \in Query : loc[x] # "act" /\ loc[x] # "pas"
          BY <1>7, <3>1 DEF Located, InHands
    <3> QED BY <1>8, <1>10, <2>2, <3>2 DEF InHands
  <2>6. InReads(l, idx)'
    <3>0. InReads(loc, idx)
          BY <1>7 DEF Located
    <3>1. \A x \in Query : l[x] = "read" => idx[x] \in Query
          BY <2>2, <3>0 DEF InReads
    <3>2. ASSUME NEW x \in Query, NEW y \in Query
          PROVE  (l[x] = "read" /\ idx[x] = y) <=> (l[y] \in {"cq", "sq"} /\ to_free[y] = x)
      <4>1. (loc[x] = "read" /\ idx[x] = y) <=> (loc[y] \in {"cq", "sq"} /\ to_free[y] = x)
            BY <3>0 DEF InReads
      <4>2. CASE y = z
            BY <1>3, <1>5, <1>6, <1>8, <2>2, <4>1, <4>2
      <4>3. CASE y # z
            BY <1>3, <1>5, <1>6, <1>8, <2>2, <4>1, <4>3
      <4> QED BY <4>2, <4>3
    <3> QED BY <1>4, <3>1, <3>2 DEF InReads
  <2>7. Fields(l)'
    <3>1. ASSUME NEW x \in Query
          PROVE  /\ conn[x] # None => msg_mr[x] = TRUE /\ l[x] # "new"
                 /\ l[x] \in {"rq", "sq", "cq", "aq", "act", "read"} => conn[x] # None
                 /\ l[x] \in {"rq", "aq", "act", "read"} => to_free[x] = None
                 /\ l[x] \in {"aq", "act", "read"} => msg[x].tag # FMI_ANY_TAG
          BY <1>7, <1>9, <2>2 DEF Fields
    <3> QED BY <1>4, <1>11, <3>1 DEF Fields
  <2> QED BY <1>7, <2>1, <2>3, <2>4, <2>5, <2>6, <2>7 DEF Placed, Located
<1>17. Entries'
  <2>1. /\ \A e \in Range(cq) : EntryOK(e)'
        /\ \A d \in Conn : \A e \in Range(sq[d]) : EntryOK(e)'
        BY <1>1, <1>2, <1>4, <1>11, EntriesKept
  <2> QED BY <1>4, <1>5, <2>1 DEF Entries
<1>18. Threads'
      BY <1>2, <1>4, <1>5, <1>6, <1>10, <1>11 DEF Threads
<1> QED BY <1>12, <1>13, <1>16, <1>17, <1>18 DEF PoolInv

\* The rest of fdmi_on_recv_cq_wc_rdma_read: the active query carries the FIN,
\* the passive one is freed.
LEMMA ReadFinKeeps ==
    ASSUME PoolInv, ReadFin
    PROVE  PoolInv'
<1>1. PICK loc, idx : Placed(loc, idx)
      BY DEF PoolInv
<1>2. TypeOK /\ NoRepeats /\ Entries /\ Threads
      BY DEF PoolInv
<1>3. PICK q, z, c : q = poller.act /\ z = poller.pas /\ c = conn[q]
      OBVIOUS
<1>4. /\ poller.pc \in Holding /\ free' = free \o <<z>> /\ Post(c, "SEND", q)
      /\ poller' = Idle
      /\ UNCHANGED <<malloced, conn, msg, msg_mr, request, to_free, rq, cq, aq, pq>>
      /\ UNCHANGED <<send_req_q, app, called, req, wire, owed, arrivals>>
      BY <1>3 DEF ReadFin, Destroy, Holding, calls, env
<1>5. /\ q \in Query /\ z \in Query /\ loc[q] = "act" /\ loc[z] = "pas" /\ q # z
      /\ c \in Conn /\ c # None /\ c \in Nat /\ to_free[q] = None
  <2>1. \A x \in Conn : x # None /\ x \in Nat
        BY NoneIsNoQuery DEF Conn
  <2> QED BY <1>1, <1>3, <1>4, <2>1, InTheHands
<1>6. free' \in Seq(Query) /\ IsInjective(free') /\ FreeSet' = FreeSet \cup {z}
  <2>1. z \notin FreeSet
        BY <1>1, <1>5 DEF Placed, Located, InQueues
  <2> QED BY <1>2, <1>4, <1>5, <2>1, Destroys DEF FreeSet
<1>7. /\ sq' \in [Conn -> Seq(SendWr)]
      /\ \A d \in Conn : IsInjective(Queries(sq'[d]))
      /\ \A d \in Conn : SqSet(d)' = IF d = c THEN SqSet(d) \cup {q} ELSE SqSet(d)
      /\ \A d \in Conn : \A e \in Range(sq'[d]) :
            e \in Range(sq[d]) \/ e = [op |-> "SEND", query |-> q]
      BY <1>1, <1>2, <1>4, <1>5, Posts
<1>8. /\ poller'.pc = "idle"
      /\ poller' \in [pc : Holding \cup {"idle", "repost"},
                      act : Query \cup {None}, pas : Query \cup {None}]
      BY <1>4 DEF Idle
<1>9. TypeOK'
      BY <1>2, <1>4, <1>6, <1>7, <1>8 DEF TypeOK, SendWr
<1>10. NoRepeats'
      BY <1>2, <1>4, <1>6, <1>7 DEF NoRepeats
<1>11. /\ AqSet' = AqSet /\ PqSet' = PqSet /\ CqSet' = CqSet
       /\ \A d \in Conn : RqSet(d)' = RqSet(d)
      BY <1>4 DEF AqSet, PqSet, CqSet, RqSet
<1>12. loc \in [Query -> Kind] /\ idx \in [Query -> Nat] /\ Located(loc, idx) /\ Fields(loc)
      BY <1>1 DEF Placed
<1>13. PICK l, j : /\ l = [loc EXCEPT ![q] = "sq", ![z] = "free"]
                   /\ j = [idx EXCEPT ![q] = c]
      OBVIOUS
<1>14. Placed(l, j)'
  <2>1. l \in [Query -> Kind] /\ j \in [Query -> Nat]
        BY <1>5, <1>12, <1>13 DEF Kind
  <2>2. \A x \in Query :
           /\ l[x] = IF x = z THEN "free" ELSE IF x = q THEN "sq" ELSE loc[x]
           /\ j[x] = IF x = q THEN c ELSE idx[x]
        BY <1>5, <1>12, <1>13
  <2>3. InQueues(l)'
        BY <1>4, <1>5, <1>6, <1>11, <1>12, <2>2 DEF Located, InQueues
  <2>4. InConns(l, j)'
    <3>1. InConns(loc, idx)
          BY <1>12 DEF Located
    <3>2. \A x \in Query : l[x] \in {"rq", "sq"} => j[x] \in Conn
          BY <1>5, <2>2, <3>1 DEF InConns
    <3>3. ASSUME NEW x \in Query, NEW d \in Conn
          PROVE  (l[x] = "sq" /\ j[x] = d) <=> x \in SqSet(d)'
          BY <1>5, <1>7, <2>2, <3>1 DEF InConns
    <3>4. ASSUME NEW x \in Query, NEW d \in Conn
          PROVE  (l[x] = "rq" /\ j[x] = d) <=> x \in RqSet(d)'
      <4>1. (loc[x] = "rq" /\ idx[x] = d) <=> x \in RqSet(d)
            BY <3>1 DEF InConns
      <4> QED BY <1>5, <1>11, <2>2, <4>1
    <3> QED BY <3>2, <3>3, <3>4 DEF InConns
  <2>5. InHands(l)'
    <3>1. poller'.pc \notin Holding
          BY <1>8 DEF Holding
    <3>2. \A x \in Query : l[x] # "act" /\ l[x] # "pas"
          BY <1>3, <1>12, <2>2 DEF Located, InHands
    <3> QED BY <3>1, <3>2 DEF InHands
  <2>6. InReads(l, j)'
    <3>1. \A x \in Query : /\ l[x] = "read" <=> loc[x] = "read"
                           /\ l[x] = "read" => j[x] = idx[x]
          BY <1>5, <2>2
    <3>2. \A x, y \in Query : (l[y] \in {"cq", "sq"} /\ to_free'[y] = x)
                                <=> (loc[y] \in {"cq", "sq"} /\ to_free[y] = x)
          BY <1>4, <1>5, <2>2, NoneIsNoQuery
    <3> QED BY <1>12, <3>1, <3>2, ReadsKept DEF Located
  <2>7. Fields(l)'
        BY <1>3, <1>4, <1>5, <1>12, <2>2, SMTT(60) DEF Fields
  <2> QED BY <2>1, <2>3, <2>4, <2>5, <2>6, <2>7 DEF Placed, Located
<1>15. Entries'
  <2>1. \A e : EntryOK(e)' <=> EntryOK(e)
        BY <1>4 DEF EntryOK
  <2>2. EntryOK([op |-> "SEND", query |-> q])
        BY <1>5 DEF EntryOK
  <2> QED BY <1>2, <1>4, <1>7, <2>1, <2>2 DEF Entries
<1>16. Threads'
  <2>1. poller'.pc \notin Holding
        BY <1>8 DEF Holding
  <2> QED BY <1>2, <1>4, <1>8, <2>1 DEF Threads
<1> QED BY <1>9, <1>10, <1>14, <1>15, <1>16 DEF PoolInv

\* The handlers that free the query of a completion, which has no
\* active_query_to_free.
LEMMA FreeCompletedKeeps ==
    ASSUME PoolInv, NEW q, q = Head(cq).query, poller.pc = "idle",
           cq # <<>>, Head(cq).op # "READ", cq' = Tail(cq),
           msg' = Ranked(q), free' = Append(free, q),
           send_req_q' \in Seq(SendCall), req' \in Requests,
           poller' = poller \/ poller' = [pc |-> "repost", act |-> q, pas |-> None],
           UNCHANGED <<malloced, conn, msg_mr, request, to_free, rq, sq, aq, pq>>,
           UNCHANGED <<app, called, env>>
    PROVE  PoolInv'
<1>1. PICK loc, idx : Placed(loc, idx)
      BY DEF PoolInv
<1>2. TypeOK /\ NoRepeats /\ Entries /\ Threads
      BY DEF PoolInv
<1>3. /\ q \in Query /\ loc[q] = "cq" /\ EntryOK(Head(cq)) /\ cq' \in Seq(Wr)
      /\ IsInjective(Queries(cq')) /\ CqSet' = CqSet \ {q}
      /\ \A e \in Range(cq') : e \in Range(cq)
      BY <1>1, <1>2, Polls
<1>4. to_free[q] = None
      BY <1>3 DEF EntryOK
<1>5. q \notin FreeSet /\ conn[q] # None
      BY <1>1, <1>3 DEF Placed, Located, InQueues, Fields
<1>6. free' \in Seq(Query) /\ IsInjective(free') /\ FreeSet' = FreeSet \cup {q}
      BY <1>2, <1>3, <1>5, Destroys DEF FreeSet
<1>7. /\ poller'.pc \in {"idle", "repost"} /\ (poller'.pc = "repost" => poller'.act = q)
      /\ poller' \in [pc : Holding \cup {"idle", "repost"},
                      act : Query \cup {None}, pas : Query \cup {None}]
      BY <1>2, <1>3 DEF TypeOK
<1>8. /\ msg' \in [Query -> Message]
      /\ \A x \in Query : msg'[x].tag = msg[x].tag
      BY <1>2, <1>3, RankedType
<1>9. UNCHANGED <<wire, owed, arrivals>>
      BY DEF env
<1>10. TypeOK'
      BY <1>2, <1>3, <1>6, <1>7, <1>8, <1>9 DEF TypeOK, Wr, Requests
<1>11. NoRepeats'
      BY <1>2, <1>3, <1>6 DEF NoRepeats
<1>12. /\ AqSet' = AqSet /\ PqSet' = PqSet
       /\ \A d \in Conn : RqSet(d)' = RqSet(d) /\ SqSet(d)' = SqSet(d)
      BY DEF AqSet, PqSet, RqSet, SqSet
<1>13. loc \in [Query -> Kind] /\ idx \in [Query -> Nat] /\ Located(loc, idx) /\ Fields(loc)
      BY <1>1 DEF Placed
<1>14. PICK l : l = [loc EXCEPT ![q] = "free"]
      OBVIOUS
<1>15. Placed(l, idx)'
  <2>1. l \in [Query -> Kind]
        BY <1>13, <1>14 DEF Kind
  <2>2. \A x \in Query : l[x] = IF x = q THEN "free" ELSE loc[x]
        BY <1>13, <1>14
  <2>3. InQueues(l)'
        BY <1>3, <1>6, <1>12, <1>13, <2>2 DEF Located, InQueues
  <2>4. InConns(l, idx)'
        BY <1>3, <1>12, <1>13, <2>2 DEF Located, InConns
  <2>5. InHands(l)'
        BY <1>3, <1>7, <1>13, <2>2 DEF Located, InHands, Holding
  <2>6. InReads(l, idx)'
    <3>1. \A x \in Query : /\ l[x] = "read" <=> loc[x] = "read"
                           /\ l[x] = "read" => idx[x] = idx[x]
          BY <1>3, <2>2
    <3>2. to_free' = to_free
          OBVIOUS
    <3>3. \A x, y \in Query : (l[y] \in {"cq", "sq"} /\ to_free'[y] = x)
                                <=> (loc[y] \in {"cq", "sq"} /\ to_free[y] = x)
          BY <1>3, <1>4, <2>2, <3>2, NoneIsNoQuery
    <3>4. InReads(loc, idx)
          BY <1>13 DEF Located
    <3> QED BY <3>1, <3>3, <3>4, ReadsKept
  <2>7. Fields(l)'
    <3>1. ASSUME NEW x \in Query
          PROVE  /\ conn[x] # None => msg_mr[x] = TRUE /\ l[x] # "new"
                 /\ l[x] \in {"rq", "sq", "cq", "aq", "act", "read"} => conn[x] # None
                 /\ l[x] \in {"rq", "aq", "act", "read"} => to_free[x] = None
                 /\ l[x] \in {"aq", "act", "read"} => msg[x].tag # FMI_ANY_TAG
          BY <1>13, <2>2 DEF Fields
    <3> QED BY <1>8, <3>1 DEF Fields
  <2> QED BY <1>13, <2>1, <2>3, <2>4, <2>5, <2>6, <2>7 DEF Placed, Located
<1>16. Entries'
  <2>1. /\ \A e \in Range(cq) : EntryOK(e)'
        /\ \A d \in Conn : \A e \in Range(sq[d]) : EntryOK(e)'
        BY <1>1, <1>2, <1>8, EntriesKept
  <2> QED BY <1>3, <2>1 DEF Entries
<1>17. Threads'
  <2>1. poller'.pc \notin Holding
        BY <1>7 DEF Holding
  <2> QED BY <1>2, <1>3, <1>5, <1>7, <1>8, <1>9, <2>1 DEF Threads
<1> QED BY <1>10, <1>11, <1>15, <1>16, <1>17 DEF PoolInv

\* fdmi_on_send_cq_wc_send
LEMMA PollSentKeeps ==
    ASSUME PoolInv, PollSent
    PROVE  PoolInv'
<1>1. PICK q, k : q = Head(cq).query /\ k = request[q]
      OBVIOUS
<1>2. /\ poller.pc = "idle" /\ cq # <<>> /\ Head(cq).op = "SEND" /\ cq' = Tail(cq)
      /\ msg' = Ranked(q) /\ free' = Append(free, q) /\ poller' = poller
      /\ req' = req \/ req' = [req EXCEPT ![k].flag = 1]
      /\ send_req_q' = send_req_q \/ send_req_q' = RemoveFirst(send_req_q, k)
      /\ UNCHANGED <<malloced, conn, msg_mr, request, to_free, rq, sq, aq, pq>>
      /\ UNCHANGED <<app, called, env>>
      BY <1>1 DEF PollSent, Polled
<1>3. req \in Requests /\ send_req_q \in Seq(SendCall)
      BY DEF PoolInv, TypeOK, Requests
<1>4. req' \in Requests
  <2>1. [req EXCEPT ![k].flag = 1] \in Requests
        BY <1>3, FlagType
  <2> QED BY <1>2, <1>3, <2>1
<1>5. send_req_q' \in Seq(SendCall)
  <2>1. RemoveFirst(send_req_q, k) \in Seq(SendCall)
        BY <1>3, RemoveFirstType
  <2> QED BY <1>2, <1>3, <2>1
<1> QED BY <1>1, <1>2, <1>4, <1>5, FreeCompletedKeeps

\* fdmi_on_recv_cq_wc_send
LEMMA PollFinSentKeeps ==
    ASSUME PoolInv, PollFinSent
    PROVE  PoolInv'
<1>1. PICK q : q = Head(cq).query
      OBVIOUS
<1>2. /\ poller.pc = "idle" /\ cq # <<>> /\ Head(cq).op = "SEND" /\ cq' = Tail(cq)
      /\ msg' = Ranked(q) /\ free' = Append(free, q) /\ poller' = poller
      /\ UNCHANGED <<req, send_req_q>>
      /\ UNCHANGED <<malloced, conn, msg_mr, request, to_free, rq, sq, aq, pq>>
      /\ UNCHANGED <<app, called, env>>
      BY <1>1 DEF PollFinSent, Polled, calls
<1>3. req' \in Requests /\ send_req_q' \in Seq(SendCall)
      BY <1>2 DEF PoolInv, TypeOK, Requests
<1> QED BY <1>1, <1>2, <1>3, FreeCompletedKeeps

\* fdmi_on_send_cq_wc_recv
LEMMA PollFinKeeps ==
    ASSUME PoolInv, PollFin
    PROVE  PoolInv'
<1>1. PICK q, k : q = Head(cq).query /\ k = send_req_q[1]
      OBVIOUS
<1>2. /\ poller.pc = "idle" /\ cq # <<>> /\ Head(cq).op = "RECV" /\ cq' = Tail(cq)
      /\ msg' = Ranked(q) /\ poller' = [pc |-> "repost", act |-> q, pas |-> None]
      /\ free' = free \o (IF to_free[q] = None THEN <<q>> ELSE <<to_free[q], q>>)
      /\ \/ req' = req /\ send_req_q' = send_req_q
         \/ /\ send_req_q # <<>> /\ req' = [req EXCEPT ![k].flag = 1]
            /\ send_req_q' = Tail(send_req_q)
      /\ UNCHANGED <<malloced, conn, msg_mr, request, to_free, rq, sq, aq, pq>>
      /\ UNCHANGED <<app, called, env>>
      BY <1>1 DEF PollFin, Polled
<1>3. req \in Requests /\ send_req_q \in Seq(SendCall)
      BY DEF PoolInv, TypeOK, Requests
<1>4. req' \in Requests /\ send_req_q' \in Seq(SendCall)
  <2>1. [req EXCEPT ![k].flag = 1] \in Requests
        BY <1>3, FlagType
  <2>2. ASSUME send_req_q # <<>> PROVE Tail(send_req_q) \in Seq(SendCall)
        BY <1>3, <2>2, TailEntries
  <2> QED BY <1>2, <1>3, <2>1, <2>2
<1>5. free' = Append(free, q)
  <2>1. PICK loc, idx : Placed(loc, idx)
        BY DEF PoolInv
  <2>2. q \in Query /\ EntryOK(Head(cq))
        BY <1>1, <1>2, <2>1, Polls DEF PoolInv
  <2>3. to_free[q] = None
        BY <1>1, <1>2, <2>2 DEF EntryOK
  <2> QED BY <1>2, <2>2, <2>3, PutTwo DEF PoolInv, TypeOK
<1> QED BY <1>1, <1>2, <1>4, <1>5, FreeCompletedKeeps

-----------------------------------------------------------------------------
(* The invariant *)

\* Every step of the two threads, of the hardware and of the peers.
LEMMA StepKeeps ==
    ASSUME PoolInv, [Next]_vars
    PROVE  PoolInv'
<1>1. CASE UNCHANGED vars
  <2>1. /\ UNCHANGED <<mem, rq, sq, cq, aq, pq>> /\ UNCHANGED <<poller>>
        /\ UNCHANGED <<send_req_q, app, called, req, wire, owed, arrivals>>
        BY <1>1 DEF vars, calls, env
  <2>2. TypeOK'
        BY <2>1 DEF PoolInv, TypeOK, mem
  <2>3. Threads'
        BY <2>1 DEF PoolInv, Threads, mem
  <2> QED BY <2>1, <2>2, <2>3, QuietKeeps
<1>2. CASE \E k \in SendCall, c \in Conn, t \in Tag, op \in Opcode : Isend(k, c, t, op)
      BY <1>2, IsendKeeps
<1>3. CASE \E k \in RecvCall, t \in Tag \cup {FMI_ANY_TAG} : Irecv(k, t)
      BY <1>3, IrecvKeeps
<1>4. CASE \E c \in Conn, t \in Tag, op \in Opcode : PeerSend(c, t, op)
      BY <1>4, PeerSendKeeps
<1>5. CASE \E c \in Conn : PeerFin(c) \/ Arrive(c) \/ Execute(c)
      BY <1>5, PeerFinKeeps, ArriveKeeps, ExecuteKeeps
<1>6. CASE PollerStep
      BY <1>6, PollInitKeeps, EagerFlagKeeps, EagerStatusKeeps, EagerFreeKeeps, PostReadKeeps,
         RepostKeeps, PollReadKeeps, ReadStatusKeeps, ReadFinKeeps, PollSentKeeps,
         PollFinSentKeeps, PollFinKeeps DEF PollerStep
<1> QED BY <1>1, <1>2, <1>3, <1>4, <1>5, <1>6, IrecvStatusKeeps DEF Next

\* The invariant holds in every state of the specification.
LEMMA PoolInvariant == Spec => []PoolInv
<1> QED BY InitPool, StepKeeps, PTL DEF Spec

\* Every variable keeps its type, for all connections, receives and calls: in
\* particular no NULL query, connection or request is used by a handler.
THEOREM PoolTypeCorrect == Spec => []TypeOK
<1>1. PoolInv => TypeOK
      BY DEF PoolInv
<1> QED BY <1>1, PoolInvariant, PTL

\* What the HCA gets is registered: fdmi_create_query registers the msg of a
\* query with a connection, a free query is reused only for the same kind, and
\* fdmi_post_rdma_read registers a passive query before it posts it.
THEOREM PostedRegistered == Spec => []PostedIsRegistered
<1>1. ASSUME PoolInv PROVE PostedIsRegistered
  <2>1. PICK loc, idx : Placed(loc, idx)
        BY <1>1 DEF PoolInv
  <2>2. ASSUME NEW q \in Query, loc[q] \in {"rq", "sq"} PROVE msg_mr[q]
        BY <2>1, <2>2 DEF Placed, Fields
  <2>3. ASSUME NEW c \in Conn, NEW i \in DOMAIN rq[c] PROVE msg_mr[rq[c][i]]
    <3>1. rq[c][i] \in Query
          BY <1>1, ElementOfSeq, LenProperties DEF PoolInv, TypeOK
    <3>2. rq[c][i] \in RqSet(c)
          BY DEF RqSet, Range
    <3> QED BY <2>1, <2>2, <3>1, <3>2 DEF Placed, Located, InConns
  <2>4. ASSUME NEW c \in Conn, NEW i \in DOMAIN sq[c] PROVE msg_mr[sq[c][i].query]
    <3>1. sq[c] \in Seq(Wr)
          BY <1>1, EntryQueries DEF PoolInv
    <3>2. sq[c][i].query \in Query /\ sq[c][i].query \in SqSet(c)
          BY <3>1, QueriesSeq DEF SqSet, Range
    <3> QED BY <2>1, <2>2, <3>2 DEF Placed, Located, InConns
  <2> QED BY <2>3, <2>4 DEF PostedIsRegistered
<1> QED BY <1>1, PoolInvariant, PTL

-----------------------------------------------------------------------------
(* One owner *)

\* a set with one element
Single(S) == \E p : S = {p}

\* A query that is not in a list is at no place of it.
LEMMA AtNone ==
    ASSUME NEW name, NEW c, NEW s, NEW q, q \notin Range(s)
    PROVE  At(name, c, s, q) = {}
BY DEF At, Range

\* A query of a list without repetition is at one place of it.
LEMMA AtOne ==
    ASSUME NEW name, NEW c, NEW s, NEW q, q \in Range(s), IsInjective(s)
    PROVE  Single(At(name, c, s, q))
<1>1. PICK i \in DOMAIN s : s[i] = q
      BY DEF Range
<1>2. {j \in DOMAIN s : s[j] = q} = {i}
      BY <1>1 DEF IsInjective
<1>3. At(name, c, s, q) = {<<name, c, i>>}
      BY <1>2 DEF At
<1> QED BY <1>3 DEF Single

\* A query is at one place of the receive and send queues if it is located
\* there, and at none else.
LEMMA ConnPlacesOne ==
    ASSUME NEW loc, NEW idx, InConns(loc, idx), NoRepeats, NEW q \in Query
    PROVE  /\ loc[q] \notin {"rq", "sq"} => ConnPlaces(q) = {}
           /\ loc[q] \in {"rq", "sq"} => Single(ConnPlaces(q))
<1> DEFINE R(c) == At("rq", c, rq[c], q)
           S(c) == At("sq", c, Queries(sq[c]), q)
<1>1. ASSUME NEW c \in Conn
      PROVE  /\ ~ (loc[q] = "rq" /\ idx[q] = c) => R(c) = {}
             /\ ~ (loc[q] = "sq" /\ idx[q] = c) => S(c) = {}
             /\ (loc[q] = "rq" /\ idx[q] = c) => Single(R(c))
             /\ (loc[q] = "sq" /\ idx[q] = c) => Single(S(c))
  <2>1. /\ (loc[q] = "rq" /\ idx[q] = c) <=> q \in Range(rq[c])
        /\ (loc[q] = "sq" /\ idx[q] = c) <=> q \in Range(Queries(sq[c]))
        BY DEF InConns, RqSet, SqSet
  <2>2. IsInjective(rq[c]) /\ IsInjective(Queries(sq[c]))
        BY DEF NoRepeats
  <2> QED BY <2>1, <2>2, AtNone, AtOne
<1>2. ConnPlaces(q) = UNION {R(c) \cup S(c) : c \in Conn}
      BY DEF ConnPlaces
<1>3. loc[q] \in {"rq", "sq"} => idx[q] \in Conn
      BY DEF InConns
<1> HIDE DEF R, S
<1>4. CASE loc[q] \notin {"rq", "sq"}
      BY <1>1, <1>2, <1>4
<1>5. CASE loc[q] \in {"rq", "sq"}
  <2>1. PICK c \in Conn : c = idx[q]
        BY <1>3, <1>5
  <2>2. Single(R(c) \cup S(c))
    <3>1. CASE loc[q] = "rq"
      <4>1. S(c) = {} /\ Single(R(c))
            BY <1>1, <2>1, <3>1
      <4> QED BY <4>1
    <3>2. CASE loc[q] = "sq"
      <4>1. R(c) = {} /\ Single(S(c))
            BY <1>1, <2>1, <3>2
      <4> QED BY <4>1
    <3> QED BY <1>5, <3>1, <3>2
  <2>3. \A d \in Conn : d # c => R(d) = {} /\ S(d) = {}
        BY <1>1, <2>1
  <2>4. ConnPlaces(q) = R(c) \cup S(c)
        BY <1>2, <2>3
  <2> QED BY <1>5, <2>2, <2>4
<1> QED BY <1>4, <1>5

\* The poller's active and passive queries are two queries.
LEMMA HandPlacesOne ==
    ASSUME NEW loc, InHands(loc), Threads, NEW q \in Query
    PROVE  /\ loc[q] \notin {"act", "pas"} => HandPlaces(q) = {}
           /\ loc[q] \in {"act", "pas"} => Single(HandPlaces(q))
<1>1. CASE poller.pc \notin Holding
      BY <1>1 DEF HandPlaces, InHands, Single
<1>2. CASE poller.pc \in Holding
  <2>1. PICK a, z : a = poller.act /\ z = poller.pas
        OBVIOUS
  <2>2. a \in Query /\ z \in Query
        BY <1>2, <2>1 DEF Threads
  <2>3. a # z
    <3>1. loc[a] = "act" /\ loc[z] = "pas"
          BY <1>2, <2>1, <2>2 DEF InHands
    <3> QED BY <3>1
  <2>4. Range(<<a, z>>) = {a, z} /\ IsInjective(<<a, z>>)
        BY <2>3 DEF Range, IsInjective
  <2>5. loc[q] \in {"act", "pas"} <=> q \in Range(<<a, z>>)
        BY <1>2, <2>1, <2>4 DEF InHands
  <2>6. HandPlaces(q) = At("poller", 0, <<a, z>>, q)
        BY <1>2, <2>1 DEF HandPlaces
  <2>7. ASSUME q \notin Range(<<a, z>>) PROVE HandPlaces(q) = {}
        BY <2>6, <2>7, AtNone
  <2>8. ASSUME q \in Range(<<a, z>>) PROVE Single(HandPlaces(q))
        BY <2>4, <2>6, <2>8, AtOne
  <2> QED BY <2>5, <2>7, <2>8
<1> QED BY <1>1, <1>2

\* A query is to be freed with one other query at most.
LEMMA ReadPlacesOne ==
    ASSUME NEW loc, NEW idx, Located(loc, idx), NEW q \in Query
    PROVE  /\ loc[q] # "read" => ReadPlaces(q) = {}
           /\ loc[q] = "read" => Single(ReadPlaces(q))
<1>1. ASSUME NEW y \in Query
      PROVE  InFlight(y) <=> loc[y] \in {"cq", "sq"}
  <2>1. loc[y] = "cq" <=> y \in Range(Queries(cq))
        BY DEF Located, InQueues, CqSet
  <2>2. loc[y] = "sq" => idx[y] \in Conn
        BY DEF Located, InConns
  <2>3. \A c \in Conn : (loc[y] = "sq" /\ idx[y] = c) <=> y \in Range(Queries(sq[c]))
        BY DEF Located, InConns, SqSet
  <2>4. loc[y] = "sq" <=> \E c \in Conn : y \in Range(Queries(sq[c]))
        BY <2>2, <2>3
  <2> QED BY <2>1, <2>4 DEF InFlight
<1>2. \A y \in Query : (to_free[y] = q /\ InFlight(y)) <=> (loc[q] = "read" /\ idx[q] = y)
  <2>1. \A y \in Query : (loc[q] = "read" /\ idx[q] = y)
                             <=> (loc[y] \in {"cq", "sq"} /\ to_free[y] = q)
        BY DEF Located, InReads
  <2> QED BY <1>1, <2>1
<1>3. loc[q] = "read" => idx[q] \in Query
      BY DEF Located, InReads
<1>4. CASE loc[q] # "read"
  <2>1. {y \in Query : to_free[y] = q /\ InFlight(y)} = {}
        BY <1>2, <1>4
  <2> QED BY <1>4, <2>1 DEF ReadPlaces
<1>5. CASE loc[q] = "read"
  <2>1. {y \in Query : to_free[y] = q /\ InFlight(y)} = {idx[q]}
        BY <1>2, <1>3, <1>5
  <2>2. ReadPlaces(q) = {<<"to_free", 0, idx[q]>>}
        BY <2>1 DEF ReadPlaces
  <2> QED BY <1>5, <2>2 DEF Single
<1> QED BY <1>4, <1>5

\* A query that malloc has handed out is in exactly one place: none is freed
\* twice, posted while it waits in a queue, or leaked.  Both threads take
\* queries from free_query_q and return them.
THEOREM QueryHasOneOwner == Spec => []OneOwner
<1>1. ASSUME PoolInv PROVE OneOwner
  <2>1. PICK loc, idx : Placed(loc, idx)
        BY <1>1 DEF PoolInv
  <2>2. /\ loc \in [Query -> Kind] /\ Located(loc, idx) /\ InQueues(loc)
        /\ InConns(loc, idx) /\ InHands(loc)
        BY <2>1 DEF Placed, Located
  <2>3. NoRepeats /\ Threads
        BY <1>1 DEF PoolInv
  <2>4. SUFFICES ASSUME NEW q \in Query
                 PROVE  /\ loc[q] # "new" => Single(Places(q))
                        /\ loc[q] = "new" => Places(q) = {}
    <3>1. malloced \in Nat /\ \A q \in Query : q \in Nat
          BY <1>1 DEF PoolInv, TypeOK, Query
    <3>2. \A q \in Query : q <= malloced <=> loc[q] # "new"
          BY <2>2, <3>1 DEF InQueues
    <3> QED BY <2>4, <3>2 DEF OneOwner, Single
  <2> DEFINE f == At("free", 0, free, q)
             a == At("aq", 0, aq, q)
             p0 == At("pq", 0, pq, q)
             c0 == At("cq", 0, Queries(cq), q)
             s == ConnPlaces(q)
             h == HandPlaces(q)
             r == ReadPlaces(q)
  <2>5. Places(q) = f \cup a \cup p0 \cup c0 \cup s \cup h \cup r
        BY DEF Places
  <2>6. /\ loc[q] # "free" => f = {}
        /\ loc[q] = "free" => Single(f)
    <3>1. (loc[q] = "free" <=> q \in Range(free)) /\ IsInjective(free)
          BY <2>2, <2>3 DEF InQueues, NoRepeats, FreeSet
    <3> QED BY <3>1, AtNone, AtOne
  <2>7. /\ loc[q] # "aq" => a = {}
        /\ loc[q] = "aq" => Single(a)
    <3>1. (loc[q] = "aq" <=> q \in Range(aq)) /\ IsInjective(aq)
          BY <2>2, <2>3 DEF InQueues, NoRepeats, AqSet
    <3> QED BY <3>1, AtNone, AtOne
  <2>8. /\ loc[q] # "pq" => p0 = {}
        /\ loc[q] = "pq" => Single(p0)
    <3>1. (loc[q] = "pq" <=> q \in Range(pq)) /\ IsInjective(pq)
          BY <2>2, <2>3 DEF InQueues, NoRepeats, PqSet
    <3> QED BY <3>1, AtNone, AtOne
  <2>9. /\ loc[q] # "cq" => c0 = {}
        /\ loc[q] = "cq" => Single(c0)
    <3>1. (loc[q] = "cq" <=> q \in Range(Queries(cq))) /\ IsInjective(Queries(cq))
          BY <2>2, <2>3 DEF InQueues, NoRepeats, CqSet
    <3> QED BY <3>1, AtNone, AtOne
  <2>10. /\ loc[q] \notin {"rq", "sq"} => s = {}
         /\ loc[q] \in {"rq", "sq"} => Single(s)
        BY <2>2, <2>3, ConnPlacesOne
  <2>11. /\ loc[q] \notin {"act", "pas"} => h = {}
         /\ loc[q] \in {"act", "pas"} => Single(h)
        BY <2>2, <2>3, HandPlacesOne
  <2>12. /\ loc[q] # "read" => r = {}
         /\ loc[q] = "read" => Single(r)
        BY <2>2, ReadPlacesOne
  <2> HIDE DEF f, a, p0, c0, s, h, r
  <2>13. loc[q] \in Kind
        BY <2>2
  <2>14. CASE loc[q] = "new"
        BY <2>5, <2>6, <2>7, <2>8, <2>9, <2>10, <2>11, <2>12, <2>14
  <2>15. CASE loc[q] = "free"
        BY <2>5, <2>6, <2>7, <2>8, <2>9, <2>10, <2>11, <2>12, <2>15
  <2>16. CASE loc[q] = "aq"
        BY <2>5, <2>6, <2>7, <2>8, <2>9, <2>10, <2>11, <2>12, <2>16
  <2>17. CASE loc[q] = "pq"
        BY <2>5, <2>6, <2>7, <2>8, <2>9, <2>10, <2>11, <2>12, <2>17
  <2>18. CASE loc[q] = "cq"
        BY <2>5, <2>6, <2>7, <2>8, <2>9, <2>10, <2>11, <2>12, <2>18
  <2>19. CASE loc[q] \in {"rq", "sq"}
        BY <2>5, <2>6, <2>7, <2>8, <2>9, <2>10, <2>11, <2>12, <2>19
  <2>20. CASE loc[q] \in {"act", "pas"}
        BY <2>5, <2>6, <2>7, <2>8, <2>9, <2>10, <2>11, <2>12, <2>20
  <2>21. CASE loc[q] = "read"
        BY <2>5, <2>6, <2>7, <2>8, <2>9, <2>10, <2>11, <2>12, <2>21
  <2> QED BY <2>13, <2>14, <2>15, <2>16, <2>17, <2>18, <2>19, <2>20, <2>21 DEF Kind
<1> QED BY <1>1, PoolInvariant, PTL

-----------------------------------------------------------------------------
(* Receive credits, with one connection *)

\* the completions of receives in s
RecvAt(s) == {i \in DOMAIN s : s[i].op = "RECV"}

\* There are finitely many.
LEMMA RecvFinite ==
    ASSUME NEW s \in Seq(Wr)
    PROVE  IsFiniteSet(RecvAt(s)) /\ Cardinality(RecvAt(s)) \in Nat
<1>1. Len(s) \in Nat /\ DOMAIN s = 1 .. Len(s)
      BY LenProperties
<1>2. IsFiniteSet(1 .. Len(s))
      BY <1>1, FS_Interval
<1>3. RecvAt(s) \in SUBSET (1 .. Len(s))
      BY <1>1 DEF RecvAt
<1>4. IsFiniteSet(RecvAt(s))
      BY <1>2, <1>3, FS_Subset
<1> QED BY <1>4, FS_CardinalityType

\* A completion is reported.
LEMMA RecvPut ==
    ASSUME NEW s \in Seq(Wr), NEW e \in Wr
    PROVE  Cardinality(RecvAt(Append(s, e)))
             = Cardinality(RecvAt(s)) + (IF e.op = "RECV" THEN 1 ELSE 0)
<1>1. Len(s) \in Nat /\ DOMAIN s = 1 .. Len(s)
      BY LenProperties
<1>2. PICK a : a = Append(s, e)
      OBVIOUS
<1>3. /\ DOMAIN a = 1 .. Len(s) + 1 /\ a[Len(s) + 1] = e
      /\ \A j \in 1 .. Len(s) : a[j] = s[j]
      BY <1>2
<1>4. Len(s) + 1 \notin RecvAt(s)
      BY <1>1 DEF RecvAt
<1>5. CASE e.op = "RECV"
  <2>1. RecvAt(a) = RecvAt(s) \cup {Len(s) + 1}
        BY <1>1, <1>3, <1>5 DEF RecvAt
  <2>2. Cardinality(RecvAt(s) \cup {Len(s) + 1}) = Cardinality(RecvAt(s)) + 1
        BY <1>4, RecvFinite, FS_AddElement
  <2> QED BY <1>2, <1>5, <2>1, <2>2
<1>6. CASE e.op # "RECV"
  <2>1. RecvAt(a) = RecvAt(s)
        BY <1>1, <1>3, <1>6 DEF RecvAt
  <2> QED BY <1>2, <1>6, <2>1, RecvFinite
<1> QED BY <1>5, <1>6

\* A completion is polled.
LEMMA RecvTake ==
    ASSUME NEW s \in Seq(Wr), s # <<>>
    PROVE  /\ Tail(s) \in Seq(Wr)
           /\ Cardinality(RecvAt(s))
                = Cardinality(RecvAt(Tail(s))) + (IF Head(s).op = "RECV" THEN 1 ELSE 0)
<1>1. Len(s) \in Nat /\ DOMAIN s = 1 .. Len(s) /\ Len(s) > 0 /\ Head(s) = s[1]
      BY LenProperties, EmptySeq
<1>2. PICK t : t = Tail(s)
      OBVIOUS
<1>3. /\ t \in Seq(Wr) /\ Len(t) = Len(s) - 1
      /\ \A j \in 1 .. Len(s) - 1 : t[j] = s[j + 1]
      BY <1>1, <1>2, HeadTailProperties
<1>4. DOMAIN t = 1 .. Len(s) - 1
      BY <1>3, LenProperties
<1> DEFINE f == [i \in RecvAt(t) |-> i + 1]
<1>5. \A i \in RecvAt(t) : i \in Nat /\ f[i] = i + 1
      BY <1>1, <1>4 DEF RecvAt
<1>6. \A i \in RecvAt(t) : i + 1 \in RecvAt(s) \ {1}
      BY <1>1, <1>3, <1>4 DEF RecvAt
<1>7. \A j \in RecvAt(s) \ {1} : j - 1 \in RecvAt(t) /\ j = (j - 1) + 1
      BY <1>1, <1>3, <1>4 DEF RecvAt
<1>8. f \in Bijection(RecvAt(t), RecvAt(s) \ {1})
  <2>1. f \in [RecvAt(t) -> RecvAt(s) \ {1}]
        BY <1>6
  <2>2. \A i, j \in RecvAt(t) : f[i] = f[j] => i = j
        BY <1>5
  <2>3. \A j \in RecvAt(s) \ {1} : \E i \in RecvAt(t) : f[i] = j
    <3>1. ASSUME NEW j \in RecvAt(s) \ {1} PROVE f[j - 1] = j
          BY <1>5, <1>7
    <3> QED BY <1>7, <3>1
  <2> HIDE DEF f
  <2> QED BY <2>1, <2>2, <2>3 DEF Bijection, Injection, Surjection, IsInjective
<1>9. Cardinality(RecvAt(s) \ {1}) = Cardinality(RecvAt(t))
  <2>1. ExistsBijection(RecvAt(t), RecvAt(s) \ {1})
        BY <1>8 DEF ExistsBijection
  <2>2. IsFiniteSet(RecvAt(t))
        BY <1>3, RecvFinite
  <2> QED BY <2>1, <2>2, FS_Bijection
<1>10. Cardinality(RecvAt(s) \ {1})
         = IF 1 \in RecvAt(s) THEN Cardinality(RecvAt(s)) - 1 ELSE Cardinality(RecvAt(s))
      BY RecvFinite, FS_RemoveElement
<1>11. 1 \in RecvAt(s) <=> Head(s).op = "RECV"
      BY <1>1 DEF RecvAt
<1>12. Cardinality(RecvAt(s)) \in Nat
      BY RecvFinite
<1> QED BY <1>2, <1>3, <1>9, <1>10, <1>11, <1>12

\* A receive that a message has consumed is a completion or is being handled.
Busy == IF poller.pc \in {"EAGER", "status", "free", "RDMA_READ", "repost"} THEN 1 ELSE 0
Credits == Len(rq[1]) + Busy + Cardinality(RecvAt(cq)) = PendingRecvs

\* With one connection the poller and the completions are all of that one, and
\* Credits is CreditsKept.
LEMMA CreditsOfOne ==
    ASSUME NumConn = 1, PoolInv
    PROVE  Credits <=> CreditsKept
<1>1. PICK loc, idx : Placed(loc, idx)
      BY DEF PoolInv
<1>2. TypeOK /\ Threads
      BY DEF PoolInv
<1>3. Conn = {1}
      BY DEF Conn
<1>4. \A q \in Query : conn[q] # None => conn[q] = 1
      BY <1>2, <1>3 DEF TypeOK
<1>5. Handling(1) = Busy
  <2>1. ASSUME poller.pc \in {"EAGER", "status", "free", "RDMA_READ"}
        PROVE  poller.act \in Query /\ conn[poller.act] # None
    <3>1. poller.pc \in Holding /\ poller.act \in Query
          BY <1>2, <2>1 DEF Threads, Holding
    <3> QED BY <1>1, <3>1 DEF Placed, Located, InHands, Fields
  <2>2. poller.pc = "repost" => poller.act \in Query /\ conn[poller.act] # None
        BY <1>2 DEF Threads
  <2> QED BY <1>4, <2>1, <2>2 DEF Handling, Busy
<1>6. {i \in DOMAIN cq : cq[i].op = "RECV" /\ conn[cq[i].query] = 1} = RecvAt(cq)
  <2>1. ASSUME NEW i \in DOMAIN cq PROVE conn[cq[i].query] = 1
    <3>1. cq[i] \in Range(cq)
          BY DEF Range
    <3>2. cq[i].query \in Query /\ loc[cq[i].query] = "cq"
          BY <1>1, <1>2, <3>1, EntryQueries
    <3> QED BY <1>1, <1>4, <3>2 DEF Placed, Fields
  <2> QED BY <2>1 DEF RecvAt
<1> QED BY <1>3, <1>5, <1>6 DEF Credits, CreditsKept

\* The receives posted at the start.
LEMMA InitCredits ==
    ASSUME NumConn = 1, Init
    PROVE  Credits
<1>1. PICK P : P = PendingRecvs /\ P \in Nat
      BY PoolAssumption
<1>2. rq[1] = [k \in 1 .. P |-> (1 - 1) * P + k]
      BY <1>1 DEF Init, Conn
<1>3. Len(rq[1]) = P
  <2>1. Len([k \in 1 .. P |-> (1 - 1) * P + k]) = P
        BY <1>1
  <2> QED BY <1>2, <2>1
<1>4. Busy = 0
      BY DEF Init, Idle, Busy
<1>5. Cardinality(RecvAt(cq)) = 0
  <2>1. RecvAt(cq) = {}
        BY DEF Init, RecvAt
  <2> QED BY <2>1, FS_EmptySet
<1> QED BY <1>1, <1>3, <1>4, <1>5 DEF Credits

\* The same four numbers, added in another order.
LEMMA SumOrder ==
    ASSUME NEW i \in Nat, NEW j \in Nat, NEW k \in Nat, NEW l \in Nat
    PROVE  i + (j + k) + l = i + j + (l + k)
OBVIOUS

\* Every step moves a credit on, or leaves it alone.
LEMMA StepCredits ==
    ASSUME NumConn = 1, PoolInv, Credits, [Next]_vars
    PROVE  Credits'
<1>1. PICK loc, idx : Placed(loc, idx)
      BY DEF PoolInv
<1>2. TypeOK /\ Threads
      BY DEF PoolInv
<1>3. Conn = {1}
      BY DEF Conn
<1>4. /\ cq \in Seq(Wr) /\ sq[1] \in Seq(Wr)
      /\ rq[1] \in Seq(Query) /\ rq \in [Conn -> Seq(Query)]
      /\ \A e \in Range(sq[1]) : e.op # "RECV"
      BY <1>1, <1>2, <1>3, EntryQueries DEF TypeOK
<1>5. Cardinality(RecvAt(cq)) \in Nat /\ Len(rq[1]) \in Nat
      BY <1>4, RecvFinite, LenProperties
<1>6. Len(rq[1]) + Busy + Cardinality(RecvAt(cq)) = PendingRecvs
      BY DEF Credits
<1>7. ASSUME cq' = cq, rq' = rq, Busy' = Busy PROVE Credits'
      BY <1>6, <1>7 DEF Credits
<1>8. ASSUME cq # <<>>, cq' = Tail(cq), rq' = rq,
             Busy' = Busy + (IF Head(cq).op = "RECV" THEN 1 ELSE 0)
      PROVE  Credits'
  <2>1. PICK d \in {0, 1} : d = IF Head(cq).op = "RECV" THEN 1 ELSE 0
        OBVIOUS
  <2>2. PICK m, n, b : m = Cardinality(RecvAt(cq)) /\ n = Cardinality(RecvAt(cq))' /\ b = Busy
        OBVIOUS
  <2>3. cq' \in Seq(Wr) /\ m = n + d
        BY <1>4, <1>8, <2>1, <2>2, RecvTake
  <2>4. m \in Nat /\ n \in Nat /\ b \in Nat /\ d \in Nat
        BY <1>5, <2>2, <2>3, RecvFinite DEF Busy
  <2>5. PICK r \in Nat : r = Len(rq[1]) /\ r + b + m = PendingRecvs
        BY <1>5, <1>6, <2>2
  <2>6. r + (b + d) + n = r + b + (n + d)
        BY <2>4, SumOrder
  <2>7. r + (b + d) + n = PendingRecvs
        BY <2>3, <2>5, <2>6
  <2> QED BY <1>8, <2>1, <2>2, <2>5, <2>7 DEF Credits
<1>9. CASE UNCHANGED vars
  <2>1. cq' = cq /\ rq' = rq /\ poller' = poller
        BY <1>9 DEF vars
  <2>2. Busy' = Busy
        BY <2>1 DEF Busy
  <2> QED BY <1>7, <2>1, <2>2
<1>10. CASE \E k \in SendCall, c \in Conn, t \in Tag, op \in Opcode : Isend(k, c, t, op)
      BY <1>7, <1>10 DEF Isend, Busy
<1>11. CASE \E k \in RecvCall, t \in Tag \cup {FMI_ANY_TAG} : Irecv(k, t)
      BY <1>7, <1>11 DEF Irecv, Busy
<1>12. CASE IrecvStatus
      BY <1>7, <1>12 DEF IrecvStatus, Busy
<1>13. CASE \E c \in Conn, t \in Tag, op \in Opcode : PeerSend(c, t, op)
      BY <1>7, <1>13 DEF PeerSend, Busy
<1>14. CASE \E c \in Conn : PeerFin(c)
      BY <1>7, <1>14 DEF PeerFin, Busy
<1>15. CASE \E c \in Conn : Arrive(c)
  <2>1. /\ rq[1] # <<>> /\ rq' = [rq EXCEPT ![1] = Tail(rq[1])] /\ poller' = poller
        /\ cq' = Append(cq, [op |-> "RECV", query |-> Head(rq[1])])
        BY <1>3, <1>15 DEF Arrive
  <2>2. rq'[1] = Tail(rq[1]) /\ Len(Tail(rq[1])) = Len(rq[1]) - 1
        BY <1>3, <1>4, <2>1, HeadTailProperties
  <2>3. [op |-> "RECV", query |-> Head(rq[1])] \in Wr
        BY <1>4, <2>1, HeadTailProperties DEF Wr
  <2>4. Cardinality(RecvAt(cq')) = Cardinality(RecvAt(cq)) + 1
        BY <1>4, <2>1, <2>3, RecvPut
  <2>5. Busy' = Busy /\ Busy \in {0, 1}
        BY <2>1 DEF Busy
  <2> QED BY <1>5, <1>6, <2>2, <2>4, <2>5 DEF Credits
<1>16. CASE \E c \in Conn : Execute(c)
  <2>1. sq[1] # <<>> /\ cq' = Append(cq, Head(sq[1])) /\ rq' = rq /\ poller' = poller
        BY <1>3, <1>16 DEF Execute
  <2>2. Head(sq[1]) \in Wr /\ Head(sq[1]).op # "RECV"
        BY <1>4, <2>1, WrTake
  <2>3. Cardinality(RecvAt(cq')) = Cardinality(RecvAt(cq))
        BY <1>4, <1>5, <2>1, <2>2, RecvPut
  <2>4. Busy' = Busy
        BY <2>1 DEF Busy
  <2> QED BY <1>6, <2>1, <2>3, <2>4 DEF Credits
<1>17. CASE PollInit
  <2>1. /\ poller.pc = "idle" /\ cq # <<>> /\ cq' = Tail(cq) /\ rq' = rq
        /\ Head(cq).op = "RECV"
        BY <1>17 DEF PollInit, Polled
  <2>2. PICK q : q = Head(cq).query
        OBVIOUS
  <2>3. poller'.pc \in {msg[q].opcode, "repost"}
        BY <1>17, <2>2 DEF PollInit
  <2>4. msg[q].opcode \in {"EAGER", "RDMA_READ"}
    <3>1. q \in Query
          BY <1>4, <2>1, <2>2, WrTake
    <3> QED BY <1>2, <3>1 DEF TypeOK, Message, Opcode
  <2>5. Busy = 0 /\ Busy' = 1
        BY <2>1, <2>3, <2>4 DEF Busy
  <2> QED BY <1>8, <2>1, <2>5
<1>18. CASE EagerFlag \/ EagerStatus \/ EagerFree \/ PostRead
  <2>1. /\ poller.pc \in {"EAGER", "status", "free", "RDMA_READ"}
        /\ poller'.pc \in {"status", "free", "repost"}
        /\ cq' = cq /\ rq' = rq
        BY <1>2, <1>18 DEF EagerFlag, EagerStatus, EagerFree, PostRead, TypeOK
  <2>2. Busy = 1 /\ Busy' = 1
        BY <2>1 DEF Busy
  <2> QED BY <1>7, <2>1, <2>2
<1>19. CASE Repost
  <2>1. PICK c, q : c = conn[poller.act] /\ q = Created(c)
        OBVIOUS
  <2>2. c = 1
        BY <1>2, <1>3, <1>19, <2>1 DEF Repost, Threads, TypeOK
  <2>3. /\ poller.pc = "repost" /\ poller'.pc = "idle" /\ cq' = cq
        /\ rq' = [rq EXCEPT ![1] = Append(rq[1], q)]
        BY <1>19, <2>1, <2>2 DEF Repost, Idle
  <2>4. rq'[1] = Append(rq[1], q) /\ Len(Append(rq[1], q)) = Len(rq[1]) + 1
        BY <1>3, <1>4, <2>3
  <2>5. Busy = 1 /\ Busy' = 0
        BY <2>3 DEF Busy
  <2> QED BY <1>5, <1>6, <2>3, <2>4, <2>5 DEF Credits
<1>20. CASE ReadStatus \/ ReadFin
  <2>1. /\ poller.pc \in {"read", "fin"} /\ poller'.pc \in {"fin", "idle"}
        /\ cq' = cq /\ rq' = rq
        BY <1>2, <1>20 DEF ReadStatus, ReadFin, Idle, TypeOK
  <2>2. Busy = 0 /\ Busy' = 0
        BY <2>1 DEF Busy
  <2> QED BY <1>7, <2>1, <2>2
<1>21. CASE PollRead \/ PollSent \/ PollFinSent
  <2>1. /\ poller.pc = "idle" /\ poller'.pc \in {"idle", "read"} /\ Head(cq).op # "RECV"
        /\ cq # <<>> /\ cq' = Tail(cq) /\ rq' = rq
    <3>1. CASE PollRead
          BY <3>1 DEF PollRead, Polled
    <3>2. CASE PollSent
          BY <3>2 DEF PollSent, Polled
    <3>3. CASE PollFinSent
          BY <3>3 DEF PollFinSent, Polled
    <3> QED BY <1>21, <3>1, <3>2, <3>3
  <2>2. Busy = 0 /\ Busy' = 0
        BY <2>1 DEF Busy
  <2> QED BY <1>8, <2>1, <2>2
<1>22. CASE PollFin
  <2>1. /\ poller.pc = "idle" /\ poller'.pc = "repost" /\ Head(cq).op = "RECV"
        /\ cq # <<>> /\ cq' = Tail(cq) /\ rq' = rq
        BY <1>22 DEF PollFin, Polled
  <2>2. Busy = 0 /\ Busy' = 1
        BY <2>1 DEF Busy
  <2> QED BY <1>8, <2>1, <2>2
<1> QED BY <1>9, <1>10, <1>11, <1>12, <1>13, <1>14, <1>15, <1>16, <1>17, <1>18, <1>19,
           <1>20, <1>21, <1>22 DEF Next, PollerStep

\* A process with one connection, as every client, keeps its receive credits:
\* each handler replaces the receive that its message has consumed.  With more
\* connections Repost may take the connection of a query that irecv has freed
\* and isend reused, and the credit moves to another connection.
THEOREM OneConnectionKeepsCredits ==
    ASSUME NumConn = 1
    PROVE  Spec => []CreditsKept
<1>1. Init => PoolInv /\ Credits
      BY InitPool, InitCredits
<1>2. PoolInv /\ Credits /\ [Next]_vars => PoolInv' /\ Credits'
      BY StepKeeps, StepCredits
<1>3. PoolInv /\ Credits => CreditsKept
      BY CreditsOfOne
<1> QED BY <1>1, <1>2, <1>3, PTL DEF Spec

=============================================================================
