------------------------- MODULE FdmiConnectProofs -------------------------
(* Proofs about FdmiConnect, for any number of processes and calls. *)
EXTENDS FdmiConnect, QueueLemmas, FiniteSetTheorems

\* The locks that are held are those of the ranks given out so far.
LocksInv ==
    /\ connected_rank \in [Proc -> Nat]
    /\ on_connecting \in [Proc -> [Rank -> BOOLEAN]]
    /\ \A p \in Proc, r \in Rank : on_connecting[p][r] => r < connected_rank[p]

\* No process has given out a rank or taken a lock.
LEMMA InitLocks == Init => LocksInv
  BY DEF Init, LocksInv

\* The one step that takes a lock: the next caller's rank is larger than it.
LEMMA TakePeerLocks ==
    ASSUME LocksInv, NEW p \in Proc, TakePeer(p)
    PROVE  LocksInv'
<1> DEFINE k == connected_rank[p]
<1>1. k \in Nat /\ k \in Rank
  BY DEF LocksInv, TakePeer
<1>2. connected_rank' = [connected_rank EXCEPT ![p] = k + 1]
      /\ on_connecting' = [on_connecting EXCEPT ![p][k] = TRUE]
  BY DEF TakePeer
<1>3. connected_rank' \in [Proc -> Nat]
  BY <1>1, <1>2 DEF LocksInv
<1>4. on_connecting' \in [Proc -> [Rank -> BOOLEAN]]
  BY <1>1, <1>2 DEF LocksInv
<1>5. ASSUME NEW q \in Proc, NEW r \in Rank, on_connecting'[q][r]
      PROVE  r < connected_rank'[q]
  <2>1. CASE q = p /\ r = k
    BY <1>1, <1>2, <2>1 DEF LocksInv
  <2>2. CASE q = p /\ r # k
    <3>1. on_connecting[q][r]
      BY <1>1, <1>2, <1>5, <2>2 DEF LocksInv
    <3>2. r < k
      BY <3>1, <2>2 DEF LocksInv
    <3> QED
      BY <1>1, <1>2, <2>2, <3>2, ConnectAssumption DEF LocksInv, Rank
  <2>3. CASE q # p
    <3>1. on_connecting[q][r] /\ connected_rank'[q] = connected_rank[q]
      BY <1>1, <1>2, <1>5, <2>3 DEF LocksInv
    <3> QED
      BY <3>1 DEF LocksInv
  <2> QED
    BY <2>1, <2>2, <2>3
<1> QED
  BY <1>3, <1>4, <1>5 DEF LocksInv

\* Every other step leaves ranks and locks alone.
LEMMA OtherLocks ==
    ASSUME LocksInv, UNCHANGED <<connected_rank, on_connecting>>
    PROVE  LocksInv'
  BY DEF LocksInv

\* Every step of FdmiConnect keeps the invariant.
LEMMA NextLocks == LocksInv /\ [Next]_vars => LocksInv'
<1> SUFFICES ASSUME LocksInv, [Next]_vars PROVE LocksInv'
  OBVIOUS
<1>1. ASSUME NEW c \in Call, VerbsConnect(c) \/ VerbsConnectReturns(c)
                             \/ FirstMessage(c) \/ Break(c)
      PROVE  LocksInv'
  BY <1>1, OtherLocks DEF VerbsConnect, VerbsConnectReturns, FirstMessage, Break, peers
<1>2. ASSUME NEW p \in Listener, WaitReady(p)
      PROVE  LocksInv'
  BY <1>2, OtherLocks DEF WaitReady, peers
<1>3. ASSUME NEW p \in Proc, EventThread(p)
      PROVE  LocksInv'
  <2>1. CASE ConnectRequest(p)
    BY <2>1, TakePeerLocks DEF ConnectRequest
  <2>2. CASE CreateDctx(p) \/ CreateQueryQp(p) \/ RouteResolved(p) \/ PostRecv(p)
             \/ Disconnected(p)
    BY <2>2, OtherLocks
       DEF CreateDctx, CreateQueryQp, RouteResolved, PostRecv, Disconnected, peers
  <2>3. CASE AddrResolved(p) \/ Established(p)
    BY <2>3, OtherLocks DEF AddrResolved, Established
  <2> QED
    BY <1>3, <2>1, <2>2, <2>3 DEF EventThread
<1>4. ASSUME NEW e \in cm, CmReport(e)
      PROVE  LocksInv'
  BY <1>4, OtherLocks DEF CmReport, peers
<1>5. CASE UNCHANGED vars
  BY <1>5, OtherLocks DEF vars, peers
<1> QED
  BY <1>1, <1>2, <1>3, <1>4, <1>5 DEF Next

\* In CONNECT_REQUEST the trylock of on_connecting_lock always succeeds, however
\* many callers there are and whatever becomes of their connections: the branch
\* of fdmi_poll_event_recv_channel that rejects a caller never runs.
THEOREM NoCallerIsRejected == Spec => []LockIsFree
<1>1. LocksInv => LockIsFree
  BY DEF LocksInv, LockIsFree
<1> QED
  BY InitLocks, NextLocks, <1>1, PTL DEF Spec

----------------------------------------------------------------------------
\* The event thread and the connection manager hold events of the right end: only
\* the passive end is asked to connect, only the active one resolves an address.
RightEnd(e) ==
    /\ e \in Event
    /\ e.type = "CONNECT_REQUEST" => e.id.side = "passive"
    /\ e.type = "ADDR_RESOLVED" => e.id.side = "active"

EventsInv ==
    /\ \A e \in cm : RightEnd(e)
    /\ events \in [Proc -> Seq(Event)]
    /\ \A p \in Proc : \A k \in DOMAIN events[p] :
          RightEnd(events[p][k]) /\ Owner(events[p][k].id) = p

\* A rank is given out to one caller: the id of the caller is in the table under
\* it, and it leads back to that id for ever.
Given(c, r) ==
    /\ r \in Rank /\ r < connected_rank[CallHost[c]]
    /\ conn[CallHost[c]][r] = Passive(c)

RanksInv ==
    /\ conn \in [Proc -> [Rank -> Id \cup {None}]]
    /\ itop \in [Id -> Rank \cup {None}]
    /\ posted \in [Id -> Nat]
    /\ source \in [Call -> Rank \cup {None}]
    /\ \A c \in Call : itop[Passive(c)] # None => Given(c, itop[Passive(c)])
    /\ \A c \in Call, p \in Proc, r \in Rank :
          conn[p][r] = Passive(c) => itop[Passive(c)] # None
    /\ \A c \in Call : posted[Passive(c)] > 0 => itop[Passive(c)] # None
    /\ \A c \in Call : source[c] # None => Given(c, source[c])

SourceInv == LocksInv /\ EventsInv /\ RanksInv

\* Nothing is connected, and nothing has been reported.
LEMMA InitSource == Init => SourceInv
<1> SUFFICES ASSUME Init PROVE SourceInv
  OBVIOUS
<1>1. LocksInv
  BY InitLocks
<1>2. EventsInv
  BY DEF Init, EventsInv
<1>3. ASSUME NEW c \in Call PROVE Passive(c) \in Id
  BY <1>3 DEF Passive, Id
<1>4. ASSUME NEW c \in Call PROVE Passive(c) # None
  BY <1>3, <1>4, NoneIsNoId
<1>5. RanksInv
  BY <1>3, <1>4, ConnectAssumption DEF Init, RanksInv
<1> QED
  BY <1>1, <1>2, <1>5 DEF SourceInv

\* The two ends of a call are different ids.
LEMMA Ends ==
    /\ \A c \in Call : Active(c) \in Id /\ Passive(c) \in Id
    /\ \A c \in Call : Passive(c) # None /\ Active(c) # None
    /\ \A c, d \in Call : Passive(c) # Active(d) /\ (Passive(c) = Passive(d) => c = d)
    /\ \A c \in Call : Owner(Passive(c)) = CallHost[c] /\ Owner(Active(c)) = Caller[c]
    /\ \A i \in Id : i.call \in Call /\ (i = Active(i.call) \/ i = Passive(i.call))
<1>1. \A c \in Call : Active(c) \in Id /\ Passive(c) \in Id
  BY DEF Active, Passive, Id
<1>2. \A c \in Call : Passive(c) # None /\ Active(c) # None
  BY <1>1, NoneIsNoId
<1>3. \A c, d \in Call : Passive(c) # Active(d) /\ (Passive(c) = Passive(d) => c = d)
  BY DEF Active, Passive
<1>4. \A c \in Call : Owner(Passive(c)) = CallHost[c] /\ Owner(Active(c)) = Caller[c]
  BY DEF Active, Passive, Owner
<1>5. \A i \in Id : i.call \in Call /\ (i = Active(i.call) \/ i = Passive(i.call))
  BY DEF Active, Passive, Id
<1> QED
  BY <1>1, <1>2, <1>3, <1>4, <1>5

\* What the event thread knows of the event it is handling.
LEMMA HeadEvent ==
    ASSUME EventsInv, NEW p \in Proc, events[p] # <<>>
    PROVE  /\ Head(events[p]) \in Event /\ RightEnd(Head(events[p]))
           /\ NextId(p) \in Id /\ Owner(NextId(p)) = p
           /\ NextId(p).call \in Call
<1>1. events[p] \in Seq(Event)
  BY DEF EventsInv
<1>2. Head(events[p]) \in Event /\ 1 \in DOMAIN events[p] /\ Head(events[p]) = events[p][1]
  BY <1>1, TailEntries
<1>3. RightEnd(Head(events[p])) /\ Owner(NextId(p)) = p
  BY <1>2 DEF EventsInv, NextId
<1> QED
  BY <1>2, <1>3, Ends DEF Event, NextId

\* An event that has been handled leaves the channel with events it had before.
LEMMA HandledEvents ==
    ASSUME EventsInv, NEW p \in Proc, events[p] # <<>>, Handled(p),
           \A e \in cm' : RightEnd(e)
    PROVE  EventsInv'
<1> DEFINE t == Tail(events[p])
<1>1. events[p] \in Seq(Event)
  BY DEF EventsInv
<1>2. t \in Seq(Event) /\ \A j \in DOMAIN t : \E k \in DOMAIN events[p] : t[j] = events[p][k]
  BY <1>1, TailEntries
<1>3. events' = [events EXCEPT ![p] = t]
  BY DEF Handled
<1> HIDE DEF t
<1>4. events' \in [Proc -> Seq(Event)]
  BY <1>2, <1>3 DEF EventsInv
<1>5. ASSUME NEW q \in Proc, NEW j \in DOMAIN events'[q]
      PROVE  RightEnd(events'[q][j]) /\ Owner(events'[q][j].id) = q
  <2>1. CASE q = p
    <3>1. events'[q] = t
      BY <1>3, <2>1 DEF EventsInv
    <3>2. PICK k \in DOMAIN events[p] : t[j] = events[p][k]
      BY <3>1, <1>2, <1>5
    <3> QED
      BY <2>1, <3>1, <3>2 DEF EventsInv
  <2>2. CASE q # p
    <3>1. events'[q] = events[q]
      BY <1>3, <2>2 DEF EventsInv
    <3> QED
      BY <3>1, <1>5 DEF EventsInv
  <2> QED
    BY <2>1, <2>2
<1> QED
  BY <1>4, <1>5 DEF EventsInv, RightEnd

\* An event is reported to the process that owns the id.
LEMMA ReportEvents ==
    ASSUME EventsInv, NEW e \in cm, CmReport(e)
    PROVE  EventsInv'
<1>1. RightEnd(e) /\ e \in Event /\ e.id \in Id
  BY DEF EventsInv, RightEnd, Event
<1> DEFINE p == Owner(e.id)
           a == Append(events[p], e)
<1>2. p \in Proc
  BY <1>1, ConnectAssumption DEF Owner, Id
<1>3. events[p] \in Seq(Event)
  BY <1>2 DEF EventsInv
<1>4. a \in Seq(Event)
      /\ \A j \in DOMAIN a : a[j] = e \/ \E k \in DOMAIN events[p] : a[j] = events[p][k]
  BY <1>1, <1>3, AppendEntries
<1>5. events' = [events EXCEPT ![p] = a]
  BY DEF CmReport
<1>6. \A x \in cm' : RightEnd(x)
  <2> DEFINE other == Ev("ESTABLISHED", Passive(e.id.call))
  <2>1. RightEnd(other)
    BY <1>1, Ends DEF RightEnd, Event, Ev
  <2>2. \A x \in cm' : x \in cm \/ x = other
    BY DEF CmReport
  <2> QED
    BY <2>1, <2>2 DEF EventsInv
<1>7. Owner(e.id) = p
  OBVIOUS
<1> HIDE DEF a, p
<1>8. events' \in [Proc -> Seq(Event)]
  BY <1>4, <1>5 DEF EventsInv
<1>9. ASSUME NEW q \in Proc, NEW j \in DOMAIN events'[q]
      PROVE  RightEnd(events'[q][j]) /\ Owner(events'[q][j].id) = q
  <2>1. CASE q = p
    <3>1. events'[q] = a
      BY <1>5, <2>1 DEF EventsInv
    <3>2. CASE a[j] = e
      BY <1>1, <1>7, <2>1, <3>1, <3>2
    <3>3. CASE \E k \in DOMAIN events[p] : a[j] = events[p][k]
      BY <2>1, <3>1, <3>3 DEF EventsInv
    <3> QED
      BY <3>1, <3>2, <3>3, <1>4, <1>9
  <2>2. CASE q # p
    <3>1. events'[q] = events[q]
      BY <1>5, <2>2 DEF EventsInv
    <3> QED
      BY <3>1, <1>9 DEF EventsInv
  <2> QED
    BY <2>1, <2>2
<1> QED
  BY <1>6, <1>8, <1>9 DEF EventsInv, RightEnd

\* A step that leaves the channels alone and asks the connection manager for more.
LEMMA AskedEvents ==
    ASSUME EventsInv, UNCHANGED events, \A e \in cm' : RightEnd(e)
    PROVE  EventsInv'
  BY DEF EventsInv, RightEnd

\* Steps that leave ranks, connections and receives alone.
LEMMA SameRanks ==
    ASSUME RanksInv, UNCHANGED <<connected_rank, conn, itop, posted, source>>
    PROVE  RanksInv'
  BY DEF RanksInv, Given

\* A call enters the rank of its own end: no rank that was given out.
LEMMA ConnectRanks ==
    ASSUME RanksInv, NEW c \in Call, VerbsConnect(c)
    PROVE  RanksInv'
<1>1. itop' = [itop EXCEPT ![Active(c)] = CallRank[c]]
      /\ UNCHANGED <<connected_rank, conn, posted, source>>
  BY DEF VerbsConnect, peers
<1>2. CallRank[c] \in Rank
  BY ConnectAssumption DEF Rank
<1>3. itop' \in [Id -> Rank \cup {None}]
  BY <1>1, <1>2 DEF RanksInv
<1>4. \A d \in Call : itop'[Passive(d)] = itop[Passive(d)]
  BY <1>1, Ends DEF RanksInv
<1> QED
  BY <1>1, <1>3, <1>4 DEF RanksInv, Given

\* A caller gets the next rank: those given out are smaller, so that none is
\* taken from its holder, and the table leads back to the caller.
LEMMA TakePeerRanks ==
    ASSUME LocksInv, RanksInv, NEW p \in Proc, NEW c \in Call, NextId(p) = Passive(c),
           CallHost[c] = p, TakePeer(p), UNCHANGED <<posted, source>>
    PROVE  RanksInv'
<1>0. PICK k \in Rank : k = connected_rank[p]
  BY DEF TakePeer
<1>1. k \in Nat /\ k \in Rank
  BY <1>0 DEF LocksInv
<1>2. /\ conn' = [conn EXCEPT ![p][k] = Passive(c)]
      /\ itop' = [itop EXCEPT ![Passive(c)] = k]
      /\ connected_rank' = [connected_rank EXCEPT ![p] = k + 1]
  BY <1>0 DEF TakePeer
<1>3. conn' \in [Proc -> [Rank -> Id \cup {None}]]
  BY <1>1, <1>2, Ends DEF RanksInv
<1>4. itop' \in [Id -> Rank \cup {None}]
  BY <1>1, <1>2 DEF RanksInv
<1>5. \A q \in Proc, r \in Rank :
         conn'[q][r] = IF q = p /\ r = k THEN Passive(c) ELSE conn[q][r]
  BY <1>1, <1>2 DEF RanksInv
<1>6. \A d \in Call : itop'[Passive(d)] = IF d = c THEN k ELSE itop[Passive(d)]
  BY <1>2, Ends DEF RanksInv
<1>7. \A q \in Proc : connected_rank'[q] = IF q = p THEN k + 1 ELSE connected_rank[q]
  BY <1>2 DEF LocksInv
<1>8. k # None
  BY <1>1, NoneIsNoId
<1>10. ASSUME NEW d \in Call, NEW r \in Rank, Given(d, r)
       PROVE  Given(d, r)'
  <2>1. CallHost[d] \in Proc /\ r < connected_rank[CallHost[d]]
        /\ conn[CallHost[d]][r] = Passive(d)
    BY <1>10, ConnectAssumption DEF Given
  <2>2. conn'[CallHost[d]][r] = Passive(d)
    BY <1>1, <1>5, <1>0, <2>1, ConnectAssumption DEF Rank
  <2>3. r < connected_rank'[CallHost[d]]
    BY <1>1, <1>7, <1>0, <2>1, ConnectAssumption DEF Rank
  <2> QED
    BY <2>2, <2>3 DEF Given
<1>11. Given(c, k)'
  BY <1>1, <1>5, <1>7 DEF Given
<1>12. ASSUME NEW d \in Call, itop'[Passive(d)] # None
       PROVE  Given(d, itop[Passive(d)])'
  <2>1. CASE d = c
    BY <1>6, <1>11, <2>1 DEF Given
  <2>2. CASE d # c
    <3>1. itop'[Passive(d)] = itop[Passive(d)] /\ itop[Passive(d)] # None
      BY <1>6, <1>12, <2>2
    <3>2. Given(d, itop[Passive(d)])
      BY <3>1 DEF RanksInv
    <3>3. PICK r \in Rank : r = itop[Passive(d)]
      BY <3>2 DEF Given
    <3>4. Given(d, r)'
      BY <3>2, <3>3, <1>10
    <3> QED
      BY <3>1, <3>3, <3>4 DEF Given
  <2> QED
    BY <2>1, <2>2
<1>13. ASSUME NEW d \in Call, NEW q \in Proc, NEW r \in Rank, conn'[q][r] = Passive(d)
       PROVE  itop'[Passive(d)] # None
  BY <1>5, <1>6, <1>8, <1>13, Ends DEF RanksInv
<1>14. ASSUME NEW d \in Call, posted'[Passive(d)] > 0
       PROVE  itop'[Passive(d)] # None
  BY <1>6, <1>8, <1>14 DEF RanksInv
<1>15. ASSUME NEW d \in Call, source'[d] # None
       PROVE  Given(d, source[d])'
  <2>1. PICK r \in Rank : r = source[d] /\ Given(d, r) /\ source'[d] = r
    BY <1>15 DEF RanksInv, Given
  <2>2. Given(d, r)'
    BY <2>1, <1>10
  <2> QED
    BY <2>1, <2>2 DEF Given
<1> QED
  BY <1>3, <1>4, <1>12, <1>13, <1>14, <1>15 DEF RanksInv

\* The active end is stored for a rank only where there is no connection.
LEMMA AddrResolvedRanks ==
    ASSUME EventsInv, RanksInv, NEW p \in Proc, AddrResolved(p)
    PROVE  RanksInv'
<1> DEFINE r == Itop(NextId(p))
           c == NextId(p).call
<1>1. c \in Call /\ NextId(p) = Active(c)
  <2>1. events[p] # <<>> /\ Head(events[p]).type = "ADDR_RESOLVED"
    BY DEF AddrResolved, Handling
  <2>2. NextId(p) \in Id /\ NextId(p).side = "active"
    BY <2>1, HeadEvent DEF RightEnd, NextId
  <2> QED
    BY <2>2 DEF Id, Active
<1>2. CASE conn[p][r] = None
  <2>1. conn' = [conn EXCEPT ![p][r] = Active(c)]
        /\ UNCHANGED <<connected_rank, itop, posted, source>>
    BY <1>1, <1>2 DEF AddrResolved, ends
  <2>2. r \in Rank
    BY <1>1, Ends, ConnectAssumption DEF Itop, RanksInv, Rank
  <2> HIDE DEF r, c
  <2>3. conn' \in [Proc -> [Rank -> Id \cup {None}]]
    BY <1>1, <2>1, <2>2, Ends DEF RanksInv
  <2>4. \A q \in Proc, x \in Rank :
           conn'[q][x] = IF q = p /\ x = r THEN Active(c) ELSE conn[q][x]
    BY <2>1, <2>2 DEF RanksInv
  <2>5. \A d \in Call, q \in Proc, x \in Rank :
           conn'[q][x] = Passive(d) <=> conn[q][x] = Passive(d)
    BY <1>1, <1>2, <2>4, Ends
  <2>6. \A d \in Call : CallHost[d] \in Proc
    BY ConnectAssumption
  <2>7. \A d \in Call, x \in Rank : Given(d, x) => Given(d, x)'
    BY <2>1, <2>5, <2>6 DEF Given
  <2> QED
    BY <2>1, <2>3, <2>5, <2>6 DEF RanksInv, Given
<1>3. CASE conn[p][r] # None
  BY <1>3, SameRanks DEF AddrResolved, ends
<1> QED
  BY <1>2, <1>3

\* A receive is posted on a stored connection, whose id is in the table.
LEMMA PostRecvRanks ==
    ASSUME EventsInv, RanksInv, NEW p \in Proc, PostRecv(p)
    PROVE  RanksInv'
<1> DEFINE r == Itop(NextId(p))
           i == conn[p][r]
<1>1. posted' = [posted EXCEPT ![i] = @ + 1]
      /\ UNCHANGED <<connected_rank, conn, itop, source>>
  BY DEF PostRecv, peers
<1>2. NextId(p) \in Id
  BY HeadEvent DEF PostRecv, Handling
<1>3. r \in Rank
  BY <1>2, ConnectAssumption DEF Itop, RanksInv, Rank
<1>4. i = conn[p][r]
  OBVIOUS
<1> HIDE DEF r, i
<1>5. posted' \in [Id -> Nat]
  <2>1. CASE i \in Id
    BY <1>1, <2>1 DEF RanksInv
  <2>2. CASE i \notin Id
    BY <1>1, <2>2 DEF RanksInv
  <2> QED
    BY <2>1, <2>2
<1>6. ASSUME NEW c \in Call, posted'[Passive(c)] > 0
      PROVE  itop[Passive(c)] # None
  <2>1. CASE i = Passive(c)
    BY <1>3, <1>4, <2>1 DEF RanksInv
  <2>2. CASE i # Passive(c)
    <3>1. posted'[Passive(c)] = posted[Passive(c)]
      BY <1>1, <2>2, Ends DEF RanksInv
    <3> QED
      BY <1>6, <3>1 DEF RanksInv
  <2> QED
    BY <2>1, <2>2
<1> QED
  BY <1>1, <1>5, <1>6 DEF RanksInv, Given

\* A message is received on a connection whose id has been given a rank.
LEMMA FirstMessageRanks ==
    ASSUME RanksInv, NEW c \in Call, FirstMessage(c)
    PROVE  RanksInv'
<1> DEFINE r == itop[Passive(c)]
<1>1. r # None
  BY DEF FirstMessage, RanksInv
<1>2. source' = [source EXCEPT ![c] = r]
      /\ UNCHANGED <<connected_rank, conn, itop, posted>>
  BY <1>1 DEF FirstMessage, Itop, peers, ends
<1>3. Given(c, r)
  BY <1>1 DEF RanksInv
<1> HIDE DEF r
<1>4. source' \in [Call -> Rank \cup {None}]
  BY <1>2, <1>3 DEF RanksInv, Given
<1>5. ASSUME NEW d \in Call, source'[d] # None
      PROVE  Given(d, source'[d])
  BY <1>2, <1>3, <1>5 DEF RanksInv
<1> QED
  BY <1>2, <1>4, <1>5 DEF RanksInv, Given

\* Every step of FdmiConnect keeps the invariant.
LEMMA NextSource == SourceInv /\ [Next]_vars => SourceInv'
<1> SUFFICES ASSUME SourceInv, [Next]_vars PROVE SourceInv'
  OBVIOUS
<1> USE DEF SourceInv
<1>0. LocksInv'
  BY NextLocks
<1>1. ASSUME NEW c \in Call, VerbsConnect(c) PROVE EventsInv' /\ RanksInv'
  <2>1. RightEnd(Ev("ADDR_RESOLVED", Active(c)))
    BY <1>1, Ends DEF RightEnd, Ev, Event, Active
  <2>2. EventsInv'
    BY <1>1, <2>1, AskedEvents DEF VerbsConnect, EventsInv
  <2> QED
    BY <1>1, <2>2, ConnectRanks
<1>2. ASSUME NEW c \in Call, VerbsConnectReturns(c) PROVE EventsInv' /\ RanksInv'
  BY <1>2, SameRanks, AskedEvents DEF VerbsConnectReturns, peers, ends, net, EventsInv
<1>3. ASSUME NEW c \in Call, FirstMessage(c) PROVE EventsInv' /\ RanksInv'
  BY <1>3, FirstMessageRanks, AskedEvents DEF FirstMessage, net, EventsInv
<1>4. ASSUME NEW c \in Call, Break(c) PROVE EventsInv' /\ RanksInv'
  <2>1. RightEnd(Ev("DISCONNECTED", Active(c))) /\ RightEnd(Ev("DISCONNECTED", Passive(c)))
    BY <1>4, Ends DEF RightEnd, Ev, Event
  <2>2. EventsInv'
    BY <1>4, <2>1, AskedEvents DEF Break, EventsInv
  <2> QED
    BY <1>4, <2>2, SameRanks DEF Break, peers, ends
<1>5. ASSUME NEW p \in Listener, WaitReady(p) PROVE EventsInv' /\ RanksInv'
  BY <1>5, SameRanks, AskedEvents DEF WaitReady, peers, ends, net, EventsInv
<1>6. ASSUME NEW p \in Proc, EventThread(p) PROVE EventsInv' /\ RanksInv'
  <2>1. CASE CreateDctx(p) \/ CreateQueryQp(p)
    BY <2>1, SameRanks, AskedEvents
       DEF CreateDctx, CreateQueryQp, peers, ends, net, EventsInv
  <2>2. CASE ConnectRequest(p)
    <3> DEFINE c == NextId(p).call
    <3>1. events[p] # <<>> /\ Head(events[p]).type = "CONNECT_REQUEST"
      BY <2>2 DEF ConnectRequest, Handling
    <3>2. NextId(p) \in Id /\ NextId(p).side = "passive" /\ Owner(NextId(p)) = p
          /\ c \in Call
      BY <3>1, HeadEvent DEF RightEnd, NextId
    <3>3. NextId(p) = Passive(c) /\ CallHost[c] = p
      BY <3>2 DEF Id, Passive, Owner
    <3>4. RightEnd(Ev("ESTABLISHED", Active(c)))
      BY <3>2, Ends DEF RightEnd, Ev, Event
    <3>5. Handled(p) /\ \A e \in cm' : RightEnd(e)
      BY <2>2, <3>4 DEF ConnectRequest, EventsInv
    <3>6. EventsInv'
      BY <3>1, <3>5, HandledEvents
    <3>7. RanksInv'
      <4>1. TakePeer(p) /\ UNCHANGED <<posted, source>>
        BY <2>2 DEF ConnectRequest
      <4> HIDE DEF c
      <4> QED
        BY <3>2, <3>3, <4>1, TakePeerRanks
    <3> QED
      BY <3>6, <3>7
  <2>3. CASE AddrResolved(p)
    <3>1. events[p] # <<>> /\ Head(events[p]).type = "ADDR_RESOLVED"
      BY <2>3 DEF AddrResolved, Handling
    <3>2. NextId(p) \in Id
      BY <3>1, HeadEvent
    <3>3. RightEnd(Ev("ROUTE_RESOLVED", NextId(p)))
      BY <3>2 DEF RightEnd, Ev, Event
    <3>4. Handled(p) /\ \A e \in cm' : RightEnd(e)
      BY <2>3, <3>3 DEF AddrResolved, EventsInv
    <3> QED
      BY <2>3, <3>1, <3>4, HandledEvents, AddrResolvedRanks
  <2>4. CASE RouteResolved(p)
    <3>1. events[p] # <<>>
      BY <2>4 DEF RouteResolved, Handling
    <3>2. NextId(p).call \in Call
      BY <3>1, HeadEvent
    <3>3. RightEnd(Ev("CONNECT_REQUEST", Passive(NextId(p).call)))
      BY <3>2, Ends DEF RightEnd, Ev, Event, Passive
    <3>4. Handled(p) /\ \A e \in cm' : RightEnd(e)
      BY <2>4, <3>3 DEF RouteResolved, EventsInv
    <3>5. RanksInv'
      BY <2>4, SameRanks DEF RouteResolved, peers, ends
    <3> QED
      BY <3>1, <3>4, <3>5, HandledEvents
  <2>5. CASE PostRecv(p)
    BY <2>5, PostRecvRanks, AskedEvents DEF PostRecv, net, EventsInv
  <2>6. CASE Established(p)
    <3>1. events[p] # <<>> /\ Handled(p) /\ cm' = cm
      BY <2>6 DEF Established, Handling
    <3>2. EventsInv'
      BY <3>1, HandledEvents DEF EventsInv
    <3> QED
      BY <2>6, <3>2, SameRanks DEF Established, ends
  <2>7. CASE Disconnected(p)
    <3>1. events[p] # <<>> /\ Handled(p) /\ cm' = cm
      BY <2>7 DEF Disconnected, Handling
    <3>2. EventsInv'
      BY <3>1, HandledEvents DEF EventsInv
    <3> QED
      BY <2>7, <3>2, SameRanks DEF Disconnected, peers, ends
  <2> QED
    BY <1>6, <2>1, <2>2, <2>3, <2>4, <2>5, <2>6, <2>7 DEF EventThread
<1>7. ASSUME NEW e \in cm, CmReport(e) PROVE EventsInv' /\ RanksInv'
  BY <1>7, ReportEvents, SameRanks DEF CmReport, peers, ends
<1>8. ASSUME UNCHANGED vars PROVE EventsInv' /\ RanksInv'
  BY <1>8, SameRanks, AskedEvents DEF vars, peers, ends, net, EventsInv
<1>9. EventsInv' /\ RanksInv'
  <2> HIDE DEF SourceInv
  <2> QED
    BY <1>1, <1>2, <1>3, <1>4, <1>5, <1>6, <1>7, <1>8 DEF Next
<1> QED
  BY <1>0, <1>9

\* A server that answers to the source of a message answers its sender, for any
\* number of clients and servers, callers that also listen and connections that
\* are lost: fdmi_poll_sendrecv_cq reports a rank that the event thread has given
\* to that client and will give to no other.
THEOREM SourceLeadsBack == Spec => []SourceNamesClient
<1>1. SourceInv => SourceNamesClient
  BY DEF SourceInv, RanksInv, Given, SourceNamesClient
<1> QED
  BY InitSource, NextSource, <1>1, PTL DEF Spec

----------------------------------------------------------------------------
(* Clients and servers *)

\* No process both calls and is called: then the ranks that a process chooses
\* and the ranks that it gives out do not meet in one array of peers.
OneRole == \A c, d \in Call : Caller[c] # CallHost[d]

\* The calls of a process with one rank name one host.
OneHost ==
    \A c, d \in Call : Caller[c] = Caller[d] /\ CallRank[c] = CallRank[d]
                          => CallHost[c] = CallHost[d]

\* An event that has been caused and not been handled.
Pending(e) == e \in cm \/ \E p \in Proc : e \in Range(events[p])

\* The end i is in the table, its rank leads to it, and it has its queues.
Up(i)   == itop[i] # None /\ conn[Owner(i)][itop[i]] = i /\ dctx[Owner(i)] = "queues"
Both(c) == Up(Active(c)) /\ Up(Passive(c))

\* What has been done when an event is caused.
EventOK(e) ==
    /\ e.type = "ADDR_RESOLVED" => itop[e.id] # None
    /\ e.type = "ROUTE_RESOLVED" => Up(Active(e.id.call))
    /\ e.type = "CONNECT_REQUEST" => Up(Active(e.id.call))
    /\ e.type = "ESTABLISHED" => Both(e.id.call)
    /\ e.type = "DISCONNECTED" => Both(e.id.call) /\ e.id.call \in broken

FlagTypes ==
    /\ is_connected \in [Proc -> [Rank -> BOOLEAN]]
    /\ dctx \in [Proc -> {"null", "zero", "junk", "queues"}]
    /\ polling \in [Proc -> BOOLEAN] /\ posting \in [Proc -> Nat]
    /\ disconnected_prank_q \in [Proc -> Seq(Rank)]
    /\ call_pc \in [Call -> {"idle", "waiting", "returned"}]
    /\ broken \subseteq Call

\* Whose connections are in peers, and at which ranks.
PeersInv ==
    /\ \A c \in Call : itop[Active(c)] \in {None, CallRank[c]}
    /\ \A c \in Call, p \in Proc, r \in Rank :
          /\ conn[p][r] = Active(c) => Caller[c] = p /\ CallRank[c] = r
          /\ conn[p][r] = Passive(c) => CallHost[c] = p /\ r < connected_rank[p]

\* The loop of ESTABLISHED posts on the connection of its event.
LoopInv ==
    /\ \A c \in Call : posted[Active(c)] > 0 => Both(c)
    /\ \A p \in Proc : posting[p] > 0 =>
          /\ Handling(p, "ESTABLISHED") /\ polling[p]
          /\ posted[NextId(p)] >= posting[p]

CausesInv == \A e \in Event : Pending(e) => EventOK(e)
ReturnInv == \A c \in Call : call_pc[c] = "returned" => is_connected[Caller[c]][CallRank[c]]

UseInv ==
    /\ SourceInv /\ FlagTypes /\ PeersInv /\ LoopInv /\ CausesInv /\ ReturnInv
    /\ ConnectedIsUsable /\ DisconnectedNamesLost

\* What no step undoes.
Grows ==
    /\ \A p \in Proc, r \in Rank : conn[p][r] # None => conn'[p][r] = conn[p][r]
    /\ \A i \in Id : itop[i] # None => itop'[i] # None
    /\ \A i \in Id : Up(i) => Up(i)'
    /\ \A i \in Id : posted[i] <= posted'[i]
    /\ broken \subseteq broken'
    /\ \A p \in Proc : /\ polling[p] => polling'[p]
                       /\ dctx[p] = "queues" => dctx'[p] = "queues"
                       /\ \A r \in Rank : is_connected[p][r] => is_connected'[p][r]

\* The owner of an id is a process.
LEMMA OwnerType == \A i \in Id : Owner(i) \in Proc
BY ConnectAssumption DEF Owner, Id

\* Steps that touch neither the table nor the peers.
LEMMA SameTable ==
    ASSUME RanksInv, UNCHANGED <<conn, itop, posted, is_connected>>, broken \subseteq broken',
           \A p \in Proc : /\ polling[p] => polling'[p]
                           /\ dctx[p] = "queues" => dctx'[p] = "queues"
    PROVE  Grows
<1>1. \A i \in Id : posted[i] <= posted'[i]
      BY DEF RanksInv
<1>2. \A i \in Id : Up(i) => Up(i)'
      BY OwnerType DEF Up
<1> QED BY <1>1, <1>2 DEF Grows

\* A rank that is given out has no connection yet.
LEMMA NextRankIsNone ==
    ASSUME OneRole, RanksInv, LocksInv, PeersInv, NEW c \in Call,
           NEW k \in Rank, k = connected_rank[CallHost[c]]
    PROVE  conn[CallHost[c]][k] = None
<1>1. CallHost[c] \in Proc /\ k \in Nat
      BY ConnectAssumption DEF LocksInv
<1>2. conn[CallHost[c]][k] \in Id \cup {None}
      BY <1>1 DEF RanksInv
<1>3. SUFFICES ASSUME conn[CallHost[c]][k] \in Id PROVE FALSE
      BY <1>2
<1>4. PICK d \in Call : conn[CallHost[c]][k] \in {Active(d), Passive(d)}
      BY <1>3, Ends
<1>5. conn[CallHost[c]][k] # Active(d)
      BY <1>1 DEF PeersInv, OneRole
<1>6. conn[CallHost[c]][k] = Passive(d)
      BY <1>4, <1>5
<1>7. k < connected_rank[CallHost[c]]
      BY <1>1, <1>6 DEF PeersInv
<1> QED BY <1>1, <1>7

\* A connection is stored under rank k, which had none, for an id that gets
\* that rank: others keep theirs.
LEMMA StoreGrows ==
    ASSUME RanksInv, NEW i \in Id, NEW k \in Rank, conn[Owner(i)][k] = None,
           conn' = [conn EXCEPT ![Owner(i)][k] = i], itop' = [itop EXCEPT ![i] = k],
           dctx[Owner(i)] = "queues",
           UNCHANGED <<posted, is_connected, broken, polling, dctx>>
    PROVE  Grows /\ Up(i)'
<1>1. PICK p \in Proc : p = Owner(i)
      BY OwnerType
<1>2. k # None
      BY NoneIsNoId
<1>3. \A q \in Proc, r \in Rank : conn'[q][r] = IF q = p /\ r = k THEN i ELSE conn[q][r]
      BY <1>1 DEF RanksInv
<1>4. \A j \in Id : itop'[j] = IF j = i THEN k ELSE itop[j]
      BY DEF RanksInv
<1>5. Up(i)'
      BY <1>1, <1>2, <1>3, <1>4 DEF Up
<1>6. ASSUME NEW j \in Id, Up(j) PROVE Up(j)'
  <2>1. CASE j = i
        BY <1>5, <2>1
  <2>2. CASE j # i
    <3>1. /\ itop'[j] = itop[j] /\ itop[j] # None /\ conn[Owner(j)][itop[j]] = j
          /\ dctx'[Owner(j)] = "queues" /\ Owner(j) \in Proc /\ itop[j] \in Rank
          BY <1>4, <1>6, <2>2, OwnerType DEF Up, RanksInv
    <3>2. conn'[Owner(j)][itop[j]] = j
      <4>1. j # None
            BY NoneIsNoId
      <4> QED BY <1>1, <1>3, <3>1, <4>1
    <3> QED BY <3>1, <3>2 DEF Up
  <2> QED BY <2>1, <2>2
<1>7. \A j \in Id : posted[j] <= posted'[j]
      BY DEF RanksInv
<1>8. \A j \in Id : itop[j] # None => itop'[j] # None
      BY <1>2, <1>4
<1>9. \A q \in Proc, r \in Rank : conn[q][r] # None => conn'[q][r] = conn[q][r]
      BY <1>1, <1>3
<1> QED BY <1>5, <1>6, <1>7, <1>8, <1>9 DEF Grows

\* A call enters the rank of its active end, again or for the first time.
LEMMA ConnectGrows ==
    ASSUME RanksInv, PeersInv, NEW c \in Call, itop' = [itop EXCEPT ![Active(c)] = CallRank[c]],
           UNCHANGED <<conn, posted, is_connected, broken, polling, dctx>>
    PROVE  Grows /\ itop'[Active(c)] # None
<1>1. Active(c) \in Id /\ CallRank[c] \in Rank /\ CallRank[c] # None
      BY Ends, ConnectAssumption, NoneIsNoId DEF Rank
<1>2. \A i \in Id : itop'[i] = IF i = Active(c) THEN CallRank[c] ELSE itop[i]
      BY <1>1 DEF RanksInv
<1>3. ASSUME NEW i \in Id, itop[i] # None PROVE itop'[i] = itop[i]
      BY <1>2, <1>3 DEF PeersInv
<1>4. \A i \in Id : Up(i) => Up(i)'
      BY <1>3 DEF Up
<1>5. \A i \in Id : posted[i] <= posted'[i]
      BY DEF RanksInv
<1> QED BY <1>1, <1>2, <1>3, <1>4, <1>5 DEF Grows

\* A receive is posted.
LEMMA PostGrows ==
    ASSUME RanksInv, FlagTypes, NEW p \in Proc, PostRecv(p)
    PROVE  Grows
<1>1. PICK i : i = conn[p][Itop(NextId(p))]
      OBVIOUS
<1>2. /\ posted' = [posted EXCEPT ![i] = @ + 1] /\ polling' = [polling EXCEPT ![p] = TRUE]
      /\ UNCHANGED <<conn, itop, is_connected, broken, dctx>>
      BY <1>1 DEF PostRecv, peers, net
<1>3. \A j \in Id : posted[j] <= posted'[j]
      BY <1>2 DEF RanksInv
<1>4. \A j \in Id : Up(j) => Up(j)'
      BY <1>2 DEF Up
<1>5. \A q \in Proc : polling[q] => polling'[q]
      BY <1>2 DEF FlagTypes
<1> QED BY <1>2, <1>3, <1>4, <1>5 DEF Grows

\* is_connected is set.
LEMMA EstablishedGrows ==
    ASSUME RanksInv, FlagTypes, NEW p \in Proc, Established(p)
    PROVE  Grows
<1>1. PICK r : r = Itop(NextId(p))
      OBVIOUS
<1>2. /\ is_connected' = [is_connected EXCEPT ![p][r] = TRUE]
      /\ UNCHANGED <<conn, itop, posted, broken, polling, dctx>>
      BY <1>1 DEF Established, ends
<1>3. \A j \in Id : posted[j] <= posted'[j]
      BY <1>2 DEF RanksInv
<1>4. \A j \in Id : Up(j) => Up(j)'
      BY <1>2 DEF Up
<1>5. \A q \in Proc, x \in Rank : is_connected[q][x] => is_connected'[q][x]
      BY <1>2 DEF FlagTypes
<1> QED BY <1>2, <1>3, <1>4, <1>5 DEF Grows

\* A pending event has the right end.
LEMMA PendingRight ==
    ASSUME EventsInv, NEW e, Pending(e)
    PROVE  RightEnd(e) /\ e \in Event /\ e.id \in Id /\ e.id.call \in Call
<1>1. RightEnd(e)
  <2>1. CASE e \in cm
        BY <2>1 DEF EventsInv
  <2>2. CASE \E p \in Proc : e \in Range(events[p])
        BY <2>2 DEF EventsInv, Range
  <2> QED BY <2>1, <2>2 DEF Pending
<1> QED BY <1>1, Ends DEF RightEnd, Event

\* The event that is being handled is pending.
LEMMA HeadPending ==
    ASSUME EventsInv, NEW p \in Proc, events[p] # <<>>
    PROVE  Pending(Head(events[p]))
<1>1. events[p] \in Seq(Event)
      BY DEF EventsInv
<1>2. Head(events[p]) = events[p][1] /\ 1 \in DOMAIN events[p]
      BY <1>1, TailEntries
<1> QED BY <1>2 DEF Pending, Range

\* The caller whose request is being handled is given its rank.
LEMMA RequestGrows ==
    ASSUME OneRole, SourceInv, PeersInv, NEW p \in Proc, ConnectRequest(p)
    PROVE  Grows /\ \A i \in Id : i = NextId(p) => Up(i)'
<1>1. PICK c \in Call : NextId(p) = Passive(c) /\ CallHost[c] = p
  <2>1. events[p] # <<>> /\ Head(events[p]).type = "CONNECT_REQUEST"
        BY DEF ConnectRequest, Handling
  <2>2. NextId(p) \in Id /\ NextId(p).side = "passive" /\ Owner(NextId(p)) = p
        BY <2>1, HeadEvent DEF RightEnd, NextId, SourceInv
  <2> QED BY <2>2 DEF Id, Passive, Owner
<1>2. PICK k \in Rank : k = connected_rank[p]
      BY DEF ConnectRequest, TakePeer
<1>3. /\ conn' = [conn EXCEPT ![p][k] = Passive(c)] /\ itop' = [itop EXCEPT ![Passive(c)] = k]
      /\ dctx[p] = "queues" /\ UNCHANGED <<posted, is_connected, broken, polling, dctx>>
      BY <1>1, <1>2 DEF ConnectRequest, TakePeer
<1>4. conn[p][k] = None
      BY <1>1, <1>2, NextRankIsNone DEF SourceInv
<1>5. Passive(c) \in Id /\ Owner(Passive(c)) = p /\ RanksInv
      BY <1>1, Ends DEF SourceInv
<1>6. Grows /\ Up(Passive(c))'
      BY <1>3, <1>4, <1>5, StoreGrows
<1> QED BY <1>1, <1>6

\* An active end whose address is resolved is stored, or there is one already.
LEMMA ResolvedGrows ==
    ASSUME SourceInv, PeersInv, CausesInv, NEW p \in Proc, AddrResolved(p)
    PROVE  /\ Grows
           /\ conn[p][Itop(NextId(p))] = None => \A i \in Id : i = NextId(p) => Up(i)'
<1>1. events[p] # <<>> /\ Head(events[p]).type = "ADDR_RESOLVED" /\ EventsInv
      BY DEF AddrResolved, Handling, SourceInv
<1>2. PICK i \in Id : i = NextId(p) /\ Owner(i) = p /\ itop[i] # None
  <2>1. NextId(p) \in Id /\ Owner(NextId(p)) = p /\ Head(events[p]) \in Event
        BY <1>1, HeadEvent
  <2>2. EventOK(Head(events[p]))
        BY <1>1, <2>1, HeadPending DEF CausesInv
  <2> QED BY <1>1, <2>1, <2>2 DEF EventOK, NextId
<1>3. RanksInv /\ itop \in [Id -> Rank \cup {None}]
      BY DEF SourceInv, RanksInv
<1>4. PICK r \in Rank : r = itop[i] /\ r = Itop(NextId(p))
      BY <1>2, <1>3 DEF Itop
<1>5. CASE conn[p][r] = None
  <2>1. /\ conn' = [conn EXCEPT ![p][r] = i] /\ itop' = [itop EXCEPT ![i] = r]
        /\ dctx[p] = "queues" /\ UNCHANGED <<posted, is_connected, broken, polling, dctx>>
        BY <1>2, <1>3, <1>4, <1>5 DEF AddrResolved, ends
  <2>2. Grows /\ Up(i)'
        BY <1>2, <1>3, <1>5, <2>1, StoreGrows
  <2> QED BY <1>2, <2>2
<1>6. CASE conn[p][r] # None
  <2>1. UNCHANGED <<conn, itop, posted, is_connected, broken, polling, dctx>>
        BY <1>4, <1>6 DEF AddrResolved, ends
  <2> QED BY <1>3, <1>4, <1>6, <2>1, SameTable
<1> QED BY <1>5, <1>6

\* No step undoes what another thread relies on.
LEMMA StepGrows ==
    ASSUME OneRole, UseInv, [Next]_vars
    PROVE  Grows
<1>1. SourceInv /\ RanksInv /\ FlagTypes /\ PeersInv /\ CausesInv
      BY DEF UseInv, SourceInv
<1>2. ASSUME NEW c \in Call, VerbsConnect(c) PROVE Grows
      BY <1>1, <1>2, ConnectGrows DEF VerbsConnect, peers
<1>3. ASSUME NEW c \in Call, VerbsConnectReturns(c) \/ FirstMessage(c) \/ Break(c) PROVE Grows
      BY <1>1, <1>3, SameTable DEF VerbsConnectReturns, FirstMessage, Break, peers, ends, net
<1>4. ASSUME NEW p \in Listener, WaitReady(p) PROVE Grows
      BY <1>1, <1>4, SameTable DEF WaitReady, peers, ends, net
<1>5. ASSUME NEW p \in Proc, EventThread(p) PROVE Grows
  <2>1. CASE CreateDctx(p) \/ CreateQueryQp(p)
    <3>1. UNCHANGED <<conn, itop, posted, is_connected, broken, polling>>
          BY <2>1 DEF CreateDctx, CreateQueryQp, peers, ends, net
    <3>2. \A q \in Proc : dctx[q] = "queues" => dctx'[q] = "queues"
          BY <1>1, <2>1 DEF CreateDctx, CreateQueryQp, FlagTypes
    <3> QED BY <1>1, <3>1, <3>2, SameTable
  <2>2. CASE RouteResolved(p) \/ Disconnected(p)
        BY <1>1, <2>2, SameTable DEF RouteResolved, Disconnected, peers, ends
  <2> QED BY <1>1, <1>5, <2>1, <2>2, RequestGrows, ResolvedGrows, PostGrows, EstablishedGrows
          DEF EventThread
<1>6. ASSUME NEW e \in cm, CmReport(e) PROVE Grows
      BY <1>1, <1>6, SameTable DEF CmReport, peers, ends
<1>7. CASE UNCHANGED vars
      BY <1>1, <1>7, SameTable DEF vars, peers, ends, net
<1> QED BY <1>2, <1>3, <1>4, <1>5, <1>6, <1>7 DEF Next

----------------------------------------------------------------------------
\* What has been done for an event stays done.
LEMMA EventKept ==
    ASSUME Grows, NEW e \in Event, EventOK(e)
    PROVE  EventOK(e)'
<1>1. e.id \in Id /\ e.id.call \in Call
      BY Ends DEF Event
<1>2. Active(e.id.call) \in Id /\ Passive(e.id.call) \in Id
      BY <1>1, Ends
<1>3. /\ itop[e.id] # None => itop'[e.id] # None
      /\ Up(Active(e.id.call)) => Up(Active(e.id.call))'
      /\ Up(Passive(e.id.call)) => Up(Passive(e.id.call))'
      /\ e.id.call \in broken => e.id.call \in broken'
      BY <1>1, <1>2 DEF Grows
<1> QED BY <1>3 DEF EventOK, Both

\* Events are handled or reported, and new ones are caused.
LEMMA CausesKept ==
    ASSUME Grows, CausesInv, NEW N, \A e \in Event : Pending(e)' => Pending(e) \/ e \in N,
           \A e \in N : e \in Event => EventOK(e)'
    PROVE  CausesInv'
<1>1. ASSUME NEW e \in Event, Pending(e)' PROVE EventOK(e)'
      BY <1>1, EventKept DEF CausesInv
<1> QED BY <1>1 DEF CausesInv, Event

\* The event thread has handled an event.
LEMMA HandledPending ==
    ASSUME EventsInv, NEW p \in Proc, events[p] # <<>>, Handled(p), NEW N, cm' = cm \cup N
    PROVE  \A e \in Event : Pending(e)' => Pending(e) \/ e \in N
<1>1. events[p] \in Seq(Event) /\ events \in [Proc -> Seq(Event)]
      BY DEF EventsInv
<1>2. \A q \in Proc : events'[q] = IF q = p THEN Tail(events[p]) ELSE events[q]
      BY <1>1 DEF Handled
<1>3. \A j \in DOMAIN Tail(events[p]) :
         \E k \in DOMAIN events[p] : Tail(events[p])[j] = events[p][k]
      BY <1>1, TailEntries
<1>4. \A e \in Range(Tail(events[p])) : e \in Range(events[p])
      BY <1>3 DEF Range
<1>5. \A q \in Proc : \A e \in Range(events'[q]) : e \in Range(events[q])
      BY <1>2, <1>4
<1> QED BY <1>5 DEF Pending

\* The connection manager has reported an event.
LEMMA ReportPending ==
    ASSUME EventsInv, NEW x \in cm, CmReport(x)
    PROVE  \A e \in Event : Pending(e)' =>
              \/ Pending(e)
              \/ e \in {f \in {Ev("ESTABLISHED", Passive(x.id.call))} : x.type = "ESTABLISHED"}
<1>1. x \in Event /\ x.id \in Id
      BY DEF EventsInv, RightEnd, Event
<1>2. PICK p \in Proc : p = Owner(x.id)
      BY <1>1, OwnerType
<1>3. events[p] \in Seq(Event) /\ events \in [Proc -> Seq(Event)]
      BY DEF EventsInv
<1>4. \A q \in Proc : events'[q] = IF q = p THEN Append(events[p], x) ELSE events[q]
      BY <1>2, <1>3 DEF CmReport
<1>5. Range(Append(events[p], x)) = Range(events[p]) \cup {x}
      BY <1>1, <1>3, PutLast
<1>6. \A q \in Proc : \A e \in Range(events'[q]) : e \in Range(events[q]) \/ e = x
      BY <1>4, <1>5
<1>7. \A e \in cm' : \/ e \in cm
                     \/ x.type = "ESTABLISHED" /\ e = Ev("ESTABLISHED", Passive(x.id.call))
      BY DEF CmReport
<1> QED BY <1>6, <1>7 DEF Pending

\* Steps without an event.
LEMMA SamePending ==
    ASSUME UNCHANGED events, NEW N, cm' = cm \cup N
    PROVE  \A e \in Event : Pending(e)' => Pending(e) \/ e \in N
BY DEF Pending

\* An event is handled and causes the events N.
LEMMA HandledCauses ==
    ASSUME EventsInv, Grows, CausesInv, NEW p \in Proc, events[p] # <<>>, Handled(p),
           NEW N, cm' = cm \cup N, \A e \in N : EventOK(e)'
    PROVE  CausesInv'
<1>1. \A e \in Event : Pending(e)' => Pending(e) \/ e \in N
      BY HandledPending
<1> QED BY <1>1, CausesKept

\* A step that handles none causes the events N.
LEMMA SameCauses ==
    ASSUME Grows, CausesInv, UNCHANGED events, NEW N, cm' = cm \cup N, \A e \in N : EventOK(e)'
    PROVE  CausesInv'
<1>1. \A e \in Event : Pending(e)' => Pending(e) \/ e \in N
      BY SamePending
<1> QED BY <1>1, CausesKept

\* The record of an event.
LEMMA EvFields ==
    \A t, i : Ev(t, i).type = t /\ Ev(t, i).id = i
BY DEF Ev

\* Every event is caused after what it depends on.
LEMMA StepCauses ==
    ASSUME OneRole, UseInv, [Next]_vars, Grows
    PROVE  CausesInv'
<1>1. SourceInv /\ RanksInv /\ EventsInv /\ FlagTypes /\ PeersInv /\ CausesInv /\ LoopInv
      BY DEF UseInv, SourceInv
<1>2. ASSUME NEW c \in Call, VerbsConnect(c) PROVE CausesInv'
  <2> DEFINE N == {Ev("ADDR_RESOLVED", Active(c))}
  <2>1. UNCHANGED events /\ cm' = cm \cup N
        BY <1>2 DEF VerbsConnect
  <2>2. itop'[Active(c)] # None
        BY <1>1, <1>2, ConnectGrows DEF VerbsConnect, peers
  <2>3. \A e \in N : EventOK(e)'
        BY <2>2, EvFields DEF EventOK
  <2> HIDE DEF N
  <2> QED BY <1>1, <2>1, <2>3, SameCauses
<1>3. ASSUME NEW c \in Call, Break(c) PROVE CausesInv'
  <2> DEFINE N == {Ev("DISCONNECTED", Active(c)), Ev("DISCONNECTED", Passive(c))}
  <2>1. UNCHANGED events /\ cm' = cm \cup N /\ broken' = broken \cup {c}
        /\ posted[Active(c)] > 0
        BY <1>3 DEF Break
  <2>2. Both(c)'
        BY <1>1, <2>1, Ends DEF LoopInv, Both, Grows
  <2>3. \A e \in N : e.type = "DISCONNECTED" /\ e.id.call = c
        BY EvFields DEF Active, Passive
  <2>4. \A e \in N : EventOK(e)'
        BY <2>1, <2>2, <2>3 DEF EventOK
  <2> HIDE DEF N
  <2> QED BY <1>1, <2>1, <2>4, SameCauses
<1>4. ASSUME UNCHANGED <<events, cm>> PROVE CausesInv'
  <2>1. PICK N : N = {}
        OBVIOUS
  <2>2. cm' = cm \cup N /\ \A e \in N : EventOK(e)'
        BY <1>4, <2>1
  <2> QED BY <1>1, <1>4, <2>2, SameCauses
<1>5. ASSUME NEW p \in Proc, ConnectRequest(p) PROVE CausesInv'
  <2>1. PICK i : i = NextId(p)
        OBVIOUS
  <2> DEFINE N == {Ev("ESTABLISHED", Active(i.call))}
  <2>2. /\ events[p] # <<>> /\ Head(events[p]).type = "CONNECT_REQUEST" /\ Handled(p)
        /\ cm' = cm \cup N
        BY <1>5, <2>1 DEF ConnectRequest, Handling
  <2>3. i \in Id /\ i.side = "passive" /\ i.call \in Call /\ Head(events[p]) \in Event
        BY <1>1, <2>1, <2>2, HeadEvent DEF RightEnd, NextId
  <2>4. i = Passive(i.call)
        BY <2>3 DEF Id, Passive
  <2>5. Up(Passive(i.call))'
    <3>1. Up(i)'
          BY <1>1, <1>5, <2>1, <2>3, RequestGrows
    <3> QED BY <2>4, <3>1
  <2>6. Up(Active(i.call))'
    <3>1. EventOK(Head(events[p]))
          BY <1>1, <2>2, <2>3, HeadPending DEF CausesInv
    <3>2. Up(Active(i.call))
          BY <2>1, <2>2, <3>1 DEF EventOK, NextId
    <3> QED BY <2>3, <3>2, Ends DEF Grows
  <2>7. \A e \in N : e.type = "ESTABLISHED" /\ e.id.call = i.call
        BY EvFields DEF Active
  <2>8. \A e \in N : EventOK(e)'
        BY <2>5, <2>6, <2>7 DEF EventOK, Both
  <2> HIDE DEF N
  <2> QED BY <1>1, <2>2, <2>8, HandledCauses
<1>6. ASSUME NEW p \in Proc, AddrResolved(p) PROVE CausesInv'
  <2>1. PICK i : i = NextId(p)
        OBVIOUS
  <2>2. /\ events[p] # <<>> /\ Head(events[p]).type = "ADDR_RESOLVED" /\ Handled(p)
        BY <1>6, <2>1 DEF AddrResolved, Handling
  <2>3. i \in Id /\ i.side = "active" /\ i.call \in Call
        BY <1>1, <2>1, <2>2, HeadEvent DEF RightEnd, NextId
  <2>4. i = Active(i.call)
        BY <2>3 DEF Id, Active
  <2>5. CASE conn[p][Itop(i)] = None
    <3> DEFINE N == {Ev("ROUTE_RESOLVED", i)}
    <3>1. cm' = cm \cup N
          BY <1>6, <2>1, <2>5 DEF AddrResolved
    <3>2. Up(i)'
          BY <1>1, <1>6, <2>1, <2>3, <2>5, ResolvedGrows
    <3>3. \A e \in N : EventOK(e)'
          BY <2>4, <3>2, EvFields DEF EventOK
    <3> HIDE DEF N
    <3> QED BY <1>1, <2>2, <3>1, <3>3, HandledCauses
  <2>6. CASE conn[p][Itop(i)] # None
    <3>1. PICK N : N = {}
          OBVIOUS
    <3>2. cm' = cm \cup N /\ \A e \in N : EventOK(e)'
          BY <1>6, <2>1, <2>6, <3>1 DEF AddrResolved
    <3> QED BY <1>1, <2>2, <3>2, HandledCauses
  <2> QED BY <2>5, <2>6
<1>7. ASSUME NEW p \in Proc, RouteResolved(p) PROVE CausesInv'
  <2>1. PICK c : c = NextId(p).call
        OBVIOUS
  <2> DEFINE N == {Ev("CONNECT_REQUEST", Passive(c))}
  <2>2. /\ events[p] # <<>> /\ Head(events[p]).type = "ROUTE_RESOLVED" /\ Handled(p)
        /\ cm' = cm \cup N
        BY <1>7, <2>1 DEF RouteResolved, Handling
  <2>3. c \in Call /\ Head(events[p]) \in Event
        BY <1>1, <2>1, <2>2, HeadEvent
  <2>4. Up(Active(c))'
    <3>1. EventOK(Head(events[p]))
          BY <1>1, <2>2, <2>3, HeadPending DEF CausesInv
    <3>2. Up(Active(c))
          BY <2>1, <2>2, <3>1 DEF EventOK, NextId
    <3> QED BY <2>3, <3>2, Ends DEF Grows
  <2>5. \A e \in N : e.type = "CONNECT_REQUEST" /\ e.id.call = c
        BY EvFields DEF Passive
  <2>6. \A e \in N : EventOK(e)'
        BY <2>4, <2>5 DEF EventOK
  <2> HIDE DEF N
  <2> QED BY <1>1, <2>2, <2>6, HandledCauses
<1>8. ASSUME NEW p \in Proc, Established(p) \/ Disconnected(p) PROVE CausesInv'
  <2>1. events[p] # <<>> /\ Handled(p) /\ cm' = cm \cup {}
        BY <1>8 DEF Established, Disconnected, Handling
  <2> QED BY <1>1, <2>1, HandledCauses
<1>9. ASSUME NEW x \in cm, CmReport(x) PROVE CausesInv'
  <2> DEFINE N == {f \in {Ev("ESTABLISHED", Passive(x.id.call))} : x.type = "ESTABLISHED"}
  <2>1. Pending(x) /\ x \in Event /\ x.id.call \in Call
        BY <1>1, PendingRight DEF Pending
  <2>2. EventOK(x)'
        BY <1>1, <2>1, EventKept DEF CausesInv
  <2>3. \A e \in N : e.type = "ESTABLISHED" /\ e.id.call = x.id.call /\ x.type = "ESTABLISHED"
        BY EvFields DEF Passive
  <2>4. \A e \in N : EventOK(e)'
        BY <2>2, <2>3 DEF EventOK
  <2>5. \A e \in Event : Pending(e)' => Pending(e) \/ e \in N
        BY <1>1, <1>9, ReportPending
  <2> HIDE DEF N
  <2> QED BY <1>1, <2>4, <2>5, CausesKept
<1>10. ASSUME NEW c \in Call, VerbsConnectReturns(c) \/ FirstMessage(c) PROVE CausesInv'
      BY <1>4, <1>10 DEF VerbsConnectReturns, FirstMessage, net
<1>11. ASSUME NEW p \in Listener, WaitReady(p) PROVE CausesInv'
      BY <1>4, <1>11 DEF WaitReady, net
<1>12. ASSUME NEW p \in Proc, CreateDctx(p) \/ CreateQueryQp(p) \/ PostRecv(p)
       PROVE  CausesInv'
      BY <1>4, <1>12 DEF CreateDctx, CreateQueryQp, PostRecv, net
<1>13. CASE UNCHANGED vars
      BY <1>4, <1>13 DEF vars, net
<1> QED BY <1>2, <1>3, <1>5, <1>6, <1>7, <1>8, <1>9, <1>10, <1>11, <1>12, <1>13
        DEF Next, EventThread

----------------------------------------------------------------------------
\* Ranks in peers and in the table
LEMMA StepPeers ==
    ASSUME OneRole, UseInv, [Next]_vars
    PROVE  PeersInv'
<1>1. SourceInv /\ LocksInv /\ RanksInv /\ EventsInv /\ PeersInv /\ CausesInv
      BY DEF UseInv, SourceInv
<1>2. ASSUME UNCHANGED <<conn, itop, connected_rank>> PROVE PeersInv'
      BY <1>1, <1>2 DEF PeersInv
<1>3. ASSUME NEW c \in Call, VerbsConnect(c) PROVE PeersInv'
  <2>1. itop' = [itop EXCEPT ![Active(c)] = CallRank[c]] /\ UNCHANGED <<conn, connected_rank>>
        BY <1>3 DEF VerbsConnect, peers
  <2>2. \A d \in Call : itop'[Active(d)] = itop[Active(d)] \/ (d = c /\ itop'[Active(d)] = CallRank[d])
    <3>1. \A d \in Call : Active(d) = Active(c) => d = c
          BY DEF Active
    <3> QED BY <1>1, <2>1, <3>1, Ends DEF RanksInv
  <2> QED BY <1>1, <2>1, <2>2 DEF PeersInv
<1>4. ASSUME NEW p \in Proc, ConnectRequest(p) PROVE PeersInv'
  <2>1. PICK i, k : i = NextId(p) /\ k = connected_rank[p]
        OBVIOUS
  <2>2. /\ conn' = [conn EXCEPT ![p][k] = i] /\ itop' = [itop EXCEPT ![i] = k] /\ k \in Rank
        /\ connected_rank' = [connected_rank EXCEPT ![p] = k + 1]
        BY <1>4, <2>1 DEF ConnectRequest, TakePeer
  <2>3. i \in Id /\ i.side = "passive" /\ Owner(i) = p
    <3>1. events[p] # <<>> /\ Head(events[p]).type = "CONNECT_REQUEST"
          BY <1>4 DEF ConnectRequest, Handling
    <3> QED BY <1>1, <2>1, <3>1, HeadEvent DEF RightEnd, NextId
  <2>4. PICK c \in Call : i = Passive(c) /\ CallHost[c] = p
        BY <2>3 DEF Id, Passive, Owner
  <2>5. k \in Nat /\ k < k + 1
        BY <1>1, <2>1 DEF LocksInv
  <2>6. \A d \in Call : itop'[Active(d)] = itop[Active(d)]
        BY <1>1, <2>2, <2>4, Ends DEF RanksInv
  <2>7. \A q \in Proc, r \in Rank : conn'[q][r] = IF q = p /\ r = k THEN Passive(c) ELSE conn[q][r]
        BY <1>1, <2>2, <2>4 DEF RanksInv
  <2>8. \A q \in Proc : connected_rank'[q] = IF q = p THEN k + 1 ELSE connected_rank[q]
        BY <1>1, <2>2 DEF LocksInv
  <2>9. ASSUME NEW d \in Call, NEW q \in Proc, NEW r \in Rank, conn'[q][r] = Active(d)
        PROVE  Caller[d] = q /\ CallRank[d] = r
        BY <1>1, <2>7, <2>9, Ends DEF PeersInv
  <2>10. ASSUME NEW d \in Call, NEW q \in Proc, NEW r \in Rank, conn'[q][r] = Passive(d)
         PROVE  CallHost[d] = q /\ r < connected_rank'[q]
    <3>1. CASE q = p /\ r = k
      <4>1. d = c
            BY <2>7, <2>10, <3>1, Ends
      <4> QED BY <2>4, <2>5, <2>8, <3>1, <4>1
    <3>2. CASE ~ (q = p /\ r = k)
      <4>1. CallHost[d] = q /\ r < connected_rank[q]
            BY <1>1, <2>7, <2>10, <3>2 DEF PeersInv
      <4>2. r \in Int
            BY ConnectAssumption DEF Rank
      <4> QED BY <2>1, <2>5, <2>8, <4>1, <4>2
    <3> QED BY <3>1, <3>2
  <2> QED BY <1>1, <2>6, <2>9, <2>10 DEF PeersInv
<1>5. ASSUME NEW p \in Proc, AddrResolved(p) PROVE PeersInv'
  <2>1. PICK i : i = NextId(p)
        OBVIOUS
  <2>2. events[p] # <<>> /\ Head(events[p]).type = "ADDR_RESOLVED"
        BY <1>5 DEF AddrResolved, Handling
  <2>3. i \in Id /\ i.side = "active" /\ Owner(i) = p /\ Head(events[p]) \in Event
        BY <1>1, <2>1, <2>2, HeadEvent DEF RightEnd, NextId
  <2>4. PICK c \in Call : i = Active(c) /\ Caller[c] = p
        BY <2>3 DEF Id, Active, Owner
  <2>5. EventOK(Head(events[p]))
        BY <1>1, <2>2, <2>3, HeadPending DEF CausesInv
  <2>6. itop[i] # None
        BY <2>1, <2>2, <2>5 DEF EventOK, NextId
  <2>7. Itop(i) = CallRank[c] /\ CallRank[c] \in Rank
        BY <1>1, <2>4, <2>6, ConnectAssumption DEF Itop, PeersInv, Rank
  <2>8. CASE conn[p][CallRank[c]] = None
    <3>1. conn' = [conn EXCEPT ![p][CallRank[c]] = Active(c)] /\ UNCHANGED <<itop, connected_rank>>
          BY <1>5, <2>1, <2>4, <2>7, <2>8 DEF AddrResolved, ends
    <3>2. \A q \in Proc, r \in Rank :
             conn'[q][r] = IF q = p /\ r = CallRank[c] THEN Active(c) ELSE conn[q][r]
          BY <1>1, <2>7, <3>1 DEF RanksInv
    <3>3. \A d \in Call : Active(d) = Active(c) => d = c
          BY DEF Active
    <3>4. ASSUME NEW d \in Call, NEW q \in Proc, NEW r \in Rank
          PROVE  /\ conn'[q][r] = Active(d) => Caller[d] = q /\ CallRank[d] = r
                 /\ conn'[q][r] = Passive(d) => CallHost[d] = q /\ r < connected_rank[q]
          BY <1>1, <2>4, <3>2, <3>3, Ends DEF PeersInv
    <3> QED BY <1>1, <3>1, <3>4 DEF PeersInv
  <2>9. CASE conn[p][CallRank[c]] # None
        BY <1>2, <1>5, <2>1, <2>7, <2>9 DEF AddrResolved, ends
  <2> QED BY <2>8, <2>9
<1>6. ASSUME NEW c \in Call, VerbsConnectReturns(c) \/ FirstMessage(c) \/ Break(c) PROVE PeersInv'
      BY <1>2, <1>6 DEF VerbsConnectReturns, FirstMessage, Break, peers, ends
<1>7. ASSUME NEW p \in Listener, WaitReady(p) PROVE PeersInv'
      BY <1>2, <1>7 DEF WaitReady, peers, ends
<1>8. ASSUME NEW p \in Proc, \/ CreateDctx(p) \/ CreateQueryQp(p) \/ RouteResolved(p)
                             \/ PostRecv(p) \/ Established(p) \/ Disconnected(p)
      PROVE  PeersInv'
      BY <1>2, <1>8 DEF CreateDctx, CreateQueryQp, RouteResolved, PostRecv, Established,
                        Disconnected, peers, ends
<1>9. ASSUME NEW e \in cm, CmReport(e) PROVE PeersInv'
      BY <1>2, <1>9 DEF CmReport, peers, ends
<1>10. CASE UNCHANGED vars
      BY <1>2, <1>10 DEF vars, peers, ends
<1> QED BY <1>3, <1>4, <1>5, <1>6, <1>7, <1>8, <1>9, <1>10 DEF Next, EventThread

\* The event that is being handled has been caused by what it depends on.
LEMMA HeadCause ==
    ASSUME SourceInv, CausesInv, NEW p \in Proc, NEW t, Handling(p, t),
           t \in {"ESTABLISHED", "DISCONNECTED"}, NEW i, i = NextId(p)
    PROVE  /\ i \in Id /\ i.call \in Call /\ Owner(i) = p /\ Both(i.call)
           /\ i \in {Active(i.call), Passive(i.call)}
           /\ Up(i) /\ Itop(i) \in Rank /\ conn[p][Itop(i)] = i /\ dctx[p] = "queues"
           /\ t = "DISCONNECTED" => i.call \in broken
<1>1. EventsInv /\ events[p] # <<>> /\ Head(events[p]).type = t /\ itop \in [Id -> Rank \cup {None}]
      BY DEF SourceInv, Handling, RanksInv
<1>2. i \in Id /\ i.call \in Call /\ Owner(i) = p /\ Head(events[p]) \in Event
      BY <1>1, HeadEvent
<1>3. EventOK(Head(events[p]))
      BY <1>1, <1>2, HeadPending DEF CausesInv
<1>4. Both(i.call) /\ (t = "DISCONNECTED" => i.call \in broken)
      BY <1>1, <1>3 DEF EventOK, NextId
<1>5. i = Active(i.call) \/ i = Passive(i.call)
      BY <1>2, Ends
<1>6. Up(i)
      BY <1>4, <1>5 DEF Both
<1> QED BY <1>1, <1>2, <1>4, <1>5, <1>6 DEF Up, Itop

\* Flags, counters and queues keep their types.
LEMMA StepFlags ==
    ASSUME SourceInv, FlagTypes, [Next]_vars
    PROVE  FlagTypes'
<1>1. FlagTypes /\ EventsInv /\ RanksInv
      BY DEF SourceInv
<1>2. ASSUME NEW c \in Call, VerbsConnect(c) \/ VerbsConnectReturns(c) PROVE FlagTypes'
      BY <1>1, <1>2 DEF VerbsConnect, VerbsConnectReturns, FlagTypes, peers, net
<1>3. ASSUME NEW c \in Call, FirstMessage(c) \/ Break(c) PROVE FlagTypes'
      BY <1>1, <1>3 DEF FirstMessage, Break, FlagTypes, peers, net
<1>4. ASSUME NEW p \in Listener, WaitReady(p) PROVE FlagTypes'
      BY <1>1, <1>4 DEF WaitReady, FlagTypes, peers, net
<1>5. ASSUME NEW p \in Proc, CreateDctx(p) PROVE FlagTypes'
      BY <1>1, <1>5 DEF CreateDctx, FlagTypes, peers, net
<1>6. ASSUME NEW p \in Proc, CreateQueryQp(p) PROVE FlagTypes'
      BY <1>1, <1>6 DEF CreateQueryQp, FlagTypes, peers, net
<1>7. ASSUME NEW p \in Proc, ConnectRequest(p) \/ AddrResolved(p) \/ RouteResolved(p)
      PROVE  FlagTypes'
      BY <1>1, <1>7 DEF ConnectRequest, AddrResolved, RouteResolved, FlagTypes, peers
<1>8. ASSUME NEW p \in Proc, PostRecv(p) PROVE FlagTypes'
      BY <1>1, <1>8 DEF PostRecv, FlagTypes, peers, net
<1>9. ASSUME NEW p \in Proc, Established(p) PROVE FlagTypes'
  <2>1. PICK r : r = Itop(NextId(p))
        OBVIOUS
  <2>2. is_connected' = [is_connected EXCEPT ![p][r] = TRUE]
        BY <1>9, <2>1 DEF Established
  <2>3. is_connected' \in [Proc -> [Rank -> BOOLEAN]]
        BY <1>1, <2>2 DEF FlagTypes
  <2> QED BY <1>1, <1>9, <2>3 DEF Established, FlagTypes
<1>10. ASSUME NEW p \in Proc, Disconnected(p) PROVE FlagTypes'
  <2>1. PICK r : r = Itop(NextId(p))
        OBVIOUS
  <2>2. r \in Rank
    <3>1. NextId(p) \in Id
          BY <1>1, <1>10, HeadEvent DEF Disconnected, Handling
    <3> QED BY <1>1, <2>1, <3>1, ConnectAssumption DEF Itop, RanksInv, Rank
  <2>3. disconnected_prank_q' = [disconnected_prank_q EXCEPT ![p] = Append(@, r)]
        BY <1>10, <2>1 DEF Disconnected
  <2>4. disconnected_prank_q' \in [Proc -> Seq(Rank)]
        BY <1>1, <2>2, <2>3, AppendEntries DEF FlagTypes
  <2> QED BY <1>1, <1>10, <2>4 DEF Disconnected, FlagTypes, peers
<1>11. ASSUME NEW e \in cm, CmReport(e) PROVE FlagTypes'
      BY <1>1, <1>11 DEF CmReport, FlagTypes, peers
<1>12. CASE UNCHANGED vars
      BY <1>1, <1>12 DEF vars, FlagTypes, peers, net
<1> QED BY <1>2, <1>3, <1>4, <1>5, <1>6, <1>7, <1>8, <1>9, <1>10, <1>11, <1>12
        DEF Next, EventThread

\* Steps that leave the loop of ESTABLISHED alone.
LEMMA LoopKept ==
    ASSUME Grows, RanksInv, LoopInv, posted' = posted,
           \A q \in Proc : posting'[q] > 0 => /\ posting'[q] = posting[q] /\ events'[q] # <<>>
                                              /\ Head(events'[q]) = Head(events[q])
    PROVE  LoopInv'
<1>1. ASSUME NEW c \in Call, posted'[Active(c)] > 0 PROVE Both(c)'
      BY <1>1, Ends DEF LoopInv, Both, Grows
<1>2. ASSUME NEW q \in Proc, posting'[q] > 0
      PROVE  /\ Handling(q, "ESTABLISHED")' /\ polling'[q]
             /\ posted'[NextId(q)'] >= posting'[q]
  <2>1. Handling(q, "ESTABLISHED") /\ polling[q] /\ posted[NextId(q)] >= posting[q]
        BY <1>2 DEF LoopInv
  <2> QED BY <1>2, <2>1 DEF Handling, NextId, Grows
<1> QED BY <1>1, <1>2 DEF LoopInv

\* The event thread handles one event at a time: in the loop of ESTABLISHED it
\* handles no other.
LEMMA LoopHandled ==
    ASSUME Grows, SourceInv, LoopInv, FlagTypes, UNCHANGED <<posted, posting>>, NEW p \in Proc,
           NEW t, Handling(p, t), t # "ESTABLISHED", Handled(p)
    PROVE  LoopInv'
<1>1. posting[p] > 0 => FALSE
      BY DEF LoopInv, Handling
<1>2. events \in [Proc -> Seq(Event)] /\ RanksInv
      BY DEF SourceInv, EventsInv
<1>3. \A q \in Proc : q # p => events'[q] = events[q]
      BY <1>2 DEF Handled
<1>4. \A q \in Proc : posting'[q] > 0 => q # p /\ events'[q] = events[q] /\ events[q] # <<>>
      BY <1>1, <1>3 DEF LoopInv, Handling
<1> QED BY <1>2, <1>4, LoopKept

\* Every step keeps the loop's account.
LEMMA StepLoop ==
    ASSUME UseInv, [Next]_vars, Grows
    PROVE  LoopInv'
<1>1. SourceInv /\ RanksInv /\ EventsInv /\ FlagTypes /\ CausesInv /\ LoopInv
      BY DEF UseInv, SourceInv
<1>2. ASSUME UNCHANGED <<events, posted, posting>> PROVE LoopInv'
  <2>1. \A q \in Proc : posting[q] > 0 => events[q] # <<>>
        BY <1>1 DEF LoopInv, Handling
  <2> QED BY <1>1, <1>2, <2>1, LoopKept
<1>3. ASSUME NEW c \in Call, \/ VerbsConnect(c) \/ VerbsConnectReturns(c)
                             \/ FirstMessage(c) \/ Break(c)
      PROVE  LoopInv'
      BY <1>2, <1>3 DEF VerbsConnect, VerbsConnectReturns, FirstMessage, Break, ends, net
<1>4. ASSUME NEW p \in Listener, WaitReady(p) PROVE LoopInv'
      BY <1>2, <1>4 DEF WaitReady, ends, net
<1>5. ASSUME NEW p \in Proc, CreateDctx(p) \/ CreateQueryQp(p) PROVE LoopInv'
      BY <1>2, <1>5 DEF CreateDctx, CreateQueryQp, ends, net
<1>6. ASSUME NEW p \in Proc, ConnectRequest(p) PROVE LoopInv'
      BY <1>1, <1>6, LoopHandled DEF ConnectRequest
<1>7. ASSUME NEW p \in Proc, AddrResolved(p) PROVE LoopInv'
      BY <1>1, <1>7, LoopHandled DEF AddrResolved, ends
<1>8. ASSUME NEW p \in Proc, RouteResolved(p) PROVE LoopInv'
      BY <1>1, <1>8, LoopHandled DEF RouteResolved, ends
<1>9. ASSUME NEW p \in Proc, Disconnected(p) PROVE LoopInv'
      BY <1>1, <1>9, LoopHandled DEF Disconnected, ends
<1>10. ASSUME NEW p \in Proc, PostRecv(p) PROVE LoopInv'
  <2>1. PICK i : i = NextId(p)
        OBVIOUS
  <2>2. /\ Handling(p, "ESTABLISHED") /\ UNCHANGED events
        /\ posting' = [posting EXCEPT ![p] = @ + 1] /\ polling' = [polling EXCEPT ![p] = TRUE]
        /\ posted' = [posted EXCEPT ![conn[p][Itop(i)]] = @ + 1]
        BY <1>10, <2>1 DEF PostRecv, net
  <2>3. i \in Id /\ i.call \in Call /\ Both(i.call) /\ conn[p][Itop(i)] = i
        BY <1>1, <2>1, <2>2, HeadCause
  <2>4. \A j \in Id : posted[j] \in Nat /\ posted'[j] = IF j = i THEN posted[j] + 1 ELSE posted[j]
        BY <1>1, <2>2, <2>3 DEF RanksInv
  <2>5. \A q \in Proc : posting[q] \in Nat
                        /\ posting'[q] = IF q = p THEN posting[q] + 1 ELSE posting[q]
        BY <1>1, <2>2 DEF FlagTypes
  <2>6. ASSUME NEW c \in Call, posted'[Active(c)] > 0 PROVE Both(c)'
    <3>1. Both(c)
      <4>1. CASE Active(c) = i
        <5>1. i.call = c
              BY <4>1 DEF Active
        <5> QED BY <2>3, <5>1
      <4>2. CASE Active(c) # i
            BY <1>1, <2>4, <2>6, <4>2, Ends DEF LoopInv
      <4> QED BY <4>1, <4>2
    <3> QED BY <3>1, Ends DEF Both, Grows
  <2>7. ASSUME NEW q \in Proc, posting'[q] > 0
        PROVE  /\ Handling(q, "ESTABLISHED")' /\ polling'[q]
               /\ posted'[NextId(q)'] >= posting'[q]
    <3>1. events'[q] = events[q] /\ NextId(q)' = NextId(q)
          BY <2>2 DEF NextId
    <3>2. CASE q = p
      <4>1. posting[p] = 0 \/ posted[i] >= posting[p]
            BY <1>1, <2>1, <2>5 DEF LoopInv
      <4>2. posted'[i] >= posting'[p]
            BY <2>3, <2>4, <2>5, <4>1
      <4>3. polling'[p]
            BY <1>1, <2>2 DEF FlagTypes
      <4> QED BY <2>1, <2>2, <3>1, <3>2, <4>2, <4>3 DEF Handling
    <3>3. CASE q # p
      <4>1. /\ posting'[q] = posting[q] /\ Handling(q, "ESTABLISHED") /\ polling[q]
            /\ posted[NextId(q)] >= posting[q]
            BY <1>1, <2>5, <2>7, <3>3 DEF LoopInv
      <4>2. NextId(q) \in Id
            BY <1>1, <4>1, HeadEvent DEF Handling
      <4>3. posted'[NextId(q)] >= posting'[q]
            BY <2>4, <2>5, <3>3, <4>1, <4>2
      <4> QED BY <3>1, <4>1, <4>3 DEF Handling, Grows
    <3> QED BY <3>2, <3>3
  <2> QED BY <2>6, <2>7 DEF LoopInv
<1>11. ASSUME NEW p \in Proc, Established(p) PROVE LoopInv'
  <2>1. Handled(p) /\ posting' = [posting EXCEPT ![p] = 0] /\ posted' = posted
        BY <1>11 DEF Established, ends
  <2>2. \A q \in Proc : posting'[q] = IF q = p THEN 0 ELSE posting[q]
        BY <1>1, <2>1 DEF FlagTypes
  <2>3. \A q \in Proc : q # p => events'[q] = events[q]
        BY <1>1, <2>1 DEF Handled, EventsInv
  <2>4. \A q \in Proc : posting'[q] > 0 => q # p /\ events[q] # <<>>
        BY <1>1, <2>2 DEF LoopInv, Handling
  <2> QED BY <1>1, <2>1, <2>2, <2>3, <2>4, LoopKept
<1>12. ASSUME NEW e \in cm, CmReport(e) PROVE LoopInv'
  <2>1. UNCHANGED <<posted, posting>> /\ events' = [events EXCEPT ![Owner(e.id)] = Append(@, e)]
        BY <1>12 DEF CmReport, ends
  <2>2. ASSUME NEW q \in Proc, events[q] # <<>>
        PROVE  events'[q] # <<>> /\ Head(events'[q]) = Head(events[q])
    <3>1. events[q] \in Seq(Event) /\ e \in Event
          BY <1>1 DEF EventsInv, RightEnd
    <3>2. events'[q] = events[q] \/ events'[q] = Append(events[q], e)
          BY <1>1, <2>1 DEF EventsInv
    <3>3. Append(events[q], e) # <<>> /\ Head(Append(events[q], e)) = Head(events[q])
          BY <2>2, <3>1
    <3> QED BY <2>2, <3>2, <3>3
  <2>3. \A q \in Proc : posting[q] > 0 => events[q] # <<>>
        BY <1>1 DEF LoopInv, Handling
  <2> QED BY <1>1, <2>1, <2>2, <2>3, LoopKept
<1>13. CASE UNCHANGED vars
      BY <1>2, <1>13 DEF vars, ends, net
<1> QED BY <1>3, <1>4, <1>5, <1>6, <1>7, <1>8, <1>9, <1>10, <1>11, <1>12, <1>13
        DEF Next, EventThread

\* is_connected is set for a connection with its receives, queues and thread.
LEMMA StepUsable ==
    ASSUME UseInv, [Next]_vars, Grows
    PROVE  ConnectedIsUsable'
<1>1. SourceInv /\ RanksInv /\ FlagTypes /\ CausesInv /\ LoopInv /\ ConnectedIsUsable
      BY DEF UseInv, SourceInv
<1>2. RanksInv'
      BY <1>1, NextSource DEF SourceInv
<1>3. ASSUME NEW p \in Proc, NEW r \in Rank, is_connected[p][r]
      PROVE  /\ conn'[p][r] # None /\ posted'[conn'[p][r]] >= PendingRecvs
             /\ dctx'[p] = "queues" /\ polling'[p]
  <2>1. /\ conn[p][r] # None /\ posted[conn[p][r]] >= PendingRecvs
        /\ dctx[p] = "queues" /\ polling[p]
        BY <1>1, <1>3 DEF ConnectedIsUsable
  <2>2. conn[p][r] \in Id /\ conn'[p][r] = conn[p][r] /\ dctx'[p] = "queues" /\ polling'[p]
        BY <1>1, <2>1 DEF RanksInv, Grows
  <2>3. /\ posted[conn[p][r]] \in Nat /\ posted'[conn[p][r]] \in Nat /\ PendingRecvs \in Nat
        /\ posted[conn[p][r]] <= posted'[conn[p][r]]
        BY <1>1, <1>2, <2>2, ConnectAssumption DEF RanksInv, Grows
  <2> QED BY <2>1, <2>2, <2>3
<1>4. ASSUME is_connected' = is_connected PROVE ConnectedIsUsable'
      BY <1>3, <1>4 DEF ConnectedIsUsable
<1>5. ASSUME NEW p \in Proc, Established(p) PROVE ConnectedIsUsable'
  <2>1. PICK i, k : i = NextId(p) /\ k = Itop(i)
        OBVIOUS
  <2>2. /\ Handling(p, "ESTABLISHED") /\ posting[p] = PendingRecvs
        /\ is_connected' = [is_connected EXCEPT ![p][k] = TRUE]
        /\ UNCHANGED <<conn, posted, dctx, polling>>
        BY <1>5, <2>1 DEF Established, ends
  <2>3. i \in Id /\ k \in Rank /\ conn[p][k] = i /\ dctx[p] = "queues"
        BY <1>1, <2>1, <2>2, HeadCause
  <2>4. posting[p] > 0
        BY <2>2, ConnectAssumption
  <2>5. polling[p] /\ posted[i] >= PendingRecvs
        BY <1>1, <2>1, <2>2, <2>4 DEF LoopInv
  <2>6. \A q \in Proc, r \in Rank : is_connected'[q][r] => (q = p /\ r = k) \/ is_connected[q][r]
        BY <1>1, <2>2 DEF FlagTypes
  <2>7. i # None
        BY <2>3, NoneIsNoId
  <2> QED BY <1>3, <2>2, <2>3, <2>5, <2>6, <2>7 DEF ConnectedIsUsable
<1>6. ASSUME NEW c \in Call, \/ VerbsConnect(c) \/ VerbsConnectReturns(c)
                             \/ FirstMessage(c) \/ Break(c)
      PROVE  is_connected' = is_connected
      BY <1>6 DEF VerbsConnect, VerbsConnectReturns, FirstMessage, Break, peers
<1>7. ASSUME NEW p \in Listener, WaitReady(p) PROVE is_connected' = is_connected
      BY <1>7 DEF WaitReady, peers
<1>8. ASSUME NEW p \in Proc, \/ CreateDctx(p) \/ CreateQueryQp(p) \/ ConnectRequest(p)
                             \/ AddrResolved(p) \/ RouteResolved(p) \/ PostRecv(p)
                             \/ Disconnected(p)
      PROVE  is_connected' = is_connected
      BY <1>8 DEF CreateDctx, CreateQueryQp, ConnectRequest, AddrResolved, RouteResolved,
                  PostRecv, Disconnected, peers
<1>9. ASSUME NEW e \in cm, CmReport(e) PROVE is_connected' = is_connected
      BY <1>9 DEF CmReport, peers
<1>10. CASE UNCHANGED vars
      BY <1>4, <1>10 DEF vars, peers
<1> QED BY <1>4, <1>5, <1>6, <1>7, <1>8, <1>9, <1>10 DEF Next, EventThread

\* A call returns when its rank is connected.
LEMMA StepReturn ==
    ASSUME UseInv, [Next]_vars, Grows
    PROVE  ReturnInv'
<1>1. FlagTypes /\ ReturnInv
      BY DEF UseInv
<1>2. \A c \in Call : Caller[c] \in Proc /\ CallRank[c] \in Rank
      BY ConnectAssumption DEF Rank
<1>3. \A c \in Call : is_connected[Caller[c]][CallRank[c]] => is_connected'[Caller[c]][CallRank[c]]
      BY <1>2 DEF Grows
<1>4. \A c \in Call : call_pc'[c] = "returned" => is_connected[Caller[c]][CallRank[c]]
  <2>1. ASSUME UNCHANGED call_pc
        PROVE  \A c \in Call : call_pc'[c] = "returned" => is_connected[Caller[c]][CallRank[c]]
        BY <1>1, <2>1 DEF ReturnInv
  <2>2. ASSUME NEW d \in Call, VerbsConnect(d)
        PROVE  \A c \in Call : call_pc'[c] = "returned" => is_connected[Caller[c]][CallRank[c]]
        BY <1>1, <2>2 DEF VerbsConnect, FlagTypes, ReturnInv
  <2>3. ASSUME NEW d \in Call, VerbsConnectReturns(d)
        PROVE  \A c \in Call : call_pc'[c] = "returned" => is_connected[Caller[c]][CallRank[c]]
        BY <1>1, <2>3 DEF VerbsConnectReturns, FlagTypes, ReturnInv
  <2>4. ASSUME NEW d \in Call, FirstMessage(d) \/ Break(d) PROVE UNCHANGED call_pc
        BY <2>4 DEF FirstMessage, Break
  <2>5. ASSUME NEW p \in Listener, WaitReady(p) PROVE UNCHANGED call_pc
        BY <2>5 DEF WaitReady
  <2>6. ASSUME NEW p \in Proc, EventThread(p) PROVE UNCHANGED call_pc
        BY <2>6 DEF EventThread, CreateDctx, CreateQueryQp, ConnectRequest, AddrResolved,
                    RouteResolved, PostRecv, Established, Disconnected
  <2>7. ASSUME NEW e \in cm, CmReport(e) PROVE UNCHANGED call_pc
        BY <2>7 DEF CmReport
  <2>8. CASE UNCHANGED vars
        BY <2>1, <2>8 DEF vars
  <2> QED BY <2>1, <2>2, <2>3, <2>4, <2>5, <2>6, <2>7, <2>8 DEF Next
<1> QED BY <1>3, <1>4 DEF ReturnInv

\* A rank is queued for a connection that is lost, and stays the rank of it.
LEMMA StepLost ==
    ASSUME UseInv, [Next]_vars, Grows
    PROVE  DisconnectedNamesLost'
<1>1. SourceInv /\ FlagTypes /\ CausesInv /\ DisconnectedNamesLost
      BY DEF UseInv
<1> DEFINE Lost(p, r) == \E c \in broken : conn[p][r] \in {Active(c), Passive(c)}
<1>2. ASSUME NEW p \in Proc, NEW r \in Rank, Lost(p, r) PROVE Lost(p, r)'
  <2>1. PICK c \in broken : conn[p][r] \in {Active(c), Passive(c)}
        BY <1>2
  <2>2. c \in Call /\ c \in broken'
        BY <1>1 DEF FlagTypes, Grows
  <2>3. conn[p][r] # None
        BY <2>1, <2>2, Ends
  <2> QED BY <2>1, <2>2, <2>3 DEF Grows
<1>3. ASSUME NEW p \in Proc
      PROVE  /\ disconnected_prank_q[p] \in Seq(Rank) /\ Len(disconnected_prank_q[p]) \in Nat
             /\ \A k \in 1 .. Len(disconnected_prank_q[p]) :
                   disconnected_prank_q[p][k] \in Rank /\ Lost(p, disconnected_prank_q[p][k])
  <2>1. disconnected_prank_q[p] \in Seq(Rank)
        BY <1>1 DEF FlagTypes
  <2> QED BY <1>1, <2>1, ElementOfSeq, LenProperties DEF DisconnectedNamesLost
<1>4. ASSUME UNCHANGED disconnected_prank_q PROVE DisconnectedNamesLost'
      BY <1>2, <1>3, <1>4 DEF DisconnectedNamesLost
<1>5. ASSUME NEW p \in Proc, Disconnected(p) PROVE DisconnectedNamesLost'
  <2>1. PICK i, r : i = NextId(p) /\ r = Itop(i)
        OBVIOUS
  <2>2. PICK s : s = disconnected_prank_q[p]
        OBVIOUS
  <2>3. /\ Handling(p, "DISCONNECTED") /\ UNCHANGED <<conn, broken>>
        /\ disconnected_prank_q' = [disconnected_prank_q EXCEPT ![p] = Append(s, r)]
        BY <1>5, <2>1, <2>2 DEF Disconnected, peers
  <2>4. r \in Rank /\ Lost(p, r)'
    <3>1. r \in Rank /\ i.call \in broken /\ conn[p][r] = i /\ i \in {Active(i.call), Passive(i.call)}
          BY <1>1, <2>1, <2>3, HeadCause
    <3>2. PICK c \in broken : conn[p][r] \in {Active(c), Passive(c)}
          BY <3>1
    <3> QED BY <2>3, <3>1, <3>2
  <2>5. \A q \in Proc : disconnected_prank_q'[q] = IF q = p THEN Append(s, r)
                                                   ELSE disconnected_prank_q[q]
        BY <1>1, <2>3 DEF FlagTypes
  <2>6. /\ s \in Seq(Rank) /\ Len(s) \in Nat
        /\ \A k \in 1 .. Len(s) : s[k] \in Rank /\ Lost(p, s[k])
        BY <1>3, <2>2
  <2>7. /\ Len(Append(s, r)) = Len(s) + 1 /\ Append(s, r)[Len(s) + 1] = r
        /\ \A k \in 1 .. Len(s) : Append(s, r)[k] = s[k]
        BY <2>4, <2>6
  <2> HIDE DEF Lost
  <2>8. ASSUME NEW q \in Proc, NEW k \in 1 .. Len(disconnected_prank_q'[q]), NEW x,
               x = disconnected_prank_q'[q][k]
        PROVE  Lost(q, x)'
    <3>1. CASE q = p /\ k = Len(s) + 1
      <4>1. x = r
            BY <2>5, <2>7, <2>8, <3>1
      <4> QED BY <2>4, <3>1, <4>1
    <3>2. CASE q = p /\ k # Len(s) + 1
      <4>0. k \in 1 .. Len(s) + 1
            BY <2>5, <2>7, <3>2
      <4>1. k \in 1 .. Len(s)
            BY <2>6, <3>2, <4>0
      <4>2. x \in Rank /\ Lost(p, x)
            BY <2>5, <2>6, <2>7, <2>8, <3>2, <4>1
      <4> QED BY <1>2, <3>2, <4>2
    <3>3. CASE q # p
      <4>1. x \in Rank /\ Lost(q, x)
            BY <1>3, <2>5, <2>8, <3>3
      <4> QED BY <1>2, <4>1
    <3> QED BY <3>1, <3>2, <3>3
  <2> QED BY <2>8 DEF DisconnectedNamesLost, Lost
<1>6. ASSUME NEW c \in Call, \/ VerbsConnect(c) \/ VerbsConnectReturns(c)
                             \/ FirstMessage(c) \/ Break(c)
      PROVE  UNCHANGED disconnected_prank_q
      BY <1>6 DEF VerbsConnect, VerbsConnectReturns, FirstMessage, Break
<1>7. ASSUME NEW p \in Listener, WaitReady(p) PROVE UNCHANGED disconnected_prank_q
      BY <1>7 DEF WaitReady
<1>8. ASSUME NEW p \in Proc, \/ CreateDctx(p) \/ CreateQueryQp(p) \/ ConnectRequest(p)
                             \/ AddrResolved(p) \/ RouteResolved(p) \/ PostRecv(p)
                             \/ Established(p)
      PROVE  UNCHANGED disconnected_prank_q
      BY <1>8 DEF CreateDctx, CreateQueryQp, ConnectRequest, AddrResolved, RouteResolved,
                  PostRecv, Established
<1>9. ASSUME NEW e \in cm, CmReport(e) PROVE UNCHANGED disconnected_prank_q
      BY <1>9 DEF CmReport
<1>10. CASE UNCHANGED vars
      BY <1>4, <1>10 DEF vars
<1> HIDE DEF Lost
<1> QED BY <1>4, <1>5, <1>6, <1>7, <1>8, <1>9, <1>10 DEF Next, EventThread

\* Nothing is connected, pending or lost.
LEMMA InitUse == Init => UseInv
<1> SUFFICES ASSUME Init PROVE UseInv
    OBVIOUS
<1>1. SourceInv
      BY InitSource
<1>2. FlagTypes
      BY DEF Init, FlagTypes
<1>3. \A e : ~ Pending(e)
      BY DEF Init, Pending, Range
<1>4. PeersInv
      BY Ends DEF Init, PeersInv
<1>5. \A i \in Id : posted[i] = 0
      BY DEF Init
<1>6. LoopInv
      BY <1>5, Ends DEF Init, LoopInv
<1>7. CausesInv /\ ReturnInv /\ ConnectedIsUsable
  <2>1. CausesInv
        BY <1>3 DEF CausesInv
  <2>2. ReturnInv
        BY DEF Init, ReturnInv
  <2>3. ConnectedIsUsable
        BY DEF Init, ConnectedIsUsable
  <2> QED BY <2>1, <2>2, <2>3
<1>8. DisconnectedNamesLost
  <2>1. \A p \in Proc : Len(disconnected_prank_q[p]) = 0
        BY DEF Init
  <2> QED BY <2>1 DEF DisconnectedNamesLost
<1> QED BY <1>1, <1>2, <1>4, <1>6, <1>7, <1>8 DEF UseInv

\* Among clients and servers every step keeps the invariant.
LEMMA NextUse ==
    ASSUME OneRole
    PROVE  UseInv /\ [Next]_vars => UseInv'
<1> SUFFICES ASSUME UseInv, [Next]_vars PROVE UseInv'
    OBVIOUS
<1>1. Grows
      BY StepGrows
<1>2. SourceInv' /\ FlagTypes'
      BY NextSource, StepFlags DEF UseInv
<1> QED BY <1>1, <1>2, StepPeers, StepLoop, StepCauses, StepReturn, StepUsable,
           StepLost DEF UseInv

\* The invariant holds in every state of the specification.
LEMMA UseInvariant ==
    ASSUME OneRole
    PROVE  Spec => []UseInv
<1> QED BY InitUse, NextUse, PTL DEF Spec

\* What fdmi_verbs_connect spins on is enough to communicate, for any number of
\* clients and servers and any order of their events: is_connected is set when
\* the connection is stored, all its receives are posted, and the queues and the
\* thread that polls them exist.
THEOREM ConnectedUsable ==
    ASSUME OneRole
    PROVE  Spec => []ConnectedIsUsable
<1>1. UseInv => ConnectedIsUsable
      BY DEF UseInv
<1> QED BY <1>1, UseInvariant, PTL

\* A rank that DISCONNECTED queues is the rank of a connection that was lost, also
\* when that rank was given out or another call asked for the same rank.
THEOREM LostNamed ==
    ASSUME OneRole
    PROVE  Spec => []DisconnectedNamesLost
<1>1. UseInv => DisconnectedNamesLost
      BY DEF UseInv
<1> QED BY <1>1, UseInvariant, PTL

\* When fdmi_verbs_connect(rank, hostname) returns, the connection of the rank
\* leads to the host, also for a second call with that rank, which is answered
\* by the connection of the first.
THEOREM RankLeadsToHost ==
    ASSUME OneRole, OneHost
    PROVE  Spec => []RankNamesHost
<1>1. UseInv => RankNamesHost
  <2> SUFFICES ASSUME UseInv, NEW c \in Call, call_pc[c] = "returned"
               PROVE  /\ conn[Caller[c]][CallRank[c]] # None
                      /\ FarEnd(conn[Caller[c]][CallRank[c]]) = CallHost[c]
      BY DEF RankNamesHost
  <2>1. PICK p \in Proc, r \in Rank : p = Caller[c] /\ r = CallRank[c]
        BY ConnectAssumption DEF Rank
  <2>2. conn[p][r] # None
        BY <2>1 DEF UseInv, ReturnInv, ConnectedIsUsable
  <2>3. PICK d \in Call : conn[p][r] \in {Active(d), Passive(d)}
        BY <2>2, Ends DEF UseInv, SourceInv, RanksInv
  <2>4. conn[p][r] # Passive(d)
        BY <2>1 DEF UseInv, PeersInv, OneRole
  <2>5. conn[p][r] = Active(d) /\ Caller[d] = p /\ CallRank[d] = r
        BY <2>3, <2>4 DEF UseInv, PeersInv
  <2>6. FarEnd(Active(d)) = CallHost[d]
        BY DEF FarEnd, Active
  <2>7. CallHost[d] = CallHost[c]
        BY <2>1, <2>5 DEF OneHost
  <2> QED BY <2>1, <2>2, <2>5, <2>6, <2>7
<1> QED BY <1>1, UseInvariant, PTL

----------------------------------------------------------------------------
(* Ranks stay in bounds *)

\* No process is called as often as it has peers.
FewCalls ==
    /\ IsFiniteSet(Call)
    /\ \A p \in Proc : Cardinality({c \in Call : CallHost[c] = p}) < fdmi_size

\* A call goes through three events before it has a rank at the host.
StageTypes == {"ADDR_RESOLVED", "ROUTE_RESOLVED", "CONNECT_REQUEST"}
Stages(c)  == {Ev("ADDR_RESOLVED", Active(c)), Ev("ROUTE_RESOLVED", Active(c)),
               Ev("CONNECT_REQUEST", Passive(c))}

\* None of them is pending twice.
OnceInv ==
    \A e \in Event : e.type \in StageTypes =>
        /\ \A p \in Proc : \A i, j \in DOMAIN events[p] :
              events[p][i] = e /\ events[p][j] = e => i = j
        /\ e \in cm => \A p \in Proc : e \notin Range(events[p])

\* A call is in one stage at most, and then it has no rank.
StageInv ==
    /\ \A e \in Event : Pending(e) /\ e.type \in StageTypes => e \in Stages(e.id.call)
    /\ \A c \in Call : \A e, f \in Stages(c) : Pending(e) /\ Pending(f) => e = f
    /\ \A c \in Call : \A e \in Stages(c) : Pending(e) =>
          call_pc[c] # "idle" /\ itop[Passive(c)] = None
    /\ \A c \in Call : call_pc[c] = "idle" => itop[Passive(c)] = None

\* the callers that have a rank at p
Served(p) == {c \in Call : CallHost[c] = p /\ itop[Passive(c)] # None}
CountInv  == \A p \in Proc : connected_rank[p] = Cardinality(Served(p)) + 1

RestTypes ==
    /\ posting \in [Proc -> 0 .. PendingRecvs]
    /\ fdmi_state \in [Proc -> {"COMPUTE", "FAILURE"}]
    /\ ready \in [Proc -> {"no", "junk", "queues"}]

CallsInv == SourceInv /\ FlagTypes /\ OnceInv /\ StageInv /\ CountInv /\ RestTypes

\* The stages of a call are three different events of that call.
LEMMA StageFacts ==
    ASSUME NEW c \in Call, NEW e \in Stages(c)
    PROVE  e \in Event /\ e.type \in StageTypes /\ e.id.call = c
<1>1. Active(c) \in Id /\ Passive(c) \in Id /\ Active(c).call = c /\ Passive(c).call = c
      BY Ends DEF Active, Passive
<1> QED BY <1>1, EvFields DEF Stages, StageTypes, Event, Ev

\* Handled events leave, new ones are none that is pending.
LEMMA HandledOnce ==
    ASSUME EventsInv, OnceInv, NEW p \in Proc, events[p] # <<>>, Handled(p),
           NEW x, x = Head(events[p]), NEW N, cm' = cm \cup N,
           \A e \in N : e.type \in StageTypes => ~ Pending(e)
    PROVE  /\ OnceInv'
           /\ x.type \in StageTypes /\ x \notin N => ~ Pending(x)'
<1>1. PICK s : s = events[p] /\ s \in Seq(Event) /\ s # <<>> /\ x = Head(s)
      BY DEF EventsInv
<1>2. PICK t : t = Tail(s)
      OBVIOUS
<1>3. /\ t \in Seq(Event) /\ Len(t) = Len(s) - 1 /\ x = s[1] /\ x \in Event
      /\ \A j \in 1 .. Len(s) - 1 : t[j] = s[j + 1]
      BY <1>1, <1>2, HeadTailProperties, TailEntries
<1>4. /\ Len(s) \in Nat /\ Len(s) > 0 /\ DOMAIN s = 1 .. Len(s) /\ DOMAIN t = 1 .. Len(s) - 1
      BY <1>1, <1>3, LenProperties, EmptySeq
<1>5. \A q \in Proc : events'[q] = IF q = p THEN t ELSE events[q]
      BY <1>1, <1>2 DEF Handled, EventsInv
<1>6. ASSUME NEW e \in Range(t) PROVE e \in Range(s)
      BY <1>3, <1>4 DEF Range
<1>7. ASSUME NEW e \in Event, e.type \in StageTypes
      PROVE  /\ \A q \in Proc : \A i, j \in DOMAIN events'[q] :
                   events'[q][i] = e /\ events'[q][j] = e => i = j
             /\ e \in cm' => \A q \in Proc : e \notin Range(events'[q])
  <2>1. \A q \in Proc : \A i, j \in DOMAIN events[q] : events[q][i] = e /\ events[q][j] = e => i = j
        BY <1>7 DEF OnceInv
  <2>2. ASSUME NEW i \in DOMAIN t, NEW j \in DOMAIN t, t[i] = e, t[j] = e PROVE i = j
    <3>1. i + 1 \in DOMAIN s /\ j + 1 \in DOMAIN s /\ s[i + 1] = e /\ s[j + 1] = e
          BY <1>3, <1>4, <2>2
    <3>2. i + 1 = j + 1
          BY <1>1, <2>1, <3>1
    <3> QED BY <1>4, <2>2, <3>2
  <2>3. ASSUME e \in cm', NEW q \in Proc PROVE e \notin Range(events'[q])
    <3>1. e \notin Range(events[q])
          BY <1>7, <2>3 DEF OnceInv, Pending
    <3> QED BY <1>1, <1>5, <1>6, <3>1
  <2> QED BY <1>5, <2>1, <2>2, <2>3
<1>8. ASSUME x.type \in StageTypes, x \notin N PROVE ~ Pending(x)'
  <2>1. x \in Range(s)
        BY <1>3, <1>4 DEF Range
  <2>2. x \notin cm'
        BY <1>1, <1>3, <1>8, <2>1 DEF OnceInv
  <2>3. x \notin Range(t)
    <3>1. ASSUME NEW j \in DOMAIN t, t[j] = x PROVE FALSE
      <4>1. j + 1 \in DOMAIN s /\ s[j + 1] = x /\ 1 \in DOMAIN s /\ s[1] = x
            BY <1>3, <1>4, <3>1
      <4>2. j + 1 = 1
            BY <1>1, <1>3, <1>8, <4>1 DEF OnceInv
      <4> QED BY <1>4, <4>2
    <3> QED BY <3>1 DEF Range
  <2>4. ASSUME NEW q \in Proc, q # p PROVE x \notin Range(events[q])
    <3>1. Owner(x.id) = p
          BY <1>1, <1>3, <1>4 DEF EventsInv
    <3> QED BY <2>4, <3>1 DEF EventsInv, Range
  <2> QED BY <1>5, <2>2, <2>3, <2>4 DEF Pending
<1> QED BY <1>7, <1>8 DEF OnceInv

\* New events are caused.
LEMMA AskedOnce ==
    ASSUME OnceInv, UNCHANGED events, NEW N, cm' = cm \cup N,
           \A e \in N : e.type \in StageTypes => ~ Pending(e)
    PROVE  OnceInv'
BY DEF OnceInv, Pending

\* An event is reported once.
LEMMA ReportOnce ==
    ASSUME EventsInv, OnceInv, NEW x \in cm, CmReport(x)
    PROVE  OnceInv'
<1>1. x \in Event /\ x.id \in Id
      BY DEF EventsInv, RightEnd, Event
<1>2. PICK p \in Proc : p = Owner(x.id)
      BY <1>1, OwnerType
<1>3. PICK s : s = events[p] /\ s \in Seq(Event)
      BY DEF EventsInv
<1>4. PICK t : t = Append(s, x)
      OBVIOUS
<1>5. \A q \in Proc : events'[q] = IF q = p THEN t ELSE events[q]
      BY <1>2, <1>3, <1>4 DEF CmReport, EventsInv
<1>6. /\ Len(s) \in Nat /\ DOMAIN s = 1 .. Len(s) /\ DOMAIN t = 1 .. Len(s) + 1
      /\ t[Len(s) + 1] = x /\ \A j \in 1 .. Len(s) : t[j] = s[j]
      BY <1>1, <1>3, <1>4
<1>7. Range(t) = Range(s) \cup {x}
      BY <1>1, <1>3, <1>4, PutLast
<1>8. \A e \in cm' : (e \in cm /\ e # x) \/ e.type \notin StageTypes
  <2>1. \A e \in cm' : (e \in cm /\ e # x) \/ e = Ev("ESTABLISHED", Passive(x.id.call))
        BY DEF CmReport
  <2> QED BY <2>1, EvFields DEF StageTypes
<1>9. ASSUME NEW e \in Event, e.type \in StageTypes
      PROVE  /\ \A q \in Proc : \A i, j \in DOMAIN events'[q] :
                   events'[q][i] = e /\ events'[q][j] = e => i = j
             /\ e \in cm' => \A q \in Proc : e \notin Range(events'[q])
  <2>1. \A q \in Proc : \A i, j \in DOMAIN events[q] : events[q][i] = e /\ events[q][j] = e => i = j
        BY <1>9 DEF OnceInv
  <2>2. ASSUME NEW i \in DOMAIN t, NEW j \in DOMAIN t, t[i] = e, t[j] = e PROVE i = j
    <3>1. CASE e = x
      <4>1. x \notin Range(s)
            BY <1>3, <1>9, <3>1 DEF OnceInv
      <4>2. \A k \in 1 .. Len(s) : t[k] # x
            BY <1>6, <4>1 DEF Range
      <4> QED BY <1>6, <2>2, <3>1, <4>2
    <3>2. CASE e # x
      <4>1. i \in 1 .. Len(s) /\ j \in 1 .. Len(s)
            BY <1>6, <2>2, <3>2
      <4> QED BY <1>3, <1>6, <2>1, <2>2, <4>1
    <3> QED BY <3>1, <3>2
  <2>3. ASSUME e \in cm', NEW q \in Proc PROVE e \notin Range(events'[q])
    <3>1. e \in cm /\ e # x
          BY <1>8, <1>9, <2>3
    <3>2. e \notin Range(events[q])
          BY <1>9, <3>1 DEF OnceInv
    <3> QED BY <1>3, <1>5, <1>7, <3>1, <3>2
  <2> QED BY <1>5, <2>1, <2>2, <2>3
<1> QED BY <1>9 DEF OnceInv

\* An event that is a stage of a call leads to at most one other stage of it.
LEMMA StageMoves ==
    ASSUME StageInv, NEW c \in Call, NEW x \in Stages(c), Pending(x), ~ Pending(x)', NEW N,
           \A e \in N : e \in Stages(c) \/ e.type \notin StageTypes,
           \A e, f \in N : e \in Stages(c) /\ f \in Stages(c) => e = f,
           \A e \in Event : Pending(e)' => Pending(e) \/ e \in N,
           call_pc' = call_pc, \A d \in Call : d # c => itop'[Passive(d)] = itop[Passive(d)],
           (\A e \in N : e.type \notin StageTypes) \/ itop'[Passive(c)] = itop[Passive(c)]
    PROVE  StageInv'
<1>1. call_pc[c] # "idle" /\ itop[Passive(c)] = None
      BY DEF StageInv
<1>2. \A e \in Stages(c) : Pending(e)' => e \in N
  <2>1. \A e \in Stages(c) : Pending(e) => e = x
        BY DEF StageInv
  <2> QED BY <2>1, StageFacts
<1>3. \A d \in Call : \A e \in Stages(d) : d # c => (Pending(e)' => Pending(e))
  <2>1. ASSUME NEW d \in Call, NEW e \in Stages(d), d # c, Pending(e)' PROVE Pending(e)
    <3>1. e \in Event /\ e.type \in StageTypes /\ e.id.call = d
          BY <2>1, StageFacts
    <3>2. e \notin Stages(c)
          BY <2>1, <3>1, StageFacts
    <3> QED BY <2>1, <3>1, <3>2
  <2> QED BY <2>1
<1>4. ASSUME NEW e \in Event, Pending(e)', e.type \in StageTypes PROVE e \in Stages(e.id.call)
  <2>1. CASE Pending(e)
        BY <1>4, <2>1 DEF StageInv
  <2>2. CASE e \in N
    <3>1. e \in Stages(c)
          BY <1>4, <2>2
    <3> QED BY <3>1, StageFacts
  <2> QED BY <1>4, <2>1, <2>2
<1>5. ASSUME NEW d \in Call, NEW e \in Stages(d), NEW f \in Stages(d), Pending(e)', Pending(f)'
      PROVE  e = f
  <2>1. CASE d = c
        BY <1>2, <1>5, <2>1
  <2>2. CASE d # c
        BY <1>3, <1>5, <2>2 DEF StageInv
  <2> QED BY <2>1, <2>2
<1>6. ASSUME NEW d \in Call, NEW e \in Stages(d), Pending(e)'
      PROVE  call_pc'[d] # "idle" /\ itop'[Passive(d)] = None
  <2>1. CASE d = c
    <3>1. e \in N /\ e.type \in StageTypes
          BY <1>2, <1>6, <2>1, StageFacts
    <3> QED BY <1>1, <2>1, <3>1
  <2>2. CASE d # c
        BY <1>3, <1>6, <2>2 DEF StageInv
  <2> QED BY <2>1, <2>2
<1>7. ASSUME NEW d \in Call, call_pc'[d] = "idle" PROVE itop'[Passive(d)] = None
      BY <1>1, <1>7 DEF StageInv
<1> HIDE DEF Stages
<1>8. \A d \in Call : Stages(d)' = Stages(d)
      BY DEF Stages, Ev, Active, Passive
<1> QED BY <1>4, <1>5, <1>6, <1>7, <1>8 DEF StageInv

\* Other steps cause no stage.
LEMMA StageKept ==
    ASSUME StageInv, \A e \in Event : e.type \in StageTypes /\ Pending(e)' => Pending(e),
           \/ call_pc' = call_pc
           \/ \E c \in Call : call_pc[c] # "idle" /\ call_pc' = [call_pc EXCEPT ![c] = "returned"],
           \A d \in Call : itop'[Passive(d)] = itop[Passive(d)], FlagTypes
    PROVE  StageInv'
<1>1. \A d \in Call : call_pc'[d] = "idle" <=> call_pc[d] = "idle"
      BY DEF FlagTypes
<1>2. \A d \in Call : \A e \in Stages(d) : Pending(e)' => Pending(e)
      BY StageFacts
<1> HIDE DEF Stages
<1>3. \A d \in Call : Stages(d)' = Stages(d)
      BY DEF Stages, Ev, Active, Passive
<1>4. ASSUME NEW e \in Event, Pending(e)', e.type \in StageTypes PROVE e \in Stages(e.id.call)
      BY <1>4 DEF StageInv
<1>5. ASSUME NEW d \in Call, NEW e \in Stages(d), NEW f \in Stages(d), Pending(e)', Pending(f)'
      PROVE  e = f
      BY <1>2, <1>5 DEF StageInv
<1>6. ASSUME NEW d \in Call, NEW e \in Stages(d), Pending(e)'
      PROVE  call_pc'[d] # "idle" /\ itop'[Passive(d)] = None
      BY <1>1, <1>2, <1>6 DEF StageInv
<1>7. ASSUME NEW d \in Call, call_pc'[d] = "idle" PROVE itop'[Passive(d)] = None
      BY <1>1, <1>7 DEF StageInv
<1> QED BY <1>3, <1>4, <1>5, <1>6, <1>7 DEF StageInv

\* What is known of the stage that is being handled.
LEMMA HeadStage ==
    ASSUME EventsInv, StageInv, NEW p \in Proc, NEW t, Handling(p, t), t \in StageTypes
    PROVE  \E c \in Call : /\ Head(events[p]) \in Stages(c) /\ Pending(Head(events[p]))
                           /\ NextId(p).call = c /\ itop[Passive(c)] = None
                           /\ \A f \in Stages(c) : f # Head(events[p]) => ~ Pending(f)
<1>1. PICK x : x = Head(events[p]) /\ Pending(x) /\ x.type = t
      BY HeadPending DEF Handling
<1>2. x \in Event /\ x.id.call \in Call
      BY <1>1, PendingRight
<1>3. x \in Stages(x.id.call)
      BY <1>1, <1>2 DEF StageInv
<1>4. NextId(p).call = x.id.call
      BY <1>1 DEF NextId
<1>5. /\ itop[Passive(x.id.call)] = None
      /\ \A f \in Stages(x.id.call) : f # x => ~ Pending(f)
      BY <1>1, <1>2, <1>3 DEF StageInv
<1> QED BY <1>1, <1>2, <1>3, <1>4, <1>5

\* Every step keeps each call in one stage.
LEMMA StepStages ==
    ASSUME SourceInv, FlagTypes, OnceInv, StageInv, [Next]_vars
    PROVE  OnceInv' /\ StageInv'
<1>1. EventsInv /\ RanksInv
      BY DEF SourceInv
<1>2. ASSUME NEW N, cm' = cm \cup N, UNCHANGED events, \A e \in N : e.type \notin StageTypes,
             call_pc' = call_pc \/ \E c \in Call : call_pc[c] # "idle"
                                     /\ call_pc' = [call_pc EXCEPT ![c] = "returned"],
             itop' = itop
      PROVE  OnceInv' /\ StageInv'
  <2>1. \A e \in Event : Pending(e)' => Pending(e) \/ e \in N
        BY <1>2, SamePending
  <2>2. OnceInv'
        BY <1>2, AskedOnce
  <2> QED BY <1>2, <2>1, <2>2, StageKept
<1>3. ASSUME UNCHANGED <<events, cm, itop>>,
             call_pc' = call_pc \/ \E c \in Call : call_pc[c] # "idle"
                                     /\ call_pc' = [call_pc EXCEPT ![c] = "returned"]
      PROVE  OnceInv' /\ StageInv'
  <2>1. PICK N : N = {}
        OBVIOUS
  <2>2. cm' = cm \cup N /\ \A e \in N : e.type \notin StageTypes
        BY <1>3, <2>1
  <2> QED BY <1>2, <1>3, <2>2
<1>4. ASSUME NEW c \in Call, VerbsConnect(c) PROVE OnceInv' /\ StageInv'
  <2>1. PICK x : x = Ev("ADDR_RESOLVED", Active(c))
        OBVIOUS
  <2>2. /\ call_pc[c] = "idle" /\ call_pc' = [call_pc EXCEPT ![c] = "waiting"]
        /\ itop' = [itop EXCEPT ![Active(c)] = CallRank[c]] /\ cm' = cm \cup {x}
        /\ UNCHANGED events
        BY <1>4, <2>1 DEF VerbsConnect
  <2>3. x \in Stages(c) /\ x.id.call = c
        BY <2>1, StageFacts DEF Stages
  <2>4. \A e \in Stages(c) : ~ Pending(e)
        BY <2>2 DEF StageInv
  <2>5. itop[Passive(c)] = None
        BY <2>2 DEF StageInv
  <2>6. OnceInv'
    <3>1. PICK N : N = {x}
          OBVIOUS
    <3> QED BY <2>2, <2>3, <2>4, <3>1, AskedOnce
  <2>7. \A e \in Event : Pending(e)' => Pending(e) \/ e = x
    <3>1. PICK N : N = {x}
          OBVIOUS
    <3> QED BY <2>2, <3>1, SamePending
  <2>8. \A d \in Call : itop'[Passive(d)] = itop[Passive(d)]
        BY <1>1, <2>2, Ends DEF RanksInv
  <2>9. \A d \in Call : call_pc'[d] = IF d = c THEN "waiting" ELSE call_pc[d]
        BY <2>2 DEF FlagTypes
  <2>10. \A d \in Call : Stages(d)' = Stages(d)
        BY DEF Stages, Ev, Active, Passive
  <2>11. ASSUME NEW e \in Event, Pending(e)', e.type \in StageTypes PROVE e \in Stages(e.id.call)
        BY <2>3, <2>7, <2>11 DEF StageInv
  <2>12. ASSUME NEW d \in Call, NEW e \in Stages(d), Pending(e)'
         PROVE  (d = c /\ e = x) \/ (d # c /\ Pending(e))
    <3>1. e \in Event /\ e.id.call = d
          BY StageFacts
    <3> QED BY <2>3, <2>4, <2>7, <2>12, <3>1
  <2>13. ASSUME NEW d \in Call, NEW e \in Stages(d), NEW f \in Stages(d), Pending(e)', Pending(f)'
         PROVE  e = f
        BY <2>12, <2>13 DEF StageInv
  <2>14. ASSUME NEW d \in Call, NEW e \in Stages(d), Pending(e)'
         PROVE  call_pc'[d] # "idle" /\ itop'[Passive(d)] = None
    <3>1. CASE d = c
          BY <2>5, <2>8, <2>9, <3>1
    <3>2. CASE d # c
          BY <2>8, <2>9, <2>12, <2>14, <3>2 DEF StageInv
    <3> QED BY <3>1, <3>2
  <2>15. ASSUME NEW d \in Call, call_pc'[d] = "idle" PROVE itop'[Passive(d)] = None
        BY <2>8, <2>9, <2>15 DEF StageInv
  <2>16. StageInv'
        BY <2>10, <2>11, <2>13, <2>14, <2>15 DEF StageInv
  <2> QED BY <2>6, <2>16
<1>5. ASSUME NEW p \in Proc, NEW t \in StageTypes, Handling(p, t), Handled(p), NEW c \in Call,
             c = NextId(p).call, call_pc' = call_pc,
             \A d \in Call : d # c => itop'[Passive(d)] = itop[Passive(d)],
             NEW N, cm' = cm \cup N, \A e, f \in N : e = f,
             \A e \in N : e.type # t /\ (e \in Stages(c) \/ e.type \notin StageTypes),
             (\A e \in N : e.type \notin StageTypes) \/ itop'[Passive(c)] = itop[Passive(c)]
      PROVE  OnceInv' /\ StageInv'
  <2>1. PICK x : x = Head(events[p])
        OBVIOUS
  <2>2. /\ x \in Stages(c) /\ Pending(x) /\ x.type = t /\ events[p] # <<>>
        /\ \A f \in Stages(c) : f # x => ~ Pending(f)
        BY <1>1, <1>5, <2>1, HeadStage DEF Handling
  <2>3. x \notin N /\ \A e \in N : e.type \in StageTypes => ~ Pending(e)
        BY <1>5, <2>2
  <2>4. OnceInv' /\ ~ Pending(x)'
        BY <1>1, <1>5, <2>1, <2>2, <2>3, HandledOnce
  <2>5. \A e \in Event : Pending(e)' => Pending(e) \/ e \in N
        BY <1>1, <1>5, <2>2, HandledPending
  <2>6. /\ \A e \in N : e \in Stages(c) \/ e.type \notin StageTypes
        /\ \A e, f \in N : e \in Stages(c) /\ f \in Stages(c) => e = f
        BY <1>5
  <2>7. StageInv'
        BY <1>5, <2>2, <2>4, <2>5, <2>6, StageMoves
  <2> QED BY <2>4, <2>7
<1>6. ASSUME NEW p \in Proc, ConnectRequest(p) PROVE OnceInv' /\ StageInv'
  <2>1. Handling(p, "CONNECT_REQUEST") /\ "CONNECT_REQUEST" \in StageTypes
        BY <1>6 DEF ConnectRequest, StageTypes
  <2>2. PICK c \in Call : c = NextId(p).call
        BY <1>1, <2>1, HeadEvent DEF Handling
  <2>3. NextId(p) = Passive(c)
    <3>1. NextId(p) \in Id /\ NextId(p).side = "passive"
          BY <1>1, <2>1, HeadEvent DEF Handling, NextId, RightEnd
    <3> QED BY <2>2, <3>1 DEF Id, Passive
  <2>4. PICK N : N = {Ev("ESTABLISHED", Active(c))}
        OBVIOUS
  <2>5. Handled(p) /\ cm' = cm \cup N /\ call_pc' = call_pc
        BY <1>6, <2>2, <2>4 DEF ConnectRequest
  <2>6. \A d \in Call : d # c => itop'[Passive(d)] = itop[Passive(d)]
        BY <1>1, <1>6, <2>3, Ends DEF ConnectRequest, TakePeer, RanksInv
  <2>7. \A e \in N : e.type # "CONNECT_REQUEST" /\ e.type \notin StageTypes
        BY <2>4, EvFields DEF StageTypes
  <2>8. \A e, f \in N : e = f
        BY <2>4
  <2> QED BY <1>5, <2>1, <2>2, <2>5, <2>6, <2>7, <2>8
<1>7. ASSUME NEW p \in Proc, AddrResolved(p) PROVE OnceInv' /\ StageInv'
  <2>1. Handling(p, "ADDR_RESOLVED") /\ "ADDR_RESOLVED" \in StageTypes
        BY <1>7 DEF AddrResolved, StageTypes
  <2>2. PICK c \in Call : c = NextId(p).call
        BY <1>1, <2>1, HeadEvent DEF Handling
  <2>3. NextId(p) = Active(c)
    <3>1. NextId(p) \in Id /\ NextId(p).side = "active"
          BY <1>1, <2>1, HeadEvent DEF Handling, NextId, RightEnd
    <3> QED BY <2>2, <3>1 DEF Id, Active
  <2>4. PICK N : /\ N \in {{}, {Ev("ROUTE_RESOLVED", Active(c))}} /\ cm' = cm \cup N
        BY <1>7, <2>3 DEF AddrResolved
  <2>5. Handled(p) /\ call_pc' = call_pc /\ itop' = itop
        BY <1>7 DEF AddrResolved, ends
  <2>6. \A e \in N : e.type # "ADDR_RESOLVED" /\ e \in Stages(c)
        BY <2>4, EvFields DEF Stages
  <2>7. \A e, f \in N : e = f
        BY <2>4
  <2> QED BY <1>5, <2>1, <2>2, <2>4, <2>5, <2>6, <2>7
<1>8. ASSUME NEW p \in Proc, RouteResolved(p) PROVE OnceInv' /\ StageInv'
  <2>1. Handling(p, "ROUTE_RESOLVED") /\ "ROUTE_RESOLVED" \in StageTypes
        BY <1>8 DEF RouteResolved, StageTypes
  <2>2. PICK c \in Call : c = NextId(p).call
        BY <1>1, <2>1, HeadEvent DEF Handling
  <2>3. PICK N : N = {Ev("CONNECT_REQUEST", Passive(c))}
        OBVIOUS
  <2>4. Handled(p) /\ cm' = cm \cup N /\ call_pc' = call_pc /\ itop' = itop
        BY <1>8, <2>2, <2>3 DEF RouteResolved, ends
  <2>5. \A e \in N : e.type # "ROUTE_RESOLVED" /\ e \in Stages(c)
        BY <2>3, EvFields DEF Stages
  <2>6. \A e, f \in N : e = f
        BY <2>3
  <2> QED BY <1>5, <2>1, <2>2, <2>4, <2>5, <2>6
<1>9. ASSUME NEW p \in Proc, Established(p) \/ Disconnected(p) PROVE OnceInv' /\ StageInv'
  <2>1. PICK x, N : x = Head(events[p]) /\ N = {}
        OBVIOUS
  <2>2. /\ events[p] # <<>> /\ Handled(p) /\ cm' = cm \cup N /\ call_pc' = call_pc /\ itop' = itop
        BY <1>9, <2>1 DEF Established, Disconnected, Handling, ends
  <2>3. OnceInv'
        BY <1>1, <2>1, <2>2, HandledOnce
  <2>4. \A e \in Event : Pending(e)' => Pending(e) \/ e \in N
        BY <1>1, <2>2, HandledPending
  <2> QED BY <2>1, <2>2, <2>3, <2>4, StageKept
<1>10. ASSUME NEW x \in cm, CmReport(x) PROVE OnceInv' /\ StageInv'
  <2>1. \A e \in Event : e.type \in StageTypes /\ Pending(e)' => Pending(e)
    <3>1. \A e \in Event : Pending(e)' => Pending(e) \/ e = Ev("ESTABLISHED", Passive(x.id.call))
          BY <1>1, <1>10, ReportPending
    <3> QED BY <3>1, EvFields DEF StageTypes
  <2>2. call_pc' = call_pc /\ itop' = itop
        BY <1>10 DEF CmReport, ends
  <2> QED BY <1>1, <1>10, <2>1, <2>2, ReportOnce, StageKept
<1>11. ASSUME NEW c \in Call, VerbsConnectReturns(c) PROVE OnceInv' /\ StageInv'
      BY <1>3, <1>11 DEF VerbsConnectReturns, ends, net
<1>12. ASSUME NEW c \in Call, FirstMessage(c) PROVE OnceInv' /\ StageInv'
      BY <1>3, <1>12 DEF FirstMessage, ends, net
<1>13. ASSUME NEW c \in Call, Break(c) PROVE OnceInv' /\ StageInv'
  <2>1. PICK N : N = {Ev("DISCONNECTED", Active(c)), Ev("DISCONNECTED", Passive(c))}
        OBVIOUS
  <2>2. \A e \in N : e.type \notin StageTypes
        BY <2>1, EvFields DEF StageTypes
  <2>3. cm' = cm \cup N /\ UNCHANGED <<events, call_pc, itop>>
        BY <1>13, <2>1 DEF Break, ends
  <2> QED BY <1>2, <2>2, <2>3
<1>14. ASSUME NEW p \in Listener, WaitReady(p) PROVE OnceInv' /\ StageInv'
      BY <1>3, <1>14 DEF WaitReady, ends, net
<1>15. ASSUME NEW p \in Proc, CreateDctx(p) \/ CreateQueryQp(p) \/ PostRecv(p)
       PROVE  OnceInv' /\ StageInv'
      BY <1>3, <1>15 DEF CreateDctx, CreateQueryQp, PostRecv, ends, net
<1>16. CASE UNCHANGED vars
      BY <1>3, <1>16 DEF vars, ends, net
<1> QED BY <1>4, <1>6, <1>7, <1>8, <1>9, <1>10, <1>11, <1>12, <1>13, <1>14, <1>15, <1>16
        DEF Next, EventThread

\* Steps that give no rank to a caller.
LEMMA SameCount ==
    ASSUME CountInv, connected_rank' = connected_rank,
           \A d \in Call : itop'[Passive(d)] = itop[Passive(d)]
    PROVE  CountInv'
<1>1. ASSUME NEW p \in Proc PROVE Served(p)' = Served(p)
      BY DEF Served, Passive
<1> QED BY <1>1 DEF CountInv

\* A caller that had no rank at p gets one.
LEMMA ServedGrows ==
    ASSUME NEW p \in Proc, NEW c \in Call, CallHost[c] = p, NEW k, k # None,
           \A d \in Call : itop'[Passive(d)] = IF d = c THEN k ELSE itop[Passive(d)]
    PROVE  /\ Served(p)' = Served(p) \cup {c}
           /\ \A q \in Proc : q # p => Served(q)' = Served(q)
<1>1. \A d \in Call : d \in Served(p)' <=> d \in Served(p) \cup {c}
      BY DEF Served, Passive
<1>2. ASSUME NEW q \in Proc, q # p, NEW d \in Call PROVE d \in Served(q)' <=> d \in Served(q)
      BY <1>2 DEF Served, Passive
<1>3. \A q \in Proc : Served(q) \subseteq Call /\ Served(q)' \subseteq Call
      BY DEF Served
<1> HIDE DEF Served
<1>4. Served(p)' = Served(p) \cup {c}
      BY <1>1, <1>3
<1>5. ASSUME NEW q \in Proc, q # p PROVE Served(q)' = Served(q)
      BY <1>2, <1>3, <1>5
<1> QED BY <1>4, <1>5

\* Every step counts: the next rank of a process is one more than the callers it
\* has served.
LEMMA StepCount ==
    ASSUME IsFiniteSet(Call), SourceInv, StageInv, CountInv, [Next]_vars
    PROVE  CountInv'
<1>1. LocksInv /\ EventsInv /\ RanksInv
      BY DEF SourceInv
<1>2. ASSUME NEW c \in Call, VerbsConnect(c) PROVE CountInv'
  <2>1. \A d \in Call : itop'[Passive(d)] = itop[Passive(d)]
        BY <1>1, <1>2, Ends DEF VerbsConnect, RanksInv
  <2> QED BY <1>2, <2>1, SameCount DEF VerbsConnect, peers
<1>3. ASSUME NEW p \in Proc, ConnectRequest(p) PROVE CountInv'
  <2>1. Handling(p, "CONNECT_REQUEST") /\ "CONNECT_REQUEST" \in StageTypes /\ TakePeer(p)
        BY <1>3 DEF ConnectRequest, StageTypes
  <2>2. PICK c \in Call : c = NextId(p).call /\ itop[Passive(c)] = None
        BY <1>1, <2>1, HeadStage
  <2>3. NextId(p) = Passive(c) /\ CallHost[c] = p
    <3>1. NextId(p) \in Id /\ NextId(p).side = "passive" /\ Owner(NextId(p)) = p
          BY <1>1, <2>1, HeadEvent DEF Handling, NextId, RightEnd
    <3> QED BY <2>2, <3>1, Ends DEF Id, Passive
  <2>4. PICK k \in Rank : k = connected_rank[p]
        BY <2>1 DEF TakePeer
  <2>5. \A d \in Call : itop'[Passive(d)] = IF d = c THEN k ELSE itop[Passive(d)]
        BY <1>1, <2>1, <2>3, <2>4, Ends DEF TakePeer, RanksInv
  <2>6. k # None /\ k \in Nat
        BY <1>1, <2>4, NoneIsNoId DEF LocksInv
  <2>7. /\ Served(p)' = Served(p) \cup {c}
        /\ \A q \in Proc : q # p => Served(q)' = Served(q)
        BY <2>3, <2>5, <2>6, ServedGrows
  <2>8. PICK S : S = Served(p)
        OBVIOUS
  <2>9. IsFiniteSet(S) /\ c \notin S
        BY <2>2, <2>8, FS_Subset DEF Served
  <2>10. Cardinality(S \cup {c}) = Cardinality(S) + 1
        BY <2>9, FS_AddElement
  <2>11. \A q \in Proc : connected_rank'[q] = IF q = p THEN k + 1 ELSE connected_rank[q]
        BY <1>1, <2>1, <2>4 DEF TakePeer, LocksInv
  <2>12. k = Cardinality(S) + 1
        BY <2>4, <2>8 DEF CountInv
  <2>13. ASSUME NEW q \in Proc PROVE connected_rank'[q] = Cardinality(Served(q)') + 1
    <3>1. CASE q = p
          BY <2>7, <2>8, <2>10, <2>11, <2>12, <3>1
    <3>2. CASE q # p
          BY <2>7, <2>11, <3>2 DEF CountInv
    <3> QED BY <3>1, <3>2
  <2> QED BY <2>13 DEF CountInv
<1>4. ASSUME UNCHANGED <<connected_rank, itop>> PROVE CountInv'
      BY <1>4, SameCount
<1>5. ASSUME NEW c \in Call, VerbsConnectReturns(c) \/ FirstMessage(c) \/ Break(c)
      PROVE  CountInv'
      BY <1>4, <1>5 DEF VerbsConnectReturns, FirstMessage, Break, ends, peers
<1>6. ASSUME NEW p \in Listener, WaitReady(p) PROVE CountInv'
      BY <1>4, <1>6 DEF WaitReady, ends, peers
<1>7. ASSUME NEW p \in Proc, CreateDctx(p) \/ CreateQueryQp(p) \/ AddrResolved(p)
                 \/ RouteResolved(p) \/ PostRecv(p) \/ Established(p) \/ Disconnected(p)
      PROVE  CountInv'
      BY <1>4, <1>7 DEF CreateDctx, CreateQueryQp, AddrResolved, RouteResolved, PostRecv,
                        Established, Disconnected, ends, peers
<1>8. ASSUME NEW e \in cm, CmReport(e) PROVE CountInv'
      BY <1>4, <1>8 DEF CmReport, ends, peers
<1>9. CASE UNCHANGED vars
      BY <1>4, <1>9 DEF vars, ends, peers
<1> QED BY <1>2, <1>3, <1>5, <1>6, <1>7, <1>8, <1>9 DEF Next, EventThread

\* The loop of ESTABLISHED has PendingRecvs turns, and fdmi_wait_ready returns
\* when there is something to read.
LEMMA StepRest ==
    ASSUME RestTypes, FlagTypes, [Next]_vars
    PROVE  RestTypes'
<1>1. ASSUME UNCHANGED <<posting, fdmi_state, ready>> PROVE RestTypes'
      BY <1>1 DEF RestTypes
<1>2. ASSUME NEW c \in Call, VerbsConnect(c) \/ VerbsConnectReturns(c) \/ FirstMessage(c)
                             \/ Break(c)
      PROVE  RestTypes'
      BY <1>1, <1>2 DEF VerbsConnect, VerbsConnectReturns, FirstMessage, Break
<1>3. ASSUME NEW p \in Listener, WaitReady(p) PROVE RestTypes'
      BY <1>3, ConnectAssumption DEF WaitReady, RestTypes
<1>4. ASSUME NEW p \in Proc, CreateDctx(p) \/ CreateQueryQp(p) \/ ConnectRequest(p)
                             \/ AddrResolved(p) \/ RouteResolved(p)
      PROVE  RestTypes'
      BY <1>1, <1>4 DEF CreateDctx, CreateQueryQp, ConnectRequest, AddrResolved, RouteResolved
<1>5. ASSUME NEW p \in Proc, PostRecv(p) PROVE RestTypes'
  <2>1. PICK k \in 0 .. PendingRecvs : k = posting[p]
        BY DEF RestTypes
  <2>2. k < PendingRecvs /\ posting' = [posting EXCEPT ![p] = k + 1]
        BY <1>5, <2>1 DEF PostRecv, RestTypes
  <2>3. k + 1 \in 0 .. PendingRecvs
        BY <2>2, ConnectAssumption
  <2>4. posting' \in [Proc -> 0 .. PendingRecvs]
        BY <2>2, <2>3 DEF RestTypes
  <2> QED BY <1>5, <2>4 DEF PostRecv, RestTypes
<1>6. ASSUME NEW p \in Proc, Established(p) PROVE RestTypes'
  <2>1. 0 \in 0 .. PendingRecvs
        BY ConnectAssumption
  <2> QED BY <1>6, <2>1 DEF Established, RestTypes
<1>7. ASSUME NEW p \in Proc, Disconnected(p) PROVE RestTypes'
      BY <1>7 DEF Disconnected, RestTypes
<1>8. ASSUME NEW e \in cm, CmReport(e) PROVE RestTypes'
      BY <1>1, <1>8 DEF CmReport
<1>9. CASE UNCHANGED vars
      BY <1>1, <1>9 DEF vars
<1> QED BY <1>2, <1>3, <1>4, <1>5, <1>6, <1>7, <1>8, <1>9 DEF Next, EventThread

\* No call has begun.
LEMMA InitCalls == Init => CallsInv
<1> SUFFICES ASSUME Init PROVE CallsInv
    OBVIOUS
<1>1. SourceInv
      BY InitSource
<1>2. FlagTypes
      BY DEF Init, FlagTypes
<1>3. \A e : ~ Pending(e)
      BY DEF Init, Pending, Range
<1>4. \A c \in Call : itop[Passive(c)] = None
      BY Ends DEF Init
<1>5. OnceInv
      BY DEF Init, OnceInv
<1>6. StageInv
      BY <1>3, <1>4 DEF StageInv
<1>7. ASSUME NEW p \in Proc PROVE connected_rank[p] = Cardinality(Served(p)) + 1
  <2>1. Served(p) = {}
        BY <1>4 DEF Served
  <2>2. Cardinality(Served(p)) = 0
        BY <2>1, FS_EmptySet
  <2> QED BY <2>2 DEF Init
<1>8. RestTypes
      BY ConnectAssumption DEF Init, RestTypes
<1> QED BY <1>1, <1>2, <1>5, <1>6, <1>7, <1>8 DEF CallsInv, CountInv

\* Every step keeps the invariant.
LEMMA NextCalls ==
    ASSUME IsFiniteSet(Call)
    PROVE  CallsInv /\ [Next]_vars => CallsInv'
<1> SUFFICES ASSUME CallsInv, [Next]_vars PROVE CallsInv'
    OBVIOUS
<1> QED BY NextSource, StepFlags, StepStages, StepCount, StepRest DEF CallsInv

\* connected_rank, an index of peers that fdmi_poll_event_recv_channel never
\* checks, stays in bounds as long as no process is called more often than it has
\* peers besides rank 0: no call is given a second rank, however the events of
\* calls overlap.  All other variables keep their types with it.
THEOREM ConnectTypeCorrect ==
    ASSUME FewCalls
    PROVE  Spec => []TypeOK
<1>1. IsFiniteSet(Call)
      BY DEF FewCalls
<1>2. ASSUME CallsInv PROVE TypeOK
  <2>1. LocksInv /\ EventsInv /\ RanksInv /\ FlagTypes /\ StageInv /\ CountInv /\ RestTypes
        BY <1>2 DEF CallsInv, SourceInv
  <2>2. ASSUME NEW p \in Proc, NEW S \in SUBSET {c \in Call : CallHost[c] = p}
        PROVE  IsFiniteSet(S) /\ Cardinality(S) \in Nat /\ Cardinality(S) < fdmi_size
    <3>1. PICK T : T = {c \in Call : CallHost[c] = p}
          OBVIOUS
    <3>2. IsFiniteSet(T) /\ Cardinality(T) < fdmi_size
          BY <1>1, <3>1, FS_Subset DEF FewCalls
    <3>3. IsFiniteSet(S) /\ Cardinality(S) <= Cardinality(T)
          BY <3>1, <3>2, FS_Subset
    <3>4. Cardinality(S) \in Nat /\ Cardinality(T) \in Nat
          BY <3>2, <3>3, FS_CardinalityType
    <3> QED BY <3>2, <3>3, <3>4, ConnectAssumption
  <2>3. ASSUME NEW p \in Proc
        PROVE  /\ Served(p) \in SUBSET {c \in Call : CallHost[c] = p}
               /\ connected_rank[p] = Cardinality(Served(p)) + 1
        BY <2>1 DEF Served, CountInv
  <2>4. connected_rank \in [Proc -> 1 .. fdmi_size]
    <3>1. ASSUME NEW p \in Proc PROVE connected_rank[p] \in 1 .. fdmi_size
      <4>1. PICK n \in Nat : n = Cardinality(Served(p)) /\ n < fdmi_size
            BY <2>2, <2>3
      <4> QED BY <2>3, <4>1, ConnectAssumption
    <3> QED BY <2>1, <3>1 DEF LocksInv
  <2>5. ASSUME NEW p \in Proc, Handling(p, "CONNECT_REQUEST") PROVE connected_rank[p] \in Rank
    <3>1. PICK c \in Call : c = NextId(p).call /\ itop[Passive(c)] = None
          BY <2>1, <2>5, HeadStage DEF StageTypes
    <3>2. CallHost[c] = p
      <4>1. NextId(p) \in Id /\ NextId(p).side = "passive" /\ Owner(NextId(p)) = p
            BY <2>1, <2>5, HeadEvent DEF Handling, NextId, RightEnd
      <4> QED BY <3>1, <4>1 DEF Owner
    <3>3. PICK S : S = Served(p)
          OBVIOUS
    <3>4. c \notin S /\ S \cup {c} \in SUBSET {d \in Call : CallHost[d] = p}
          BY <3>1, <3>2, <3>3 DEF Served
    <3>5. IsFiniteSet(S) /\ Cardinality(S) \in Nat
          BY <2>2, <2>3, <3>3
    <3>6. Cardinality(S \cup {c}) = Cardinality(S) + 1
          BY <3>4, <3>5, FS_AddElement
    <3>7. Cardinality(S \cup {c}) < fdmi_size
          BY <2>2, <3>4
    <3>8. connected_rank[p] = Cardinality(S) + 1
          BY <2>3, <3>3
    <3> QED BY <3>5, <3>6, <3>7, <3>8, ConnectAssumption DEF Rank
  <2>6. cm \subseteq Event
        BY <2>1 DEF EventsInv, RightEnd
  <2> QED BY <2>1, <2>4, <2>5, <2>6 DEF TypeOK, RankInBounds, LocksInv, EventsInv, RanksInv,
             FlagTypes, RestTypes
<1> QED BY <1>1, <1>2, InitCalls, NextCalls, PTL DEF Spec

=============================================================================
