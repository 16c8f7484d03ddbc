-------------------------- MODULE IbioFileProofs --------------------------
(***************************************************************************)
(* Proofs about IbioFile for any number of clients, any sizes and counts:  *)
(* type correctness; that a write that has returned is in the file; and    *)
(* that reads of whole chunks return the bytes of the file in order.       *)
(***************************************************************************)
EXTENDS IbioFile, QueueLemmas, FiniteSetTheorems

----------------------------------------------------------------------------
(* Types *)

Byte   == Nat \cup {None}
Calls  == {"write", "dwrite", "read", "close"}
Request == [src : Client, op : {"OPEN", "WRITE_BEGIN", "WRITE_CHUNK", "WRITE", "READ", "CLOSE"},
            count : 0 .. CacheSize, bytes : Seq(Nat)]
Answer  == [src : Client, op : {"REPLY", "DATA"}, count : Nat, bytes : Seq(Byte)]

CallRecord == [pc : Calls \cup {"idle", "open", "ready", "closed"},
               fd : Fd \cup {None}, count : 0 .. CacheSize, sent : Nat, ops : Nat]
InfoRecord == [fd : Fd \cup {None}, write_count : 0 .. CacheSize,
               current_write_count : Nat, current_recv_size : Nat]
MainRecord == {x \in [pc : {"probe", "ack", "swrite"}, c : Client \cup {None}, count : 0 .. CacheSize,
                      recv : Nat, out : Nat, start : Nat] : x.recv <= x.count}

ClientType ==
    /\ plan \in Plans
    /\ call \in [Client -> CallRecord]
    /\ \A c \in Client : call[c].sent <= call[c].count
    /\ wrote \in [Client -> Nat] /\ got \in [Client -> Seq(Byte)]
    /\ aq \in Seq(Request) /\ replies \in [Client -> Seq(Answer)]

ServerType ==
    /\ file \in [Fd -> Seq(Byte)] /\ pos \in [Fd -> Nat]
    /\ \A f \in Fd : pos[f] <= Len(file[f])
    /\ owner \in [Fd -> Client \cup {None}]
    /\ info \in [Fd -> InfoRecord]
    /\ \A f \in Fd : /\ info[f].current_write_count <= info[f].write_count
                     /\ info[f].current_recv_size <= info[f].write_count
    /\ cache \in [Fd -> [Place -> Byte]]
    /\ fastmutex \in [Fd -> BOOLEAN]
    /\ writers \in [Fd -> Nat]
    /\ readers \in [Client -> 0 .. MaxReaders] /\ reading \in [Client -> Nat]
    /\ main \in MainRecord

----------------------------------------------------------------------------
(* Opening *)

\* Of two messages of one client, a header comes before the chunks of its write, and
\* they come in order.
Sooner(x, y) == y.bytes # <<>> /\ (x.bytes = <<>> \/ x.bytes[1] < y.bytes[1])

\* The messages of a client in a queue, and that they are in that order.
MsgsIn(q, c)    == {x \in Request : x.src = c /\ \E i \in DOMAIN q : q[i] = x}
OrderedIn(q, c) == \A i, j \in DOMAIN q :
                      i < j /\ q[i].src = c /\ q[j].src = c => Sooner(q[i], q[j])

\* The messages of a client that the server has not received.
Msgs(c) == MsgsIn(aq, c)

\* Whether the client has a descriptor.
Open(c) == call[c].pc \notin {"idle", "open"}

Owns(c) == \E f \in Fd : owner[f] = c

\* Its request to open is on the way, or the answer is.
Opening(c) ==
    \/ /\ \E x \in Request : Msgs(c) = {x} /\ x.op = "OPEN"
       /\ OrderedIn(aq, c) /\ replies[c] = <<>> /\ ~Owns(c)
    \/ Msgs(c) = {} /\ Len(replies[c]) = 1 /\ replies[c][1].count \in Fd

OpenInvOf(c) ==
    /\ call[c].pc = "idle" => Msgs(c) = {} /\ replies[c] = <<>> /\ ~Owns(c)
    /\ call[c].pc = "open" => Opening(c)
    /\ Open(c) => call[c].fd \in Fd /\ \A x \in Msgs(c) : x.op # "OPEN"
    /\ readers[c] + reading[c] > 0 => Open(c)

OwnerInv == \A f, g \in Fd : owner[f] = owner[g] /\ owner[f] # None => f = g

MainInv ==
    /\ main.pc = "probe" => main.c = None
    /\ main.pc # "probe" => main.c \in Client /\ Open(main.c)

OpenInv == (\A c \in Client : OpenInvOf(c)) /\ OwnerInv /\ MainInv

TypeInv == ClientType /\ ServerType /\ OpenInv

----------------------------------------------------------------------------
(* The calls, when no file is closed *)

Plain == "close" \notin plan.ops

\* The end of the a-th chunk of n bytes.
Upto(a, n) == IF a * ChunkSize > n THEN n ELSE a * ChunkSize

\* The chunk threads of a file: of the chunks received, those that are not written.
Counted(w, i) ==
    \E a, b \in Nat :
        /\ b <= a /\ w = a - b
        /\ a > 0 => (a - 1) * ChunkSize < i.write_count
        /\ i.current_recv_size = Upto(a, i.write_count)
        /\ i.current_write_count = Upto(b, i.write_count)

CountInv == \A f \in Fd : Counted(writers[f], info[f])

\* Of the messages M of a write, the chunks and the header.
ChunksOf(M) == {x \in M : x.bytes # <<>>}
HeadsOf(M)  == {x \in M : x.bytes = <<>>}
Heads(c)    == HeadsOf(Msgs(c))
InfoOf(c)   == info[call[c].fd]

\* What its client had written before the write, and what the server has received of it.
Base(c) == wrote[c] - call[c].sent
Recv(c) == IF Heads(c) # {} THEN 0
           ELSE IF call[c].pc = "write" THEN InfoOf(c).current_recv_size ELSE main.recv

\* The q-th chunk of a write of n bytes, with base bytes before it.
Chunk(q, n, base) == [j \in 1 .. NextChunk(q * ChunkSize, n) |-> base + q * ChunkSize + j]

\* The operation of its message, and k bytes with numbers from a on.
ChunkOp(pc) == IF pc = "write" THEN "WRITE_CHUNK" ELSE "WRITE"
Bytes(a, k) == [i \in 1 .. k |-> a + i]

\* The chunks between what was received and what was sent are on the way.
Sends(M, pc, n, sent, base, recv) ==
    /\ \E a \in Nat : sent = Upto(a, n)
    /\ \E a \in Nat : recv = Upto(a, n)
    /\ recv <= sent
    /\ \A x \in HeadsOf(M) : x.op = Header[pc] /\ x.count = n
    /\ \A x \in ChunksOf(M) :
         /\ x.op = ChunkOp(pc)
         /\ \E q \in Nat : /\ recv <= q * ChunkSize /\ q * ChunkSize < sent
                           /\ x.bytes = Chunk(q, n, base)
    /\ \A q \in Nat : recv <= q * ChunkSize /\ q * ChunkSize < sent =>
         \E x \in ChunksOf(M) : x.bytes = Chunk(q, n, base)

\* How far the server is with a write.
Begins(c)    == Heads(c) # {} /\ replies[c] = <<>> /\ main.c # c
Receives(c)  == /\ Heads(c) = {} /\ replies[c] = <<>> /\ main.c # c /\ call[c].pc = "write"
                /\ InfoOf(c).write_count = call[c].count /\ Recv(c) < call[c].count
WritesOut(c) == /\ Msgs(c) = {} /\ replies[c] = <<>> /\ main.c = c /\ call[c].pc = "write"
                /\ InfoOf(c).write_count = call[c].count /\ Recv(c) = call[c].count
Swrites(c)   == /\ Heads(c) = {} /\ replies[c] = <<>> /\ main.c = c /\ call[c].pc = "dwrite"
                /\ main.count = call[c].count
Answered(c)  == /\ Msgs(c) = {} /\ Len(replies[c]) = 1 /\ main.c # c
                /\ call[c].sent = call[c].count
                /\ call[c].pc = "write" => /\ InfoOf(c).write_count = call[c].count
                                           /\ InfoOf(c).current_write_count = call[c].count

Sending(c) == Sends(Msgs(c), call[c].pc, call[c].count, call[c].sent, Base(c), Recv(c))

WriteInv(c) ==
    /\ OrderedIn(aq, c) /\ call[c].sent <= wrote[c] /\ call[c].count > 0
    /\ \/ (Begins(c) \/ Receives(c) \/ WritesOut(c) \/ Swrites(c)) /\ Sending(c)
       \/ Answered(c)

ReadInv(c) ==
    /\ OrderedIn(aq, c) /\ main.c # c
    /\ \/ /\ \E x \in Request : Msgs(c) = {x} /\ x.op = "READ" /\ x.count = call[c].count
          /\ replies[c] = <<>> /\ call[c].sent = 0 /\ call[c].count > 0
       \/ /\ Msgs(c) = {} /\ Len(replies[c]) > 0
          /\ (Len(replies[c]) - 1) * ChunkSize < call[c].count - call[c].sent
          /\ call[c].count - call[c].sent <= Len(replies[c]) * ChunkSize

CallInvOf(c) ==
    /\ Open(c) => owner[call[c].fd] = c
    /\ call[c].pc = "open" /\ replies[c] # <<>> => owner[replies[c][1].count] = c
    /\ call[c].pc \notin {"close", "closed"}
    /\ call[c].pc = "ready" => Msgs(c) = {} /\ replies[c] = <<>> /\ main.c # c
    /\ call[c].pc \in {"write", "dwrite"} => WriteInv(c)
    /\ call[c].pc = "read" => ReadInv(c)
    /\ Open(c) /\ writers[call[c].fd] > 0 => Receives(c) \/ WritesOut(c)

ServeInv ==
    /\ main.pc = "ack" => call[main.c].pc = "write"
    /\ main.pc = "swrite" => call[main.c].pc = "dwrite"
    /\ \A f \in Fd : writers[f] > 0 => \E c \in Client : Open(c) /\ call[c].fd = f

CallInv == (\A c \in Client : CallInvOf(c)) /\ ServeInv

----------------------------------------------------------------------------
(* What is stored, when files are only written, and what is read *)

WriteOnly == plan.ops = {"write"} /\ plan.stored = 0

\* The number of bytes of a client that are in its file.
Stored(c) == IF call[c].pc # "write" THEN wrote[c]
             ELSE IF Heads(c) # {} THEN Base(c) ELSE Base(c) + InfoOf(c).current_write_count

\* The bytes with numbers 1 to n.
Holds(s, n) == s = [i \in 1 .. n |-> i]

StoreInvOf(c) ==
    /\ call[c].pc \in {"idle", "open", "ready", "write"}
    /\ call[c].pc \in {"idle", "open"} => wrote[c] = 0
    /\ call[c].pc = "open" /\ replies[c] # <<>> =>
         LET f == replies[c][1].count IN Holds(file[f], 0) /\ pos[f] = 0 /\ info[f].fd = f
    /\ Open(c) => LET f == call[c].fd IN
         /\ Holds(file[f], Stored(c)) /\ pos[f] = Stored(c) /\ info[f].fd = f
         /\ call[c].pc = "write" /\ Heads(c) = {} =>
              \A i \in 0 .. Recv(c) - 1 : cache[f][i] = Base(c) + i + 1

StoreInv == \A c \in Client : StoreInvOf(c)

\* Clients that only read, whole chunks.
ReadOnly == plan.ops = {"read"} /\ \A n \in plan.counts : \E a \in Nat : n = a * ChunkSize

\* The bytes that a client has got, and those that the server has sent it.
Fetched(c) == Len(got[c]) + IF call[c].pc = "read" /\ Msgs(c) = {}
                            THEN call[c].count - call[c].sent ELSE 0

\* A chunk of data with the bytes that follow the first a of a file of n; the bytes of a
\* client are those of the file; where the file ends.
Carries(x, a, n) ==
    Len(x.bytes) = ChunkSize /\ \A b \in 1 .. ChunkSize : a + b <= n => x.bytes[b] = a + b
InOrder(s, n)    == \A i \in DOMAIN s : i <= n => s[i] = i
AtMost(a, n)     == IF a > n THEN n ELSE a

FetchInvOf(c) ==
    /\ call[c].pc \in {"idle", "open", "ready", "read"}
    /\ call[c].pc \in {"idle", "open"} => got[c] = <<>>
    /\ call[c].pc = "open" /\ replies[c] # <<>> =>
         LET f == replies[c][1].count IN Holds(file[f], plan.stored) /\ pos[f] = 0
    /\ Open(c) => LET f == call[c].fd IN
         /\ Holds(file[f], plan.stored)
         /\ pos[f] = AtMost(Fetched(c), plan.stored)
         /\ \E a, b \in Nat : call[c].count = a * ChunkSize /\ call[c].sent = b * ChunkSize
         /\ call[c].pc = "read" => \A k \in DOMAIN replies[c] :
              Carries(replies[c][k], Len(got[c]) + (k - 1) * ChunkSize, plan.stored)
    /\ InOrder(got[c], plan.stored)

FetchInv == \A c \in Client : FetchInvOf(c)

Inv ==
    /\ TypeInv
    /\ Plain => CallInv /\ CountInv
    /\ WriteOnly => StoreInv
    /\ ReadOnly => FetchInv

----------------------------------------------------------------------------
(* Chunks *)

\* Products with the size of a chunk.
LEMMA Multiples ==
    /\ ChunkSize \in Nat /\ ChunkSize > 0
    /\ \A a \in Nat : a * ChunkSize \in Nat /\ (a + 1) * ChunkSize = a * ChunkSize + ChunkSize
    /\ 0 * ChunkSize = 0
    /\ \A a, b \in Nat : a <= b => a * ChunkSize <= b * ChunkSize
    /\ \A a, b \in Nat : a * ChunkSize < b * ChunkSize => a < b
    /\ \A a, b \in Nat : a < b => (a + 1) * ChunkSize <= b * ChunkSize
<1>1. ChunkSize \in Nat /\ ChunkSize > 0
      BY IbioAssumption
<1>2. \A a \in Nat : a * ChunkSize \in Nat /\ (a + 1) * ChunkSize = a * ChunkSize + ChunkSize
      BY <1>1
<1>3. ASSUME NEW a \in Nat, NEW b \in Nat, a <= b PROVE a * ChunkSize <= b * ChunkSize
  <2>1. PICK d \in Nat : b = a + d
    <3>1. b - a \in Nat /\ b = a + (b - a)
          BY <1>3
    <3> QED BY <3>1
  <2>2. b * ChunkSize = a * ChunkSize + d * ChunkSize
        BY <1>1, <2>1
  <2>3. d * ChunkSize \in Nat /\ a * ChunkSize \in Nat
        BY <1>2
  <2> QED BY <2>2, <2>3
<1>4. ASSUME NEW a \in Nat, NEW b \in Nat, a * ChunkSize < b * ChunkSize PROVE a < b
  <2>1. CASE b <= a
    <3>1. b * ChunkSize <= a * ChunkSize /\ a * ChunkSize \in Nat /\ b * ChunkSize \in Nat
          BY <1>2, <1>3, <2>1
    <3> QED BY <1>4, <3>1
  <2> QED BY <2>1
<1>5. ASSUME NEW a \in Nat, NEW b \in Nat, a < b PROVE (a + 1) * ChunkSize <= b * ChunkSize
  <2>1. a + 1 \in Nat /\ a + 1 <= b
        BY <1>5
  <2> QED BY <1>3, <2>1
<1>6. 0 * ChunkSize = 0
      BY <1>1
<1> QED BY <1>1, <1>2, <1>3, <1>4, <1>5, <1>6

\* The ends of the chunks of n bytes.
LEMMA Ends ==
    ASSUME NEW n \in Nat, NEW a \in Nat
    PROVE  /\ Upto(a, n) \in Nat /\ Upto(a, n) <= n /\ Upto(0, n) = 0
           /\ NextChunk(Upto(a, n), n) \in Nat
           /\ Upto(a, n) + NextChunk(Upto(a, n), n) = Upto(a + 1, n)
           /\ Upto(a, n) < n => /\ Upto(a, n) = a * ChunkSize
                                /\ NextChunk(Upto(a, n), n) > 0
           /\ a * ChunkSize < n => /\ Upto(a, n) = a * ChunkSize
                                   /\ NextChunk(a * ChunkSize, n) \in Nat
                                   /\ NextChunk(a * ChunkSize, n) > 0
<1>1. /\ ChunkSize \in Nat /\ ChunkSize > 0 /\ a * ChunkSize \in Nat
      /\ (a + 1) * ChunkSize = a * ChunkSize + ChunkSize /\ 0 * ChunkSize = 0
      BY Multiples
<1>2. PICK p \in Nat : p = a * ChunkSize
      BY <1>1
<1>3. PICK r \in Nat : r = (a + 1) * ChunkSize /\ r = p + ChunkSize
      BY <1>1, <1>2
<1>4. /\ Upto(a, n) = IF p > n THEN n ELSE p
      /\ Upto(a + 1, n) = IF r > n THEN n ELSE r
      /\ Upto(0, n) = 0
      BY <1>1, <1>2, <1>3 DEF Upto
<1> QED BY <1>1, <1>2, <1>3, <1>4 DEF NextChunk

\* There is no end of a chunk between two that follow each other.
LEMMA NoEndBetween ==
    ASSUME NEW n \in Nat, NEW a \in Nat, NEW b \in Nat, a * ChunkSize < Upto(b, n)
    PROVE  Upto(a + 1, n) <= Upto(b, n)
<1>1. /\ a * ChunkSize \in Nat /\ b * ChunkSize \in Nat /\ (a + 1) * ChunkSize \in Nat
      /\ a * ChunkSize < b * ChunkSize => a < b
      /\ a < b => (a + 1) * ChunkSize <= b * ChunkSize
      BY Multiples
<1>2. a * ChunkSize < b * ChunkSize
      BY <1>1 DEF Upto
<1> QED BY <1>1, <1>2 DEF Upto

\* Chunks that are received before those that are not yet.
LEMMA UptoGrows ==
    ASSUME NEW n \in Nat, NEW a \in Nat, NEW b \in Nat, b <= a
    PROVE  Upto(b, n) <= Upto(a, n)
<1>1. a * ChunkSize \in Nat /\ b * ChunkSize \in Nat /\ b * ChunkSize <= a * ChunkSize
      BY Multiples
<1> QED BY <1>1 DEF Upto

----------------------------------------------------------------------------
(* Messages of a client in the queue of the server *)

\* What a message is, of whom it is, and that it is not sooner than itself.
LEMMA QueueOf ==
    ASSUME NEW q \in Seq(Request)
    PROVE  /\ Len(q) \in Nat /\ DOMAIN q = 1 .. Len(q)
           /\ \A i \in DOMAIN q : /\ q[i] \in Request /\ q[i].src \in Client
                                  /\ q[i] \in MsgsIn(q, q[i].src)
<1>1. Len(q) \in Nat /\ DOMAIN q = 1 .. Len(q)
      BY LenProperties
<1>2. \A i \in DOMAIN q : q[i] \in Request
      BY <1>1, ElementOfSeq
<1>3. \A i \in DOMAIN q : q[i].src \in Client
      BY <1>2 DEF Request
<1> QED BY <1>1, <1>2, <1>3 DEF MsgsIn

\* A client sends a message.
LEMMA SendAdds ==
    ASSUME NEW q \in Seq(Request), NEW x \in Request
    PROVE  /\ Append(q, x) \in Seq(Request)
           /\ MsgsIn(Append(q, x), x.src) = MsgsIn(q, x.src) \cup {x}
           /\ \A d \in Client : d # x.src => MsgsIn(Append(q, x), d) = MsgsIn(q, d)
           /\ \A d \in Client : d # x.src /\ OrderedIn(q, d) => OrderedIn(Append(q, x), d)
           /\ OrderedIn(q, x.src) /\ (\A y \in MsgsIn(q, x.src) : Sooner(y, x))
                => OrderedIn(Append(q, x), x.src)
<1> DEFINE a == Append(q, x)
<1>1. /\ a \in Seq(Request) /\ Len(q) \in Nat
      /\ DOMAIN a = 1 .. Len(q) + 1 /\ DOMAIN q = 1 .. Len(q)
      /\ a[Len(q) + 1] = x
      /\ \A j \in 1 .. Len(q) : a[j] = q[j]
      BY LenProperties
<1> HIDE DEF a
<1>2. \A i \in 1 .. Len(q) : q[i] \in Request /\ q[i] \in MsgsIn(q, q[i].src)
      BY <1>1, QueueOf
<1>3. ASSUME NEW d PROVE MsgsIn(a, d) = MsgsIn(q, d) \cup {y \in {x} : y.src = d}
  <2>1. ASSUME NEW y \in Request PROVE y \in MsgsIn(a, d) <=> y \in MsgsIn(q, d) \cup {z \in {x} : z.src = d}
        BY <1>1 DEF MsgsIn
  <2>2. \A y \in MsgsIn(a, d) \cup MsgsIn(q, d) \cup {x} : y \in Request
        BY DEF MsgsIn
  <2> QED BY <2>1, <2>2
<1>4. ASSUME NEW d \in Client, d # x.src, OrderedIn(q, d) PROVE OrderedIn(a, d)
      BY <1>1, <1>4 DEF OrderedIn
<1>5. ASSUME OrderedIn(q, x.src), \A y \in MsgsIn(q, x.src) : Sooner(y, x)
      PROVE  OrderedIn(a, x.src)
  <2>1. \A i \in 1 .. Len(q) : q[i].src = x.src => Sooner(q[i], x)
        BY <1>2, <1>5
  <2> QED BY <1>1, <1>5, <2>1 DEF OrderedIn
<1>6. MsgsIn(a, x.src) = MsgsIn(q, x.src) \cup {x}
      BY <1>3
<1>7. \A d \in Client : d # x.src => MsgsIn(a, d) = MsgsIn(q, d)
      BY <1>3
<1> QED BY <1>1, <1>4, <1>5, <1>6, <1>7 DEF a

\* No message of an ordered client is there twice.
LEMMA SoonerOnce ==
    ASSUME NEW x \in Request, NEW y \in Request, Sooner(x, y)
    PROVE  x # y /\ ~Sooner(y, x)
<1>1. x.bytes \in Seq(Nat) /\ y.bytes \in Seq(Nat)
      BY DEF Request
<1>2. \A z \in Seq(Nat) : z # <<>> => z[1] \in Nat
      BY TailEntries
<1> QED BY <1>1, <1>2 DEF Sooner

\* Queue a has the messages of queue q but for message x of client c.
TakenFrom(q, a, x, c) ==
    /\ MsgsIn(a, c) \subseteq MsgsIn(q, c)
    /\ \A d \in Client : d # c => MsgsIn(a, d) = MsgsIn(q, d)
    /\ \A d \in Client : OrderedIn(q, d) => OrderedIn(a, d)
    /\ OrderedIn(q, c) => MsgsIn(a, c) = MsgsIn(q, c) \ {x}

\* Queue a is queue q without its k-th message.
Removed(q, k, a) ==
    /\ a \in Seq(Request) /\ Len(a) = Len(q) - 1
    /\ \A j \in 1 .. Len(q) - 1 : a[j] = IF j < k THEN q[j] ELSE q[j + 1]

\* The server takes a message out of the queue.
LEMMA TakeRemoves ==
    ASSUME NEW q \in Seq(Request), NEW k \in DOMAIN q, NEW a, NEW c \in Client,
           Removed(q, k, a), q[k].src = c
    PROVE  TakenFrom(q, a, q[k], c)
<1> a \in Seq(Request) /\ \A j \in 1 .. Len(q) - 1 : a[j] = IF j < k THEN q[j] ELSE q[j + 1]
    BY DEF Removed
<1>1. /\ Len(q) \in Nat /\ DOMAIN q = 1 .. Len(q) /\ Len(a) \in Nat /\ DOMAIN a = 1 .. Len(q) - 1
      /\ \A i \in DOMAIN q : q[i] \in Request
      BY QueueOf DEF Removed
<1>2. \A j \in DOMAIN a : IF j < k THEN j \in DOMAIN q /\ j # k /\ a[j] = q[j]
                                   ELSE j + 1 \in DOMAIN q /\ j + 1 # k /\ a[j] = q[j + 1]
      BY <1>1
<1>3. \A i \in DOMAIN q : i # k => \E j \in DOMAIN a : a[j] = q[i]
  <2> SUFFICES ASSUME NEW i \in DOMAIN q, i # k PROVE \E j \in DOMAIN a : a[j] = q[i]
      OBVIOUS
  <2>1. CASE i < k
        BY <1>1, <2>1
  <2>2. CASE i > k
    <3>1. i - 1 \in DOMAIN a /\ ~ (i - 1 < k) /\ (i - 1) + 1 = i
          BY <1>1, <2>2
    <3> QED BY <1>1, <3>1
  <2> QED BY <1>1, <2>1, <2>2
<1>4. ASSUME NEW d, NEW x \in MsgsIn(a, d) PROVE x \in MsgsIn(q, d)
      BY <1>2 DEF MsgsIn
<1>5. ASSUME NEW d \in Client, d # c PROVE MsgsIn(a, d) = MsgsIn(q, d)
  <2>1. ASSUME NEW x \in MsgsIn(q, d) PROVE x \in MsgsIn(a, d)
    <3>1. PICK i \in DOMAIN q : q[i] = x /\ x \in Request /\ x.src = d
          BY DEF MsgsIn
    <3>2. i # k
          BY <1>5, <3>1
    <3> QED BY <1>3, <3>1, <3>2 DEF MsgsIn
  <2> QED BY <1>4, <2>1
<1>6. ASSUME NEW d \in Client, OrderedIn(q, d) PROVE OrderedIn(a, d)
  <2> SUFFICES ASSUME NEW i \in DOMAIN a, NEW j \in DOMAIN a, i < j, a[i].src = d, a[j].src = d
               PROVE  Sooner(a[i], a[j])
      BY DEF OrderedIn
  <2>1. PICK x \in DOMAIN q, y \in DOMAIN q : x < y /\ a[i] = q[x] /\ a[j] = q[y]
    <3>1. CASE i < k /\ j < k
          BY <1>2, <3>1
    <3>2. CASE i < k /\ ~ (j < k)
      <4>1. i < j + 1
            BY <1>1
      <4> QED BY <1>2, <3>2, <4>1
    <3>3. CASE ~ (i < k)
      <4>1. ~ (j < k) /\ i + 1 < j + 1
            BY <1>1, <3>3
      <4> QED BY <1>2, <3>3, <4>1
    <3> QED BY <3>1, <3>2, <3>3
  <2> QED BY <1>6, <2>1 DEF OrderedIn
<1>7. ASSUME OrderedIn(q, c) PROVE MsgsIn(a, c) = MsgsIn(q, c) \ {q[k]}
  <2>1. ASSUME NEW i \in DOMAIN q, i # k, q[i].src = c PROVE q[i] # q[k]
    <3>1. Sooner(q[i], q[k]) \/ Sooner(q[k], q[i])
          BY <1>1, <1>7, <2>1 DEF OrderedIn
    <3> QED BY <1>1, <3>1, SoonerOnce
  <2>2. ASSUME NEW x \in MsgsIn(a, c) PROVE x # q[k]
    <3>1. PICK j \in DOMAIN a : a[j] = x /\ x.src = c
          BY DEF MsgsIn
    <3>2. PICK i \in DOMAIN q : i # k /\ q[i] = x
          BY <1>2, <3>1
    <3> QED BY <2>1, <3>1, <3>2
  <2>3. ASSUME NEW x \in MsgsIn(q, c), x # q[k] PROVE x \in MsgsIn(a, c)
    <3>1. PICK i \in DOMAIN q : q[i] = x /\ x \in Request /\ x.src = c
          BY DEF MsgsIn
    <3> QED BY <1>3, <2>3, <3>1 DEF MsgsIn
  <2> QED BY <1>4, <2>2, <2>3
<1> QED BY <1>4, <1>5, <1>6, <1>7 DEF TakenFrom

\* The first message of a client comes sooner than its other messages.
LEMMA FirstIsSoonest ==
    ASSUME NEW q \in Seq(Request), NEW k \in DOMAIN q, NEW c \in Client, q[k].src = c,
           \A j \in 1 .. k - 1 : q[j].src # c, OrderedIn(q, c)
    PROVE  \A x \in MsgsIn(q, c) : x # q[k] => Sooner(q[k], x)
<1>1. Len(q) \in Nat /\ DOMAIN q = 1 .. Len(q)
      BY QueueOf
<1> SUFFICES ASSUME NEW x \in MsgsIn(q, c), x # q[k] PROVE Sooner(q[k], x)
    OBVIOUS
<1>2. PICK i \in DOMAIN q : q[i] = x /\ x.src = c
      BY DEF MsgsIn
<1>3. k < i
      BY <1>1, <1>2
<1> QED BY <1>2, <1>3 DEF OrderedIn

\* The handlers take the oldest message of all; a receive takes the oldest of one client
\* and operation.
LEMMA TailTakes ==
    ASSUME NEW q \in Seq(Request), q # <<>>
    PROVE  /\ 1 \in DOMAIN q /\ Head(q) = q[1] /\ Head(q) \in Request
           /\ Removed(q, 1, Tail(q))
<1>1. Head(q) \in Request /\ 1 \in DOMAIN q /\ Head(q) = q[1]
      BY TailEntries
<1>2. /\ Tail(q) \in Seq(Request) /\ Len(Tail(q)) = Len(q) - 1
      /\ \A j \in 1 .. Len(Tail(q)) : Tail(q)[j] = q[j + 1]
      BY HeadTailProperties
<1>3. Len(q) \in Nat
      BY LenProperties
<1> QED BY <1>1, <1>2, <1>3 DEF Removed

LEMMA WithoutTakes ==
    ASSUME aq \in Seq(Request), NEW k \in DOMAIN aq
    PROVE  Removed(aq, k, Without(k))
<1>1. Without(k) = RemoveAt(aq, k)
      BY DEF Without, RemoveAt
<1>2. k \in 1 .. Len(aq)
      BY LenProperties
<1>3. /\ Without(k) \in Seq(Request) /\ Len(Without(k)) = Len(aq) - 1
      /\ \A j \in 1 .. Len(aq) - 1 : Without(k)[j] = IF j < k THEN aq[j] ELSE aq[j + 1]
      BY <1>1, <1>2, RemoveAtPoints
<1> QED BY <1>3 DEF Removed

LEMMA FirstFromIs ==
    ASSUME aq \in Seq(Request), NEW c, NEW op, \E i \in DOMAIN aq : IsFrom(c, op, i)
    PROVE  /\ FirstFrom(c, op) \in DOMAIN aq /\ IsFrom(c, op, FirstFrom(c, op))
           /\ \A j \in 1 .. FirstFrom(c, op) - 1 : ~IsFrom(c, op, j)
<1> DEFINE T == {i \in DOMAIN aq : IsFrom(c, op, i)}
<1>1. Len(aq) \in Nat /\ DOMAIN aq = 1 .. Len(aq)
      BY LenProperties
<1>2. T \subseteq Nat /\ T # {}
      BY <1>1
<1>3. \E i \in T : \A j \in T : i <= j
  <2> HIDE DEF T
  <2> QED BY <1>2, LeastPlace
<1>4. PICK i \in DOMAIN aq : IsFrom(c, op, i) /\ \A j \in T : i <= j
      BY <1>3
<1>5. \A j \in 1 .. i - 1 : ~IsFrom(c, op, j)
      BY <1>1, <1>4
<1> QED BY <1>4, <1>5 DEF FirstFrom

----------------------------------------------------------------------------
(* The chunks of a write that are on the way *)

\* The q-th chunk is not empty and starts with its first byte.
LEMMA ChunkIs ==
    ASSUME NEW n \in Nat, NEW base \in Nat, NEW q \in Nat, q * ChunkSize < n
    PROVE  /\ Chunk(q, n, base) \in Seq(Nat) /\ Chunk(q, n, base) # <<>>
           /\ Chunk(q, n, base)[1] = base + q * ChunkSize + 1
<1>1. PICK k \in Nat : k = NextChunk(q * ChunkSize, n) /\ k > 0
      BY Ends
<1>2. q * ChunkSize \in Nat
      BY Multiples
<1>3. Chunk(q, n, base) = [j \in 1 .. k |-> base + q * ChunkSize + j]
      BY <1>1 DEF Chunk
<1>4. \A j \in 1 .. k : base + q * ChunkSize + j \in Nat
      BY <1>2
<1>5. Chunk(q, n, base) \in Seq(Nat) /\ Len(Chunk(q, n, base)) = k
  <2> DEFINE f(j) == base + q * ChunkSize + j
  <2>1. [j \in 1 .. k |-> f(j)] \in [1 .. k -> Nat]
        BY <1>4
  <2> HIDE DEF f
  <2>2. [j \in 1 .. k |-> f(j)] \in Seq(Nat) /\ Len([j \in 1 .. k |-> f(j)]) = k
        BY <2>1
  <2> QED BY <1>3, <2>2 DEF f
<1> QED BY <1>1, <1>3, <1>5

\* Different chunks are different.
LEMMA ChunkOnce ==
    ASSUME NEW n \in Nat, NEW base \in Nat, NEW q \in Nat, NEW r \in Nat,
           q * ChunkSize < n, r * ChunkSize < n, Chunk(q, n, base) = Chunk(r, n, base)
    PROVE  q * ChunkSize = r * ChunkSize
<1>1. /\ Chunk(q, n, base)[1] = base + q * ChunkSize + 1
      /\ Chunk(r, n, base)[1] = base + r * ChunkSize + 1
      BY ChunkIs, ZenonT(60)
<1>2. PICK a \in Nat, b \in Nat : a = q * ChunkSize /\ b = r * ChunkSize
      BY Multiples
<1>3. base + a + 1 = base + b + 1
      BY <1>1, <1>2
<1>4. a = b
      BY <1>3
<1> QED BY <1>2, <1>4

\* The header of a write is sent.
LEMMA SendsStart ==
    ASSUME NEW h, h.bytes = <<>>, NEW pc, h.op = Header[pc], NEW n \in Nat, h.count = n, NEW base
    PROVE  Sends({h}, pc, n, 0, base, 0)
<1>1. Upto(0, n) = 0
      BY Ends
<1>2. \A q \in Nat : ~ (q * ChunkSize < 0)
      BY Multiples
<1> QED BY <1>1, <1>2 DEF Sends, HeadsOf, ChunksOf

\* A chunk is sent.
LEMMA SendsMore ==
    ASSUME NEW M, NEW pc, NEW n \in Nat, NEW sent \in Nat, NEW base \in Nat, NEW recv \in Nat,
           Sends(M, pc, n, sent, base, recv), sent < n, M \subseteq Request,
           NEW x \in Request, x.op = ChunkOp(pc),
           x.bytes = Bytes(base + sent, NextChunk(sent, n))
    PROVE  /\ Sends(M \cup {x}, pc, n, sent + NextChunk(sent, n), base, recv)
           /\ \A y \in M : Sooner(y, x)
           /\ x.bytes # <<>>
<1>1. PICK a \in Nat : sent = Upto(a, n)
      BY DEF Sends
<1>2. /\ sent = a * ChunkSize /\ NextChunk(sent, n) > 0 /\ NextChunk(sent, n) \in Nat
      /\ sent + NextChunk(sent, n) = Upto(a + 1, n) /\ a + 1 \in Nat
      BY <1>1, Ends
<1>3. PICK k \in Nat : k = NextChunk(sent, n) /\ k > 0
      BY <1>2
<1>4. x.bytes = Chunk(a, n, base)
      BY <1>2 DEF Chunk, Bytes
<1>5. x.bytes # <<>> /\ x.bytes[1] = base + sent + 1
  <2>1. a * ChunkSize < n
        BY <1>2
  <2>2. Chunk(a, n, base) # <<>> /\ Chunk(a, n, base)[1] = base + a * ChunkSize + 1
        BY <2>1, ChunkIs
  <2> QED BY <1>2, <1>4, <2>2
<1>6. HeadsOf(M \cup {x}) = HeadsOf(M) /\ ChunksOf(M \cup {x}) = ChunksOf(M) \cup {x}
      BY <1>5 DEF HeadsOf, ChunksOf
<1>7. recv <= sent + k /\ recv <= sent
      BY <1>3 DEF Sends
<1>8. ASSUME NEW y \in ChunksOf(M) \cup {x}
      PROVE  /\ y.op = ChunkOp(pc)
             /\ \E q \in Nat : /\ recv <= q * ChunkSize /\ q * ChunkSize < sent + k
                               /\ y.bytes = Chunk(q, n, base)
  <2>1. CASE y = x
    <3>1. recv <= a * ChunkSize /\ a * ChunkSize < sent + k
          BY <1>2, <1>3, <1>7
    <3> QED BY <1>4, <2>1, <3>1
  <2>2. CASE y \in ChunksOf(M)
    <3>1. y.op = ChunkOp(pc)
          BY <2>2 DEF Sends
    <3>2. PICK q \in Nat : /\ recv <= q * ChunkSize /\ q * ChunkSize < sent
                           /\ y.bytes = Chunk(q, n, base)
          BY <2>2 DEF Sends
    <3>3. q * ChunkSize < sent + k
      <4>1. q * ChunkSize \in Nat
            BY Multiples
      <4> QED BY <1>3, <3>2, <4>1
    <3> QED BY <3>1, <3>2, <3>3
  <2> QED BY <2>1, <2>2
<1>9. ASSUME NEW q \in Nat, recv <= q * ChunkSize, q * ChunkSize < sent + k
      PROVE  \E y \in ChunksOf(M) \cup {x} : y.bytes = Chunk(q, n, base)
  <2>1. CASE q * ChunkSize < sent
        BY <1>9, <2>1 DEF Sends
  <2>2. CASE ~ (q * ChunkSize < sent)
    <3>1. /\ a * ChunkSize \in Nat /\ q * ChunkSize \in Nat
          /\ q * ChunkSize < (a + 1) * ChunkSize => q < a + 1
          /\ q < a => (q + 1) * ChunkSize <= a * ChunkSize
          /\ (q + 1) * ChunkSize = q * ChunkSize + ChunkSize /\ ChunkSize \in Nat /\ ChunkSize > 0
          /\ (a + 1) * ChunkSize \in Nat
          BY Multiples
    <3>2. sent + k <= (a + 1) * ChunkSize
          BY <1>2, <1>3, <3>1 DEF Upto
    <3>3. q < a + 1
          BY <1>3, <1>9, <3>1, <3>2
    <3>4. ~ (q < a)
          BY <1>2, <2>2, <3>1
    <3>5. q = a
          BY <3>3, <3>4
    <3> QED BY <1>4, <3>5
  <2> QED BY <2>1, <2>2
<1>10. Sends(M \cup {x}, pc, n, sent + k, base, recv)
  <2>1. \E b \in Nat : sent + k = Upto(b, n)
        BY <1>2, <1>3
  <2>2. /\ \E b \in Nat : recv = Upto(b, n)
        /\ \A y \in HeadsOf(M) : y.op = Header[pc] /\ y.count = n
        BY DEF Sends
  <2>3. /\ \A y \in HeadsOf(M \cup {x}) : y.op = Header[pc] /\ y.count = n
        BY <1>6, <2>2
  <2> QED BY <1>6, <1>7, <1>8, <1>9, <2>1, <2>2, <2>3 DEF Sends
<1>11. ASSUME NEW y \in M PROVE Sooner(y, x)
  <2>1. CASE y.bytes = <<>>
        BY <1>5, <2>1 DEF Sooner
  <2>2. CASE y.bytes # <<>>
    <3>1. y \in ChunksOf(M)
          BY <2>2 DEF ChunksOf
    <3>2. PICK q \in Nat : q * ChunkSize < sent /\ y.bytes = Chunk(q, n, base)
          BY <3>1 DEF Sends
    <3>3. q * ChunkSize \in Nat
          BY Multiples
    <3>4. y.bytes[1] = base + q * ChunkSize + 1
      <4>1. q * ChunkSize < n
            BY <3>2, <3>3
      <4>2. Chunk(q, n, base)[1] = base + q * ChunkSize + 1
            BY <4>1, ChunkIs
      <4> QED BY <3>2, <4>2
    <3> QED BY <1>5, <3>2, <3>3, <3>4 DEF Sooner
  <2> QED BY <2>1, <2>2
<1> QED BY <1>3, <1>5, <1>10, <1>11

\* The header is received.
LEMMA SendsHeader ==
    ASSUME NEW M, NEW pc, NEW n, NEW sent, NEW base, NEW recv, NEW h \in HeadsOf(M),
           Sends(M, pc, n, sent, base, recv)
    PROVE  Sends(M \ {h}, pc, n, sent, base, recv) /\ h.op = Header[pc] /\ h.count = n
<1>1. /\ HeadsOf(M \ {h}) \subseteq HeadsOf(M) /\ ChunksOf(M \ {h}) = ChunksOf(M)
      BY DEF HeadsOf, ChunksOf
<1> QED BY <1>1 DEF Sends

\* All chunks are received.
LEMMA SendsAll ==
    ASSUME NEW M, NEW pc, NEW n \in Nat, NEW sent \in Nat, NEW base \in Nat,
           Sends(M, pc, n, sent, base, n), sent <= n
    PROVE  ChunksOf(M) = {} /\ sent = n
<1>1. n <= sent
      BY DEF Sends
<1>2. ASSUME NEW x \in ChunksOf(M) PROVE FALSE
  <2>1. PICK q \in Nat : n <= q * ChunkSize /\ q * ChunkSize < sent
        BY DEF Sends
  <2>2. q * ChunkSize \in Nat
        BY Multiples
  <2> QED BY <2>1, <2>2
<1> QED BY <1>1, <1>2

\* Message x carries k bytes from a on, and it comes before all others of M.
HasBytes(x, a, k) == x.bytes = Bytes(a, k)
Soonest(x, M) == M \subseteq Request /\ \A y \in M : y # x => Sooner(x, y)

\* The first of the chunks is received: it is the one that the server expects.
LEMMA SendsTake ==
    ASSUME NEW M, NEW pc, NEW n \in Nat, NEW sent \in Nat, NEW base \in Nat, NEW recv \in Nat,
           Sends(M, pc, n, sent, base, recv), sent <= n, NEW x \in ChunksOf(M), Soonest(x, M)
    PROVE  /\ recv < n /\ recv + NextChunk(recv, n) \in Nat /\ recv + NextChunk(recv, n) <= n
           /\ HasBytes(x, base + recv, NextChunk(recv, n))
           /\ NextChunk(recv, n) \in Nat
           /\ Sends(M \ {x}, pc, n, sent, base, recv + NextChunk(recv, n))
<1>1. PICK a \in Nat : recv = Upto(a, n)
      BY DEF Sends
<1>2. PICK p \in Nat : /\ recv <= p * ChunkSize /\ p * ChunkSize < sent
                       /\ x.bytes = Chunk(p, n, base)
      BY DEF Sends
<1>3. p * ChunkSize \in Nat
      BY Multiples
<1>4. recv < n /\ recv < sent
      BY <1>2, <1>3
<1>5. /\ recv = a * ChunkSize /\ NextChunk(recv, n) > 0 /\ NextChunk(recv, n) \in Nat
      /\ recv + NextChunk(recv, n) = Upto(a + 1, n) /\ a + 1 \in Nat
      /\ Upto(a + 1, n) \in Nat /\ Upto(a + 1, n) <= n
      BY <1>1, <1>4, Ends
<1>6. PICK z \in ChunksOf(M) : z.bytes = Chunk(a, n, base)
  <2>1. recv <= a * ChunkSize /\ a * ChunkSize < sent
        BY <1>4, <1>5
  <2> QED BY <2>1 DEF Sends
<1>7. /\ x.bytes[1] = base + p * ChunkSize + 1 /\ z.bytes[1] = base + a * ChunkSize + 1
      /\ x.bytes # <<>>
  <2>1. p * ChunkSize < n /\ a * ChunkSize < n
        BY <1>2, <1>3, <1>4, <1>5
  <2>2. Chunk(p, n, base) # <<>> /\ Chunk(p, n, base)[1] = base + p * ChunkSize + 1
        BY <2>1, ChunkIs
  <2>3. Chunk(a, n, base)[1] = base + a * ChunkSize + 1
        BY <2>1, ChunkIs
  <2> QED BY <1>2, <1>6, <2>2, <2>3
<1>8. p * ChunkSize = recv
  <2>1. CASE z = x
    <3>1. base + p * ChunkSize + 1 = base + recv + 1
          BY <1>5, <1>7, <2>1
    <3> QED BY <1>3, <3>1
  <2>2. CASE z # x
    <3>1. Sooner(x, z)
          BY <2>2 DEF ChunksOf, Soonest
    <3>2. x.bytes[1] < z.bytes[1]
          BY <1>7, <3>1 DEF Sooner
    <3>3. base + p * ChunkSize + 1 < base + recv + 1
          BY <1>5, <1>7, <3>2
    <3> QED BY <1>2, <1>3, <3>3
  <2> QED BY <2>1, <2>2
<1>9. HasBytes(x, base + recv, NextChunk(recv, n))
      BY <1>2, <1>8 DEF Chunk, Bytes, HasBytes
<1> DEFINE next == recv + NextChunk(recv, n)
<1>10. next = Upto(a + 1, n) /\ next \in Nat /\ next <= n /\ recv < next
      BY <1>5
<1> HIDE DEF next
<1>11. next <= sent
  <2>1. PICK b \in Nat : sent = Upto(b, n)
        BY DEF Sends
  <2> QED BY <1>4, <1>5, <1>10, <2>1, NoEndBetween
<1>12. HeadsOf(M \ {x}) = HeadsOf(M) /\ ChunksOf(M \ {x}) = ChunksOf(M) \ {x}
      BY <1>7 DEF HeadsOf, ChunksOf
<1>13. ASSUME NEW y \in ChunksOf(M), y # x
       PROVE  /\ y.op = ChunkOp(pc)
              /\ \E q \in Nat : /\ next <= q * ChunkSize /\ q * ChunkSize < sent
                                /\ y.bytes = Chunk(q, n, base)
  <2>1. y.op = ChunkOp(pc)
        BY DEF Sends
  <2>2. PICK q \in Nat : /\ recv <= q * ChunkSize /\ q * ChunkSize < sent
                         /\ y.bytes = Chunk(q, n, base)
        BY DEF Sends
  <2>3. q * ChunkSize \in Nat
        BY Multiples
  <2>4. y.bytes[1] = base + q * ChunkSize + 1
    <3>1. q * ChunkSize < n
          BY <2>2, <2>3
    <3>2. Chunk(q, n, base)[1] = base + q * ChunkSize + 1
          BY <3>1, ChunkIs
    <3> QED BY <2>2, <3>2
  <2>5. x.bytes[1] < y.bytes[1]
        BY <1>7, <1>13 DEF Sooner, ChunksOf, Soonest
  <2>6. a * ChunkSize < q * ChunkSize
        BY <1>5, <1>7, <1>8, <2>3, <2>4, <2>5, SMTT(30)
  <2>7. (a + 1) * ChunkSize <= q * ChunkSize /\ (a + 1) * ChunkSize \in Nat
        BY <2>6, Multiples
  <2>8. next <= q * ChunkSize
        BY <1>10, <2>3, <2>7 DEF Upto
  <2> QED BY <2>1, <2>2, <2>8
<1>14. ASSUME NEW q \in Nat, next <= q * ChunkSize, q * ChunkSize < sent
       PROVE  \E y \in ChunksOf(M) \ {x} : y.bytes = Chunk(q, n, base)
  <2>1. q * ChunkSize \in Nat
        BY Multiples
  <2>2. PICK y \in ChunksOf(M) : y.bytes = Chunk(q, n, base)
        BY <1>10, <1>14, <2>1 DEF Sends
  <2>3. y.bytes[1] = base + q * ChunkSize + 1
    <3>1. q * ChunkSize < n
          BY <1>14, <2>1
    <3>2. Chunk(q, n, base)[1] = base + q * ChunkSize + 1
          BY <3>1, ChunkIs
    <3> QED BY <2>2, <3>2
  <2>4. y # x
        BY <1>7, <1>8, <1>10, <1>14, <2>1, <2>3
  <2> QED BY <2>2, <2>4
<1>15. Sends(M \ {x}, pc, n, sent, base, next)
  <2>1. /\ \E b \in Nat : sent = Upto(b, n)
        /\ \A y \in HeadsOf(M) : y.op = Header[pc] /\ y.count = n
        BY DEF Sends
  <2>2. \E b \in Nat : next = Upto(b, n)
        BY <1>5, <1>10
  <2> QED BY <1>11, <1>12, <1>13, <1>14, <2>1, <2>2 DEF Sends
<1> QED BY <1>4, <1>5, <1>9, <1>10, <1>15 DEF next

----------------------------------------------------------------------------
(* Type correctness: what a step does to the queue, and to other clients *)

LEMMA SendStep ==
    ASSUME ClientType, NEW x \in Request, aq' = Append(aq, x)
    PROVE  /\ aq' \in Seq(Request)
           /\ Msgs(x.src)' = Msgs(x.src) \cup {x}
           /\ \A d \in Client : d # x.src => /\ Msgs(d)' = Msgs(d)
                                             /\ OrderedIn(aq, d) => OrderedIn(aq, d)'
           /\ OrderedIn(aq, x.src) /\ (\A y \in Msgs(x.src) : Sooner(y, x)) => OrderedIn(aq, x.src)'
<1>1. aq \in Seq(Request)
      BY DEF ClientType
<1> QED BY <1>1, SendAdds DEF Msgs

LEMMA TakeStep ==
    ASSUME ClientType, NEW k \in DOMAIN aq, NEW c, aq[k].src = c,
           (k = 1 /\ aq # <<>> /\ aq' = Tail(aq)) \/ aq' = Without(k)
    PROVE  /\ aq' \in Seq(Request) /\ aq[k] \in Request /\ c \in Client
           /\ aq[k] \in Msgs(c)
           /\ Msgs(c)' \subseteq Msgs(c)
           /\ \A d \in Client : d # c => Msgs(d)' = Msgs(d)
           /\ \A d \in Client : OrderedIn(aq, d) => OrderedIn(aq, d)'
           /\ OrderedIn(aq, c) => Msgs(c)' = Msgs(c) \ {aq[k]}
<1>1. aq \in Seq(Request)
      BY DEF ClientType
<1>2. PICK q : q = aq'
      OBVIOUS
<1>3. Removed(aq, k, q)
  <2>1. CASE k = 1 /\ aq # <<>> /\ aq' = Tail(aq)
        BY <1>1, <1>2, <2>1, TailTakes
  <2>2. CASE aq' = Without(k)
        BY <1>1, <1>2, <2>2, WithoutTakes
  <2> QED BY <2>1, <2>2
<1>4. aq[k] \in Request /\ c \in Client /\ aq[k] \in Msgs(c)
      BY <1>1, QueueOf DEF Msgs
<1>5. PICK p \in Seq(Request) : p = aq /\ p[k].src = c
      BY <1>1
<1>6. k \in DOMAIN p /\ Removed(p, k, q)
      BY <1>3, <1>5
<1>7. TakenFrom(p, q, p[k], c)
      BY <1>4, <1>5, <1>6, TakeRemoves
<1>8. q \in Seq(Request)
      BY <1>3 DEF Removed
<1>9. \A d \in Client : /\ Msgs(d)' = MsgsIn(q, d) /\ Msgs(d) = MsgsIn(p, d)
                         /\ OrderedIn(aq, d)' = OrderedIn(q, d) /\ OrderedIn(aq, d) = OrderedIn(p, d)
      BY <1>2, <1>5 DEF Msgs
<1>10. aq[k] = p[k]
      BY <1>5
<1>11. /\ MsgsIn(q, c) \subseteq MsgsIn(p, c)
       /\ OrderedIn(p, c) => MsgsIn(q, c) = MsgsIn(p, c) \ {p[k]}
      BY <1>7 DEF TakenFrom
<1>12. ASSUME NEW d \in Client PROVE d # c => Msgs(d)' = Msgs(d)
      BY <1>7, <1>9 DEF TakenFrom
<1>13. ASSUME NEW d \in Client PROVE OrderedIn(aq, d) => OrderedIn(aq, d)'
      BY <1>7, <1>9 DEF TakenFrom
<1>14. /\ Msgs(c)' \subseteq Msgs(c)
       /\ OrderedIn(aq, c) => Msgs(c)' = Msgs(c) \ {aq[k]}
      BY <1>4, <1>9, <1>10, <1>11
<1> QED BY <1>2, <1>4, <1>8, <1>12, <1>13, <1>14

\* What a step leaves alone of client d, as far as opening is concerned.
Alike(d) ==
    /\ Msgs(d)' = Msgs(d) /\ (OrderedIn(aq, d) => OrderedIn(aq, d)')
    /\ replies'[d] = replies[d] /\ call'[d] = call[d]
    /\ Owns(d)' => Owns(d)
    /\ readers'[d] + reading'[d] = readers[d] + reading[d]

LEMMA OpenAlike ==
    ASSUME NEW d \in Client, OpenInvOf(d), Alike(d)
    PROVE  OpenInvOf(d)' /\ (Open(d) => Open(d)')
<1>1. Open(d)' <=> Open(d)
      BY DEF Alike, Open
<1>2. Opening(d) => Opening(d)'
      BY DEF Alike, Opening
<1> QED BY <1>1, <1>2 DEF Alike, OpenInvOf

\* A step of client c, or of the server for it.
LEMMA OpenStep ==
    ASSUME OpenInv, NEW c \in Client, \A d \in Client : d # c => Alike(d),
           OpenInvOf(c)', OwnerInv', MainInv'
    PROVE  OpenInv'
<1>1. ASSUME NEW d \in Client PROVE OpenInvOf(d)'
  <2>1. CASE d # c
        BY <2>1, OpenAlike DEF OpenInv
  <2> QED BY <2>1
<1> QED BY <1>1 DEF OpenInv

\* A step of client c that changes its call and perhaps its replies and the queue.
LEMMA ClientStep ==
    ASSUME TypeInv, NEW c \in Client, NEW r \in CallRecord, call' = [call EXCEPT ![c] = r],
           r.sent <= r.count, \A d \in Client : d # c => Alike(d),
           wrote' \in [Client -> Nat], got' \in [Client -> Seq(Byte)], aq' \in Seq(Request),
           replies' \in [Client -> Seq(Answer)],
           Open(c) => r.pc \notin {"idle", "open"}, OpenInvOf(c)', UNCHANGED server
    PROVE  TypeInv'
<1>1. call \in [Client -> CallRecord]
      BY DEF TypeInv, ClientType
<1>2. call' \in [Client -> CallRecord] /\ call'[c] = r /\ \A d \in Client : d # c => call'[d] = call[d]
      BY <1>1
<1>3. ClientType'
  <2>1. \A d \in Client : call'[d].sent <= call'[d].count
        BY <1>2 DEF TypeInv, ClientType
  <2> QED BY <1>2, <2>1 DEF TypeInv, ClientType, server
<1>4. ServerType'
      BY DEF TypeInv, ServerType, server
<1>5. OwnerInv'
      BY DEF TypeInv, OpenInv, OwnerInv, server
<1>6. MainInv'
      BY <1>2 DEF TypeInv, OpenInv, MainInv, Open, server
<1> QED BY <1>3, <1>4, <1>5, <1>6, OpenStep DEF TypeInv

----------------------------------------------------------------------------
(* Type correctness: the steps of a client *)

LEMMA OpenCallType ==
    ASSUME TypeInv, NEW c \in Client, OpenCall(c)
    PROVE  TypeInv'
<1> DEFINE x == Msg(c, "OPEN", 0, <<>>)
           r == [call[c] EXCEPT !.pc = "open"]
<1>1. x \in Request /\ x.src = c /\ x.op = "OPEN"
      BY IbioAssumption DEF Msg, Request
<1>2. call \in [Client -> CallRecord] /\ call[c].sent <= call[c].count
      BY DEF TypeInv, ClientType
<1>3. r \in CallRecord /\ r.sent <= r.count /\ r.pc = "open"
      BY <1>2 DEF CallRecord
<1>4. aq' = Append(aq, x) /\ call' = [call EXCEPT ![c] = r]
      BY <1>2 DEF OpenCall, Send, CallRecord
<1> HIDE DEF x, r
<1>5. /\ aq' \in Seq(Request) /\ Msgs(c)' = Msgs(c) \cup {x}
      /\ \A d \in Client : d # c => /\ Msgs(d)' = Msgs(d)
                                    /\ OrderedIn(aq, d) => OrderedIn(aq, d)'
      BY <1>1, <1>4, SendStep DEF TypeInv
<1>6. call[c].pc = "idle" /\ Msgs(c) = {} /\ replies[c] = <<>> /\ ~Owns(c)
      BY DEF TypeInv, OpenInv, OpenInvOf, OpenCall
<1>7. OrderedIn(aq, c)'
  <2>1. OrderedIn(aq, c)
    <3>1. \A i \in DOMAIN aq : aq[i].src # c
          BY <1>6, QueueOf DEF TypeInv, ClientType, Msgs
    <3> QED BY <3>1 DEF OrderedIn
  <2> QED BY <1>1, <1>4, <1>6, <2>1, SendStep DEF TypeInv
<1>8. UNCHANGED <<wrote, got, replies, server>>
      BY DEF OpenCall
<1>9. ASSUME NEW d \in Client, d # c PROVE Alike(d)
      BY <1>2, <1>4, <1>5, <1>8, <1>9 DEF Alike, server, Owns
<1>10. call'[c].pc = "open" /\ Owns(c)' = Owns(c) /\ readers[c] + reading[c] = readers'[c] + reading'[c]
      BY <1>2, <1>3, <1>4, <1>8 DEF Owns, server
<1>11. OpenInvOf(c)'
  <2>1. Msgs(c)' = {x}
        BY <1>5, <1>6
  <2>2. Opening(c)'
        BY <1>1, <1>6, <1>7, <1>8, <1>10, <2>1 DEF Opening
  <2>3. ~ (readers'[c] + reading'[c] > 0)
        BY <1>6, <1>10 DEF TypeInv, OpenInv, OpenInvOf, Open
  <2> QED BY <1>10, <2>2, <2>3 DEF OpenInvOf, Open
<1>12. wrote' \in [Client -> Nat] /\ got' \in [Client -> Seq(Byte)] /\ replies' \in [Client -> Seq(Answer)]
      BY <1>8 DEF TypeInv, ClientType
<1> QED BY <1>3, <1>4, <1>5, <1>6, <1>8, <1>9, <1>11, <1>12, ClientStep DEF Open

LEMMA OpenReturnsType ==
    ASSUME TypeInv, NEW c \in Client, OpenReturns(c)
    PROVE  TypeInv'
<1> DEFINE r == [Idle EXCEPT !.pc = "ready", !.fd = Head(replies[c]).count]
<1>1. /\ call[c].pc = "open" /\ replies[c] # <<>> /\ call' = [call EXCEPT ![c] = r]
      /\ replies' = [replies EXCEPT ![c] = Tail(@)] /\ UNCHANGED <<wrote, got, aq, server>>
      BY DEF OpenReturns
<1>2. /\ replies \in [Client -> Seq(Answer)] /\ call \in [Client -> CallRecord]
      /\ aq \in Seq(Request) /\ wrote \in [Client -> Nat] /\ got \in [Client -> Seq(Byte)]
      BY DEF TypeInv, ClientType
<1>3. Opening(c) /\ ~ (readers[c] + reading[c] > 0)
      BY <1>1 DEF TypeInv, OpenInv, OpenInvOf, Open
<1>4. Msgs(c) = {} /\ Head(replies[c]).count \in Fd
  <2>1. Head(replies[c]) = replies[c][1]
        BY <1>1, <1>2, TailEntries
  <2> QED BY <1>1, <1>3, <2>1 DEF Opening
<1>5. r \in CallRecord /\ r.sent <= r.count /\ r.pc = "ready" /\ r.fd \in Fd
  <2>1. 0 \in 0 .. CacheSize
        BY IbioAssumption
  <2>2. r.sent = 0 /\ r.count = 0 /\ r.pc = "ready" /\ r.fd = Head(replies[c]).count
        BY DEF Idle
  <2>3. r \in CallRecord
    <3>1. PICK x \in Fd \cup {None} : x = Head(replies[c]).count
          BY <1>4
    <3>2. [Idle EXCEPT !.pc = "ready", !.fd = x] \in CallRecord
          BY <2>1 DEF Idle, CallRecord
    <3> QED BY <3>1, <3>2
  <2> QED BY <1>4, <2>2, <2>3
<1> HIDE DEF r
<1>6. replies' \in [Client -> Seq(Answer)] /\ \A d \in Client : d # c => replies'[d] = replies[d]
  <2>1. Tail(replies[c]) \in Seq(Answer)
        BY <1>1, <1>2, TailEntries
  <2> QED BY <1>1, <1>2, <2>1
<1>7. \A d \in Client : Msgs(d)' = Msgs(d) /\ (OrderedIn(aq, d) => OrderedIn(aq, d)')
      BY <1>1 DEF Msgs, OrderedIn
<1>8. \A d \in Client : d # c => Alike(d)
      BY <1>1, <1>2, <1>6, <1>7 DEF Alike, server, Owns
<1>9. call'[c] = r /\ Msgs(c)' = {} /\ Open(c)'
      BY <1>1, <1>2, <1>4, <1>5, <1>7 DEF Open
<1>10. OpenInvOf(c)'
      BY <1>5, <1>9 DEF OpenInvOf, Open
<1> QED BY <1>1, <1>2, <1>5, <1>6, <1>8, <1>10, ClientStep DEF Open

\* A step of a client that has a descriptor and keeps it.
LEMMA ReadyStep ==
    ASSUME TypeInv, NEW c \in Client, Open(c), NEW r \in CallRecord, call' = [call EXCEPT ![c] = r],
           r.sent <= r.count, r.pc \notin {"idle", "open"}, r.fd = call[c].fd,
           wrote' \in [Client -> Nat], got' \in [Client -> Seq(Byte)],
           aq' = aq \/ \E x \in Request : x.src = c /\ x.op # "OPEN" /\ aq' = Append(aq, x),
           replies' = replies \/ \E s \in Seq(Answer) : replies' = [replies EXCEPT ![c] = s],
           UNCHANGED server
    PROVE  TypeInv'
<1>1. /\ replies \in [Client -> Seq(Answer)] /\ call \in [Client -> CallRecord]
      /\ aq \in Seq(Request) /\ ClientType
      BY DEF TypeInv, ClientType
<1>2. call[c].fd \in Fd /\ \A x \in Msgs(c) : x.op # "OPEN"
      BY DEF TypeInv, OpenInv, OpenInvOf
<1>3. /\ aq' \in Seq(Request) /\ \A x \in Msgs(c)' : x.op # "OPEN"
      /\ \A d \in Client : d # c => Msgs(d)' = Msgs(d) /\ (OrderedIn(aq, d) => OrderedIn(aq, d)')
  <2>1. CASE aq' = aq
    <3>1. \A d \in Client : Msgs(d)' = Msgs(d) /\ (OrderedIn(aq, d) => OrderedIn(aq, d)')
          BY <2>1 DEF Msgs, OrderedIn
    <3> QED BY <1>1, <1>2, <2>1, <3>1
  <2>2. ASSUME NEW x \in Request, x.src = c, x.op # "OPEN", aq' = Append(aq, x)
        PROVE  <1>3!1 /\ <1>3!2
    <3>1. /\ aq' \in Seq(Request) /\ Msgs(c)' = Msgs(c) \cup {x}
          /\ \A d \in Client : d # c => Msgs(d)' = Msgs(d) /\ (OrderedIn(aq, d) => OrderedIn(aq, d)')
          BY <1>1, <2>2, SendStep
    <3> QED BY <1>2, <2>2, <3>1
  <2> QED BY <2>1, <2>2
<1>4. replies' \in [Client -> Seq(Answer)] /\ \A d \in Client : d # c => replies'[d] = replies[d]
      BY <1>1
<1>5. \A d \in Client : d # c => Alike(d)
      BY <1>1, <1>3, <1>4 DEF Alike, server, Owns
<1>6. call'[c] = r /\ Open(c)'
      BY <1>1 DEF Open
<1>7. OpenInvOf(c)'
      BY <1>2, <1>3, <1>6 DEF OpenInvOf, Open
<1> QED BY <1>3, <1>4, <1>5, <1>7, ClientStep

LEMMA BeginType ==
    ASSUME TypeInv, NEW c \in Client, NEW op \in plan.ops, NEW n \in plan.counts \cup {0}, Begin(c, op, n)
    PROVE  TypeInv'
<1> DEFINE r == [pc |-> op, fd |-> call[c].fd, count |-> n, sent |-> 0, ops |-> call[c].ops + 1]
           x == Msg(c, Header[op], n, <<>>)
<1>1. /\ call[c].pc = "ready" /\ aq' = Append(aq, x) /\ UNCHANGED <<wrote, got, replies, server>>
      BY DEF Begin, Send
<1>2. /\ call \in [Client -> CallRecord] /\ plan \in Plans /\ call[c] \in CallRecord
      /\ wrote \in [Client -> Nat] /\ got \in [Client -> Seq(Byte)]
      BY DEF TypeInv, ClientType
<1>3. op \in Calls /\ n \in 0 .. CacheSize /\ n \in Nat
  <2>1. CacheSize \in Nat /\ plan.counts \subseteq 1 .. CacheSize /\ plan.ops \subseteq Calls
        BY <1>2, IbioAssumption DEF Calls
  <2> QED BY <2>1
<1>4. r \in CallRecord /\ r.sent <= r.count /\ r.pc \notin {"idle", "open"} /\ r.fd = call[c].fd
      BY <1>2, <1>3 DEF CallRecord, Calls
<1>5. call' = [call EXCEPT ![c] = r]
      BY <1>2, <1>3 DEF Begin, CallRecord
<1>6. x \in Request /\ x.src = c /\ x.op # "OPEN"
      BY <1>3 DEF Msg, Request, Calls, Header
<1> HIDE DEF x, r
<1> QED BY <1>1, <1>2, <1>4, <1>5, <1>6, ReadyStep DEF Open

\* The next chunk lies between what is done and the count.
LEMMA ChunkType ==
    ASSUME NEW d \in Nat, NEW n \in Nat, d <= n
    PROVE  /\ NextChunk(d, n) \in Nat /\ NextChunk(d, n) <= ChunkSize
           /\ d + NextChunk(d, n) \in Nat /\ d + NextChunk(d, n) <= n
           /\ d < n => NextChunk(d, n) > 0
<1>1. ChunkSize \in Nat /\ ChunkSize > 0
      BY IbioAssumption
<1> QED BY <1>1 DEF NextChunk

LEMMA SendChunkType ==
    ASSUME TypeInv, NEW c \in Client, SendChunk(c)
    PROVE  TypeInv'
<1> DEFINE k == NextChunk(call[c].sent, call[c].count)
           b == [i \in 1 .. k |-> wrote[c] + i]
           op == ChunkOp(call[c].pc)
           x == Msg(c, op, k, b)
           r == [call[c] EXCEPT !.sent = @ + k]
<1>1. /\ call \in [Client -> CallRecord] /\ call[c] \in CallRecord
      /\ wrote \in [Client -> Nat] /\ got \in [Client -> Seq(Byte)] /\ wrote[c] \in Nat
      /\ call[c].sent <= call[c].count
      BY DEF TypeInv, ClientType
<1>2. /\ call[c].pc \in {"write", "dwrite"} /\ call' = [call EXCEPT ![c].sent = @ + k]
      /\ aq' = Append(aq, x) /\ wrote' = [wrote EXCEPT ![c] = @ + k]
      /\ UNCHANGED <<got, replies, server>>
      BY DEF SendChunk, Send, ChunkOp
<1>3. call[c].sent \in Nat /\ call[c].count \in 0 .. CacheSize /\ CacheSize \in Nat
      BY <1>1, IbioAssumption DEF CallRecord
<1>4. k \in Nat /\ call[c].sent + k \in Nat /\ call[c].sent + k <= call[c].count /\ k \in 0 .. CacheSize
  <2>1. call[c].count \in Nat /\ call[c].count <= CacheSize
        BY <1>3
  <2>2. k \in Nat /\ call[c].sent + k \in Nat /\ call[c].sent + k <= call[c].count
        BY <1>1, <1>3, <2>1, ChunkType
  <2> HIDE DEF k
  <2> QED BY <1>3, <2>1, <2>2
<1> HIDE DEF k
<1>5. b \in Seq(Nat)
      BY <1>1, <1>4, SeqDef
<1> HIDE DEF b
<1>6. x \in Request /\ x.src = c /\ x.op # "OPEN"
      BY <1>4, <1>5 DEF Msg, Request, ChunkOp
<1>7. /\ r \in CallRecord /\ r.sent = call[c].sent + k /\ r.count = call[c].count
      /\ r.pc = call[c].pc /\ r.fd = call[c].fd
      BY <1>1, <1>4 DEF CallRecord
<1>8. call' = [call EXCEPT ![c] = r] /\ wrote' \in [Client -> Nat]
      BY <1>1, <1>2, <1>4
<1> HIDE DEF x, r
<1>9. r.sent <= r.count /\ r.pc \notin {"idle", "open"} /\ Open(c) /\ got' \in [Client -> Seq(Byte)]
      BY <1>1, <1>2, <1>4, <1>7 DEF Open
<1> QED BY <1>2, <1>6, <1>7, <1>8, <1>9, ReadyStep

\* The first of the replies to a client is taken.
LEMMA TailOfReplies ==
    ASSUME TypeInv, NEW c \in Client, replies[c] # <<>>, replies' = [replies EXCEPT ![c] = Tail(@)]
    PROVE  /\ Head(replies[c]) \in Answer /\ Head(replies[c]) = replies[c][1]
           /\ Tail(replies[c]) \in Seq(Answer) /\ Len(Tail(replies[c])) = Len(replies[c]) - 1
           /\ Len(replies[c]) = 1 => Tail(replies[c]) = <<>>
           /\ replies' = [replies EXCEPT ![c] = Tail(replies[c])]
           /\ replies' \in [Client -> Seq(Answer)] /\ replies'[c] = Tail(replies[c])
           /\ \A d \in Client : d # c => replies'[d] = replies[d]
<1>1. replies \in [Client -> Seq(Answer)] /\ replies[c] \in Seq(Answer)
      BY DEF TypeInv, ClientType
<1>2. /\ Head(replies[c]) \in Answer /\ Head(replies[c]) = replies[c][1]
      /\ Tail(replies[c]) \in Seq(Answer)
      BY <1>1, TailEntries
<1>3. Len(Tail(replies[c])) = Len(replies[c]) - 1
      BY <1>1, HeadTailProperties
<1>4. ASSUME Len(replies[c]) = 1 PROVE Tail(replies[c]) = <<>>
  <2>1. PICK t : t = Tail(replies[c])
        OBVIOUS
  <2>2. t \in Seq(Answer) /\ Len(t) = 0
        BY <1>2, <1>3, <1>4, <2>1
  <2>3. t = <<>>
        BY <2>2, EmptySeq
  <2> QED BY <2>1, <2>3
<1> QED BY <1>1, <1>2, <1>3, <1>4

LEMMA ReturnsType ==
    ASSUME TypeInv, NEW c \in Client, WriteReturns(c) \/ CloseReturns(c)
    PROVE  TypeInv'
<1>1. /\ call \in [Client -> CallRecord] /\ call[c] \in CallRecord /\ call[c].sent <= call[c].count
      /\ wrote \in [Client -> Nat] /\ got \in [Client -> Seq(Byte)]
      BY DEF TypeInv, ClientType
<1>2. /\ call[c].pc \in Calls /\ replies[c] # <<>> /\ replies' = [replies EXCEPT ![c] = Tail(@)]
      /\ UNCHANGED <<wrote, got, aq, server>>
      /\ \E p \in {"ready", "closed"} : call' = [call EXCEPT ![c].pc = p]
      BY DEF WriteReturns, CloseReturns, Calls
<1>3. PICK p \in {"ready", "closed"} : call' = [call EXCEPT ![c].pc = p]
      BY <1>2
<1> DEFINE r == [call[c] EXCEPT !.pc = p]
<1>4. /\ r \in CallRecord /\ r.sent <= r.count /\ r.pc \notin {"idle", "open"} /\ r.fd = call[c].fd
      /\ call' = [call EXCEPT ![c] = r]
      BY <1>1, <1>3 DEF CallRecord
<1> HIDE DEF r
<1>5. Open(c)
      BY <1>2 DEF Open, Calls
<1>6. Tail(replies[c]) \in Seq(Answer) /\ replies' = [replies EXCEPT ![c] = Tail(replies[c])]
      BY <1>2, TailOfReplies
<1> QED BY <1>1, <1>2, <1>4, <1>5, <1>6, ReadyStep

LEMMA ReadChunkType ==
    ASSUME TypeInv, NEW c \in Client, ReadChunk(c)
    PROVE  TypeInv'
<1> DEFINE k == NextChunk(call[c].sent, call[c].count)
           p == IF call[c].sent + k = call[c].count THEN "ready" ELSE "read"
           r == [call[c] EXCEPT !.sent = @ + k, !.pc = p]
<1>1. /\ call \in [Client -> CallRecord] /\ call[c] \in CallRecord /\ call[c].sent <= call[c].count
      /\ wrote \in [Client -> Nat] /\ got \in [Client -> Seq(Byte)] /\ got[c] \in Seq(Byte)
      BY DEF TypeInv, ClientType
<1>2. /\ call[c].pc = "read" /\ replies[c] # <<>> /\ replies' = [replies EXCEPT ![c] = Tail(@)]
      /\ got' = [got EXCEPT ![c] = @ \o Head(replies[c]).bytes]
      /\ call' = [call EXCEPT ![c].sent = @ + k, ![c].pc = p]
      /\ UNCHANGED <<wrote, aq, server>>
      BY DEF ReadChunk
<1>3. k \in Nat /\ call[c].sent + k \in Nat /\ call[c].sent + k <= call[c].count
  <2>1. call[c].count \in Nat /\ call[c].sent \in Nat
        BY <1>1, IbioAssumption DEF CallRecord
  <2> QED BY <1>1, <2>1, ChunkType
<1>4. p \in {"ready", "read"}
      OBVIOUS
<1> HIDE DEF k, p
<1>5. /\ r \in CallRecord /\ r.sent <= r.count /\ r.pc \notin {"idle", "open"} /\ r.fd = call[c].fd
      /\ call' = [call EXCEPT ![c] = r]
      BY <1>1, <1>2, <1>3, <1>4 DEF CallRecord, Calls
<1> HIDE DEF r
<1>6. Open(c)
      BY <1>2 DEF Open
<1>7. /\ Tail(replies[c]) \in Seq(Answer) /\ replies' = [replies EXCEPT ![c] = Tail(replies[c])]
      /\ Head(replies[c]).bytes \in Seq(Byte)
      BY <1>2, TailOfReplies DEF Answer
<1>8. got' \in [Client -> Seq(Byte)]
  <2>1. got[c] \o Head(replies[c]).bytes \in Seq(Byte)
        BY <1>1, <1>7, ConcatProperties
  <2> QED BY <1>1, <1>2, <2>1
<1>9. \E a \in Seq(Answer) : replies' = [replies EXCEPT ![c] = a]
      BY <1>7
<1>10. wrote' \in [Client -> Nat] /\ aq' = aq /\ UNCHANGED server
      BY <1>1, <1>2
<1> QED BY <1>5, <1>6, <1>8, <1>9, <1>10, ReadyStep

----------------------------------------------------------------------------
(* Type correctness: the steps of the server *)

\* What the server knows of the client whose message it finds.
LEMMA MessageOf ==
    ASSUME TypeInv, NEW k \in DOMAIN aq, NEW c, aq[k].src = c
    PROVE  /\ c \in Client /\ aq[k] \in Request /\ aq[k] \in Msgs(c)
           /\ aq[k].op # "OPEN" => Open(c) /\ call[c].fd \in Fd
           /\ aq[k].op = "OPEN" => /\ call[c].pc = "open" /\ replies[c] = <<>> /\ ~Owns(c)
                                   /\ Msgs(c) = {aq[k]} /\ OrderedIn(aq, c)
<1>1. aq \in Seq(Request)
      BY DEF TypeInv, ClientType
<1>2. c \in Client /\ aq[k] \in Request /\ aq[k] \in Msgs(c)
      BY <1>1, QueueOf DEF Msgs
<1>3. OpenInvOf(c)
      BY <1>2 DEF TypeInv, OpenInv
<1>4. CASE aq[k].op = "OPEN"
  <2>1. call[c].pc = "open" /\ Opening(c)
        BY <1>2, <1>3, <1>4 DEF OpenInvOf, Open
  <2>2. /\ \E x \in Request : Msgs(c) = {x}
        /\ OrderedIn(aq, c) /\ replies[c] = <<>> /\ ~Owns(c)
        BY <1>2, <2>1 DEF Opening
  <2> QED BY <1>2, <1>4, <2>1, <2>2
<1>5. CASE aq[k].op # "OPEN"
  <2>1. call[c].pc # "idle"
        BY <1>2, <1>3 DEF OpenInvOf
  <2>2. call[c].pc # "open"
        BY <1>2, <1>3, <1>5 DEF OpenInvOf, Opening
  <2>3. Open(c)
        BY <2>1, <2>2 DEF Open
  <2> QED BY <1>2, <1>3, <1>5, <2>3 DEF OpenInvOf
<1> QED BY <1>4, <1>5

LEMMA ProbedIs ==
    ASSUME TypeInv, NEW op, Probed(op), NEW c, c = Source
    PROVE  /\ 1 \in DOMAIN aq /\ aq # <<>> /\ Head(aq) = aq[1] /\ aq[1].src = c /\ aq[1].op = op
           /\ main.pc = "probe" /\ main.c = None
           /\ c \in Client /\ aq[1] \in Request /\ aq[1] \in Msgs(c)
           /\ op # "OPEN" => Open(c) /\ call[c].fd \in Fd
           /\ op = "OPEN" => /\ call[c].pc = "open" /\ replies[c] = <<>> /\ ~Owns(c)
                             /\ Msgs(c) = {aq[1]} /\ OrderedIn(aq, c)
<1>1. aq \in Seq(Request) /\ aq # <<>> /\ main.pc = "probe" /\ Head(aq).op = op /\ Head(aq).src = c
      BY DEF TypeInv, ClientType, Probed, Source
<1>2. 1 \in DOMAIN aq /\ Head(aq) = aq[1]
      BY <1>1, TailEntries
<1>3. main.c = None
      BY <1>1 DEF TypeInv, OpenInv, MainInv
<1>4. /\ c \in Client /\ aq[1] \in Request /\ aq[1] \in Msgs(c)
      /\ aq[1].op # "OPEN" => Open(c) /\ call[c].fd \in Fd
      /\ aq[1].op = "OPEN" => /\ call[c].pc = "open" /\ replies[c] = <<>> /\ ~Owns(c)
                              /\ Msgs(c) = {aq[1]} /\ OrderedIn(aq, c)
      BY <1>1, <1>2, MessageOf
<1> QED BY <1>1, <1>2, <1>3, <1>4

\* The server answers.
LEMMA ReplyIs ==
    ASSUME TypeInv, NEW c \in Client, NEW n \in Nat, NEW b \in Seq(Byte), Reply(c, n, b)
    PROVE  /\ replies' \in [Client -> Seq(Answer)]
           /\ \A d \in Client : d # c => replies'[d] = replies[d]
           /\ \E s \in Seq(Answer) : replies' = [replies EXCEPT ![c] = s]
           /\ replies[c] \in Seq(Answer) /\ Len(replies'[c]) = Len(replies[c]) + 1
           /\ replies[c] = <<>> => replies'[c] # <<>> /\ replies'[c][1] = Msg(c, "REPLY", n, b)
<1> DEFINE x == Msg(c, "REPLY", n, b)
           s == Append(replies[c], x)
<1>1. replies \in [Client -> Seq(Answer)] /\ replies[c] \in Seq(Answer)
      BY DEF TypeInv, ClientType
<1>2. x \in Answer
      BY DEF Msg, Answer
<1>3. replies' = [replies EXCEPT ![c] = s]
      BY DEF Reply
<1> HIDE DEF x
<1>4. s \in Seq(Answer) /\ Len(s) = Len(replies[c]) + 1 /\ s[Len(replies[c]) + 1] = x
      BY <1>1, <1>2, AppendProperties
<1> HIDE DEF s
<1>5. replies' \in [Client -> Seq(Answer)] /\ replies'[c] = s
      BY <1>1, <1>3, <1>4
<1>6. \A d \in Client : d # c => replies'[d] = replies[d]
      BY <1>1, <1>3
<1>7. replies[c] = <<>> => s # <<>> /\ s[1] = x
  <2>1. replies[c] = <<>> => Len(replies[c]) = 0
        BY EmptySeq
  <2> QED BY <1>4, <2>1, EmptySeq
<1> QED BY <1>1, <1>3, <1>4, <1>5, <1>6, <1>7 DEF x

\* The server serves a client that has a descriptor.
LEMMA ServeStep ==
    ASSUME TypeInv, NEW c \in Client, Open(c), UNCHANGED <<plan, call, wrote, got>>, ServerType',
           \/ aq' = aq
           \/ \E k \in DOMAIN aq : aq[k].src = c /\ ((k = 1 /\ aq # <<>> /\ aq' = Tail(aq)) \/ aq' = Without(k)),
           replies' = replies \/ \E s \in Seq(Answer) : replies' = [replies EXCEPT ![c] = s],
           \A d \in Client : Owns(d)' => Owns(d), OwnerInv',
           \A d \in Client : d # c => readers'[d] + reading'[d] = readers[d] + reading[d],
           main'.pc = "probe" => main'.c = None,
           main'.pc # "probe" => main' = main \/ main'.c = c \/ (main'.c = main.c /\ main.pc # "probe")
    PROVE  TypeInv'
<1>1. /\ replies \in [Client -> Seq(Answer)] /\ call \in [Client -> CallRecord]
      /\ aq \in Seq(Request) /\ ClientType
      BY DEF TypeInv, ClientType
<1>2. call[c].fd \in Fd /\ \A x \in Msgs(c) : x.op # "OPEN"
      BY DEF TypeInv, OpenInv, OpenInvOf
<1>3. /\ aq' \in Seq(Request) /\ \A x \in Msgs(c)' : x.op # "OPEN"
      /\ \A d \in Client : d # c => Msgs(d)' = Msgs(d) /\ (OrderedIn(aq, d) => OrderedIn(aq, d)')
  <2>1. CASE aq' = aq
    <3>1. \A d \in Client : Msgs(d)' = Msgs(d) /\ (OrderedIn(aq, d) => OrderedIn(aq, d)')
          BY <2>1 DEF Msgs, OrderedIn
    <3> QED BY <1>1, <1>2, <2>1, <3>1
  <2>2. ASSUME NEW k \in DOMAIN aq, aq[k].src = c,
               (k = 1 /\ aq # <<>> /\ aq' = Tail(aq)) \/ aq' = Without(k)
        PROVE  <1>3!1 /\ <1>3!2
    <3>1. /\ aq' \in Seq(Request) /\ Msgs(c)' \subseteq Msgs(c)
          /\ \A d \in Client : d # c => Msgs(d)' = Msgs(d)
          /\ \A d \in Client : OrderedIn(aq, d) => OrderedIn(aq, d)'
          BY <1>1, <2>2, TakeStep
    <3> QED BY <1>2, <3>1
  <2> QED BY <2>1, <2>2
<1>4. replies' \in [Client -> Seq(Answer)] /\ \A d \in Client : d # c => replies'[d] = replies[d]
      BY <1>1
<1>5. \A d \in Client : d # c => Alike(d)
      BY <1>3, <1>4 DEF Alike
<1>6. call' = call /\ \A d \in Client : Open(d)' <=> Open(d)
      BY DEF Open
<1>7. OpenInvOf(c)'
      BY <1>2, <1>3, <1>6 DEF OpenInvOf, Open
<1>8. MainInv'
  <2>1. ASSUME main'.pc # "probe" PROVE main'.c \in Client /\ Open(main'.c)
        BY <2>1 DEF TypeInv, OpenInv, MainInv
  <2> QED BY <1>6, <2>1 DEF MainInv, Open
<1>9. ClientType'
      BY <1>3, <1>4, <1>6 DEF TypeInv, ClientType
<1> QED BY <1>5, <1>7, <1>8, <1>9, OpenStep DEF TypeInv

\* open finds a descriptor: a client that has none leaves one for it.
LEMMA FreeDescriptor ==
    ASSUME TypeInv, NEW c \in Client, ~Owns(c), NEW f,
           f = CHOOSE x \in Fd : owner[x] = None /\ \A y \in Fd : y < x => owner[y] # None
    PROVE  f \in Fd /\ owner[f] = None
<1> DEFINE free == {x \in Fd : owner[x] = None}
           rest == Client \ {c}
<1>1. owner \in [Fd -> Client \cup {None}] /\ OwnerInv
      BY DEF TypeInv, ServerType, OpenInv
<1>2. /\ IsFiniteSet(rest) /\ Cardinality(rest) = Cardinality(Client) - 1 /\ IsFiniteSet(Client)
      /\ Cardinality(Client) \in Nat /\ Cardinality(rest) \in Nat
      BY IbioAssumption, FS_RemoveElement, FS_CardinalityType
<1>3. IsFiniteSet(Fd) /\ Cardinality(Fd) = Cardinality(Client) /\ Fd \subseteq Nat
  <2>1. 0 \in Int /\ Cardinality(Client) - 1 \in Int /\ ~ (0 > Cardinality(Client) - 1)
        BY <1>2
  <2> QED BY <1>2, <2>1, FS_Interval DEF Fd
<1>4. free # {}
  <2> SUFFICES ASSUME free = {} PROVE FALSE
      OBVIOUS
  <2>1. owner \in [Fd -> rest]
        BY <1>1 DEF Owns
  <2>2. \E x, y \in Fd : x # y /\ owner[x] = owner[y]
    <3>1. PICK m \in Nat, n \in Nat : m = Cardinality(rest) /\ n = Cardinality(Fd) /\ m < n
          BY <1>2, <1>3
    <3>2. Cardinality(rest) < Cardinality(Fd)
          BY <3>1
    <3>3. PICK o \in [Fd -> rest] : o = owner
          BY <2>1
    <3>4. PICK S, T : S = Fd /\ T = rest
          OBVIOUS
    <3>5. /\ IsFiniteSet(S) /\ IsFiniteSet(T) /\ Cardinality(T) < Cardinality(S)
          /\ o \in [S -> T]
          BY <1>2, <1>3, <3>2, <3>4
    <3>6. \E x, y \in S : x # y /\ o[x] = o[y]
          BY <3>5, FS_PigeonHole
    <3> QED BY <3>3, <3>4, <3>6
  <2>3. \A x \in Fd : owner[x] # None
        OBVIOUS
  <2> QED BY <1>1, <2>2, <2>3 DEF OwnerInv
<1>5. Min(free) \in free /\ \A y \in free : Min(free) <= y
  <2>1. free \subseteq Nat
        BY <1>3
  <2> HIDE DEF free
  <2> QED BY <1>4, <2>1, LeastPlace
<1>6. ASSUME NEW y \in Fd, y < Min(free) PROVE owner[y] # None
  <2>1. y \in Nat /\ Min(free) \in Nat
        BY <1>3, <1>5
  <2>2. y \notin free
        BY <1>5, <1>6, <2>1
  <2> QED BY <2>2
<1> QED BY <1>5, <1>6

\* A chunk is put into the cache.
LEMMA StoreType ==
    ASSUME TypeInv, NEW f \in Fd, NEW at \in Nat, NEW b \in Seq(Byte), Store(f, at, b)
    PROVE  /\ cache' \in [Fd -> [Place -> Byte]]
           /\ \A g \in Fd : g # f => cache'[g] = cache[g]
           /\ \A i \in Place : cache'[f][i] = IF i - at \in 0 .. Len(b) - 1 THEN b[i - at + 1]
                                              ELSE cache[f][i]
<1> DEFINE new == [i \in Place |-> IF i - at \in 0 .. Len(b) - 1 THEN b[i - at + 1] ELSE cache[f][i]]
<1>1. cache \in [Fd -> [Place -> Byte]]
      BY DEF TypeInv, ServerType
<1>2. cache' = [cache EXCEPT ![f] = new]
      BY DEF Store
<1>3. new \in [Place -> Byte]
  <2>1. Len(b) \in Nat /\ \A j \in 1 .. Len(b) : b[j] \in Byte
        BY ElementOfSeq, LenProperties
  <2>2. ASSUME NEW i \in Place PROVE new[i] \in Byte
    <3>1. CASE i - at \in 0 .. Len(b) - 1
      <4>1. i \in Int /\ at \in Int
            BY IbioAssumption DEF Place
      <4>2. i - at + 1 \in 1 .. Len(b)
            BY <2>1, <3>1, <4>1
      <4> QED BY <2>1, <3>1, <4>2
    <3>2. CASE ~ (i - at \in 0 .. Len(b) - 1)
          BY <1>1, <3>2
    <3> QED BY <3>1, <3>2
  <2> QED BY <2>2
<1> QED BY <1>1, <1>2, <1>3

\* What a thread or ibvio_swrite takes from the cache.
LEMMA CacheBytesType ==
    ASSUME TypeInv, NEW f \in Fd, NEW a \in Nat, NEW n \in Nat
    PROVE  CacheBytes(f, a, n) \in Seq(Byte) /\ Len(CacheBytes(f, a, n)) = n
<1>1. cache \in [Fd -> [Place -> Byte]]
      BY DEF TypeInv, ServerType
<1>2. \A i \in 1 .. n : (IF a + i - 1 \in Place THEN cache[f][a + i - 1] ELSE None) \in Byte
      BY <1>1 DEF Byte
<1>3. CacheBytes(f, a, n) \in [1 .. n -> Byte]
      BY <1>2 DEF CacheBytes
<1> QED BY <1>3, SeqDef, LenProperties

\* write puts the bytes at the offset of the file.
LEMMA WriteOutType ==
    ASSUME TypeInv, NEW f \in Fd, NEW b \in Seq(Byte), WriteOut(f, b)
    PROVE  /\ file' \in [Fd -> Seq(Byte)] /\ pos' \in [Fd -> Nat]
           /\ \A g \in Fd : pos'[g] <= Len(file'[g])
           /\ \A g \in Fd : g # f => file'[g] = file[g] /\ pos'[g] = pos[g]
           /\ pos'[f] = pos[f] + Len(b)
           /\ pos[f] = Len(file[f]) => file'[f] = file[f] \o b
<1> DEFINE p == pos[f]
           l == Len(file[f])
           n == Len(b)
           s == SubSeq(file[f], 1, p)
           t == SubSeq(file[f], p + n + 1, l)
           new == s \o b \o t
<1>1. /\ file \in [Fd -> Seq(Byte)] /\ pos \in [Fd -> Nat] /\ p <= l /\ p \in Nat /\ l \in Nat /\ n \in Nat
      /\ file[f] \in Seq(Byte) /\ \A g \in Fd : pos[g] <= Len(file[g])
      BY LenProperties DEF TypeInv, ServerType
<1>2. \A i \in 1 .. l : file[f][i] \in Byte
      BY <1>1, ElementOfSeq
<1>3. file' = [file EXCEPT ![f] = new] /\ pos' = [pos EXCEPT ![f] = p + n]
      BY DEF WriteOut
<1>4. s \in Seq(Byte) /\ Len(s) = p
  <2>1. \A i \in 1 .. p : file[f][i] \in Byte
        BY <1>1, <1>2
  <2>2. s \in Seq(Byte) /\ Len(s) = IF 1 <= p THEN p - 1 + 1 ELSE 0
        BY <1>1, <2>1, SubSeqProperties
  <2> QED BY <1>1, <2>2
<1>5. t \in Seq(Byte) /\ Len(t) \in Nat
  <2>1. \A i \in p + n + 1 .. l : file[f][i] \in Byte
        BY <1>1, <1>2
  <2>2. t \in Seq(Byte)
        BY <1>1, <2>1, SubSeqProperties
  <2> QED BY <2>2, LenProperties
<1>6. p = l => s = file[f] /\ t = <<>>
  <2> SUFFICES ASSUME p = l PROVE s = file[f] /\ t = <<>>
      OBVIOUS
  <2>1. t = <<>>
        BY <1>1
  <2>2. s = file[f]
        BY <1>1
  <2> QED BY <2>1, <2>2
<1> HIDE DEF s, t
<1>7. new \in Seq(Byte) /\ Len(new) = p + n + Len(t)
  <2>1. s \o b \in Seq(Byte) /\ Len(s \o b) = p + n
        BY <1>4, ConcatProperties
  <2> QED BY <1>5, <2>1, ConcatProperties
<1>8. p = l => new = file[f] \o b
      BY <1>1, <1>6, ConcatProperties
<1> HIDE DEF new
<1>9. file'[f] = new /\ pos'[f] = p + n /\ \A g \in Fd : g # f => file'[g] = file[g] /\ pos'[g] = pos[g]
      BY <1>1, <1>3
<1>10. file' \in [Fd -> Seq(Byte)] /\ pos' \in [Fd -> Nat]
      BY <1>1, <1>3, <1>7
<1>11. ASSUME NEW g \in Fd PROVE pos'[g] <= Len(file'[g])
  <2>1. CASE g = f
        BY <1>1, <1>5, <1>7, <1>9, <2>1
  <2>2. CASE g # f
        BY <1>1, <1>9, <2>2
  <2> QED BY <2>1, <2>2
<1> QED BY <1>8, <1>9, <1>10, <1>11

\* The counts of one entry of open_info change.
LEMMA CountsStep ==
    ASSUME TypeInv, NEW f \in Fd, \A g \in Fd : g # f => info'[g] = info[g],
           info'[f].current_write_count <= info'[f].write_count,
           info'[f].current_recv_size <= info'[f].write_count
    PROVE  \A g \in Fd : /\ info'[g].current_write_count <= info'[g].write_count
                          /\ info'[g].current_recv_size <= info'[g].write_count
<1> TAKE g \in Fd
<1>1. CASE g = f
      BY <1>1
<1>2. CASE g # f
      BY <1>2 DEF TypeInv, ServerType
<1> QED BY <1>1, <1>2

LEMMA SopenType ==
    ASSUME TypeInv, Sopen, plan' = plan
    PROVE  TypeInv'
<1> DEFINE f == CHOOSE x \in Fd : owner[x] = None /\ \A y \in Fd : y < x => owner[y] # None
<1>1. PICK c : c = Source
      OBVIOUS
<1>2. /\ Probed("OPEN") /\ aq' = Tail(aq) /\ Reply(c, f, <<>>)
      /\ owner' = [owner EXCEPT ![f] = c]
      /\ file' = [file EXCEPT ![f] = [i \in 1 .. plan.stored |-> i]]
      /\ pos' = [pos EXCEPT ![f] = 0]
      /\ info' = [info EXCEPT ![f] = [Zero EXCEPT !.fd = f]]
      /\ cache' = [cache EXCEPT ![f] = [i \in Place |-> None]]
      /\ fastmutex' = [fastmutex EXCEPT ![f] = FALSE]
      /\ UNCHANGED <<call, wrote, got, threads, main>>
      BY <1>1 DEF Sopen
<1>3. /\ 1 \in DOMAIN aq /\ aq # <<>> /\ aq[1].src = c /\ c \in Client /\ main.pc = "probe"
      /\ call[c].pc = "open" /\ replies[c] = <<>> /\ ~Owns(c)
      /\ Msgs(c) = {aq[1]} /\ OrderedIn(aq, c)
      BY <1>1, <1>2, ProbedIs
<1>4. f \in Fd /\ owner[f] = None
      BY <1>3, FreeDescriptor
<1> HIDE DEF f
<1>5. Fd \subseteq Nat
  <2>1. Cardinality(Client) \in Nat
        BY IbioAssumption, FS_CardinalityType
  <2> QED BY <2>1 DEF Fd
<1>6. <<>> \in Seq(Byte) /\ f \in Nat
      BY <1>4, <1>5, EmptySeq
<1>7. /\ replies' \in [Client -> Seq(Answer)] /\ \A d \in Client : d # c => replies'[d] = replies[d]
      /\ Len(replies'[c]) = 1 /\ replies'[c][1].count = f
  <2>1. /\ replies' \in [Client -> Seq(Answer)] /\ \A d \in Client : d # c => replies'[d] = replies[d]
        /\ Len(replies'[c]) = Len(replies[c]) + 1 /\ replies'[c][1] = Msg(c, "REPLY", f, <<>>)
        BY <1>2, <1>3, <1>6, ReplyIs, ZenonT(60)
  <2>2. Len(replies[c]) = 0
        BY <1>3, EmptySeq
  <2> QED BY <2>1, <2>2 DEF Msg
<1>8. /\ aq' \in Seq(Request) /\ Msgs(c)' = {}
      /\ \A d \in Client : d # c => Msgs(d)' = Msgs(d) /\ (OrderedIn(aq, d) => OrderedIn(aq, d)')
  <2>1. /\ aq' \in Seq(Request) /\ Msgs(c)' = Msgs(c) \ {aq[1]}
        /\ \A d \in Client : d # c => Msgs(d)' = Msgs(d)
        /\ \A d \in Client : OrderedIn(aq, d) => OrderedIn(aq, d)'
        BY <1>2, <1>3, TakeStep DEF TypeInv
  <2> QED BY <1>3, <2>1
<1>9. ServerType /\ plan.stored \in Nat
      BY IbioAssumption DEF TypeInv, ClientType
<1>10. owner' \in [Fd -> Client \cup {None}] /\ owner'[f] = c /\ \A g \in Fd : g # f => owner'[g] = owner[g]
      BY <1>2, <1>3, <1>4, <1>9 DEF ServerType
<1>11. file' \in [Fd -> Seq(Byte)] /\ pos' \in [Fd -> Nat] /\ \A g \in Fd : pos'[g] <= Len(file'[g])
  <2> DEFINE s == [i \in 1 .. plan.stored |-> i]
  <2>1. s \in Seq(Byte)
    <3>1. s \in [1 .. plan.stored -> Byte]
          BY <1>9 DEF Byte
    <3> QED BY <1>9, <3>1, SeqDef
  <2> HIDE DEF s
  <2>2. Len(s) \in Nat
        BY <2>1, LenProperties
  <2>3. file' \in [Fd -> Seq(Byte)] /\ file'[f] = s /\ \A g \in Fd : g # f => file'[g] = file[g]
        BY <1>2, <1>4, <1>9, <2>1 DEF ServerType, s
  <2>4. pos' \in [Fd -> Nat] /\ pos'[f] = 0 /\ \A g \in Fd : g # f => pos'[g] = pos[g]
        BY <1>2, <1>4, <1>9 DEF ServerType
  <2>5. ASSUME NEW g \in Fd PROVE pos'[g] <= Len(file'[g])
    <3>1. CASE g = f
          BY <2>2, <2>3, <2>4, <3>1
    <3>2. CASE g # f
          BY <1>9, <2>3, <2>4, <3>2 DEF ServerType
    <3> QED BY <3>1, <3>2
  <2> QED BY <2>3, <2>4, <2>5
<1>12. /\ info' \in [Fd -> InfoRecord]
       /\ \A g \in Fd : /\ info'[g].current_write_count <= info'[g].write_count
                        /\ info'[g].current_recv_size <= info'[g].write_count
  <2> DEFINE r == [Zero EXCEPT !.fd = f]
  <2>1. 0 \in 0 .. CacheSize
        BY IbioAssumption
  <2>2. r \in InfoRecord /\ r.write_count = 0 /\ r.current_write_count = 0 /\ r.current_recv_size = 0
        BY <1>4, <2>1 DEF Zero, InfoRecord
  <2>3. info' = [info EXCEPT ![f] = r]
        BY <1>2
  <2> HIDE DEF r
  <2>4. info' \in [Fd -> InfoRecord] /\ info'[f] = r /\ \A g \in Fd : g # f => info'[g] = info[g]
        BY <1>4, <1>9, <2>2, <2>3 DEF ServerType
  <2>5. info'[f].current_write_count <= info'[f].write_count /\ info'[f].current_recv_size <= info'[f].write_count
        BY <2>2, <2>4
  <2> QED BY <1>4, <2>4, <2>5, CountsStep
<1>13. cache' \in [Fd -> [Place -> Byte]] /\ fastmutex' \in [Fd -> BOOLEAN]
  <2>1. [i \in Place |-> None] \in [Place -> Byte]
        BY DEF Byte
  <2> QED BY <1>2, <1>4, <1>9, <2>1 DEF ServerType
<1>14. ServerType'
      BY <1>2, <1>9, <1>10, <1>11, <1>12, <1>13 DEF ServerType, threads
<1>15. ClientType'
      BY <1>2, <1>7, <1>8 DEF TypeInv, ClientType
<1>16. \A d \in Client : d # c => Alike(d)
      BY <1>2, <1>7, <1>8, <1>10 DEF Alike, Owns, threads
<1>17. OpenInvOf(c)'
  <2>1. ~ (readers[c] + reading[c] > 0)
        BY <1>3 DEF TypeInv, OpenInv, OpenInvOf, Open
  <2>2. call'[c].pc = "open" /\ ~ (readers'[c] + reading'[c] > 0)
        BY <1>2, <1>3, <2>1 DEF threads
  <2> QED BY <1>4, <1>7, <1>8, <2>2 DEF OpenInvOf, Opening, Open
<1>18. OwnerInv'
  <2>1. \A g \in Fd : owner[g] # c
        BY <1>3 DEF Owns
  <2> QED BY <1>10, <2>1 DEF TypeInv, OpenInv, OwnerInv
<1>19. MainInv'
      BY <1>2, <1>3 DEF TypeInv, OpenInv, MainInv, Open
<1> QED BY <1>3, <1>14, <1>15, <1>16, <1>17, <1>18, <1>19, OpenStep DEF TypeInv

LEMMA SwriteBeginType ==
    ASSUME TypeInv, SwriteBegin, plan' = plan
    PROVE  TypeInv'
<1>1. PICK c : c = Source
      OBVIOUS
<1>2. PICK f : f = call[c].fd
      OBVIOUS
<1>3. /\ Probed("WRITE_BEGIN") /\ aq' = Tail(aq)
      /\ info' = [info EXCEPT ![f].write_count = Head(aq).count,
                              ![f].current_recv_size = 0, ![f].current_write_count = 0]
      /\ UNCHANGED <<call, wrote, got, replies, file, pos, owner, cache, fastmutex, threads, main>>
      BY <1>1, <1>2 DEF SwriteBegin, FdOf
<1>4. /\ 1 \in DOMAIN aq /\ aq # <<>> /\ Head(aq) = aq[1] /\ aq[1].src = c /\ aq[1] \in Request
      /\ c \in Client /\ main.pc = "probe" /\ main.c = None /\ Open(c) /\ f \in Fd
      BY <1>1, <1>2, <1>3, ProbedIs
<1>5. PICK n \in 0 .. CacheSize : n = Head(aq).count
      BY <1>4 DEF Request
<1>6. info \in [Fd -> InfoRecord] /\ ServerType /\ n \in Nat
      BY IbioAssumption DEF TypeInv, ServerType
<1>7. /\ info' \in [Fd -> InfoRecord] /\ \A g \in Fd : g # f => info'[g] = info[g]
      /\ info'[f].write_count = n /\ info'[f].current_recv_size = 0 /\ info'[f].current_write_count = 0
  <2>1. PICK r \in InfoRecord : r = info[f]
        BY <1>4, <1>6
  <2>2. PICK s : s = [r EXCEPT !.write_count = n, !.current_recv_size = 0, !.current_write_count = 0]
        OBVIOUS
  <2>3. s \in InfoRecord /\ s.write_count = n /\ s.current_recv_size = 0 /\ s.current_write_count = 0
        BY <2>2 DEF InfoRecord
  <2>4. info' = [info EXCEPT ![f] = s]
        BY <1>3, <1>4, <1>5, <1>6, <2>1, <2>2
  <2> QED BY <1>4, <1>6, <2>3, <2>4
<1>8. ServerType'
  <2>1. \A g \in Fd : /\ info'[g].current_write_count <= info'[g].write_count
                      /\ info'[g].current_recv_size <= info'[g].write_count
    <3>1. info'[f].current_write_count <= info'[f].write_count /\ info'[f].current_recv_size <= info'[f].write_count
          BY <1>6, <1>7
    <3> QED BY <1>4, <1>7, <3>1, CountsStep
  <2> QED BY <1>3, <1>6, <1>7, <2>1 DEF ServerType, threads
<1>9. OwnerInv' /\ \A d \in Client : Owns(d)' => Owns(d)
      BY <1>3 DEF TypeInv, OpenInv, OwnerInv, Owns
<1> QED BY <1>3, <1>4, <1>8, <1>9, ServeStep DEF threads

\* A message carries bytes that the cache can hold.
LEMMA RequestBytes ==
    ASSUME NEW x \in Request
    PROVE  x.bytes \in Seq(Byte) /\ x.bytes \in Seq(Nat) /\ x.count \in 0 .. CacheSize /\ x.count \in Nat
<1>1. x.bytes \in Seq(Nat) /\ x.count \in 0 .. CacheSize
      BY DEF Request
<1>2. x.bytes \in Seq(Byte)
  <2>1. x.bytes \in [1 .. Len(x.bytes) -> Nat] /\ Len(x.bytes) \in Nat
        BY <1>1, LenProperties
  <2>2. x.bytes \in [1 .. Len(x.bytes) -> Byte]
        BY <2>1 DEF Byte
  <2> QED BY <2>1, <2>2, SeqDef
<1> QED BY <1>1, <1>2, IbioAssumption

LEMMA SwriteChunkType ==
    ASSUME TypeInv, SwriteChunk, plan' = plan
    PROVE  TypeInv'
<1>1. PICK c : c = Source
      OBVIOUS
<1>2. PICK f : f = call[c].fd
      OBVIOUS
<1> DEFINE r == info[f].current_recv_size
           n == info[f].write_count
           k == NextChunk(r, n)
<1>3. /\ Probed("WRITE_CHUNK") /\ aq' = Tail(aq) /\ Store(f, r, Head(aq).bytes)
      /\ info' = [info EXCEPT ![f].current_recv_size = r + k]
      /\ writers' = [writers EXCEPT ![f] = @ + 1]
      /\ main' = IF r + k = n THEN [Probe EXCEPT !.pc = "ack", !.c = c] ELSE main
      /\ UNCHANGED <<call, wrote, got, replies, file, pos, owner, fastmutex, readers, reading>>
      BY <1>1, <1>2 DEF SwriteChunk, FdOf
<1>4. /\ 1 \in DOMAIN aq /\ aq # <<>> /\ Head(aq) = aq[1] /\ aq[1].src = c /\ aq[1] \in Request
      /\ c \in Client /\ main.pc = "probe" /\ main.c = None /\ Open(c) /\ f \in Fd
      BY <1>1, <1>2, <1>3, ProbedIs
<1>5. /\ info \in [Fd -> InfoRecord] /\ ServerType /\ info[f] \in InfoRecord
      /\ r <= n
      BY <1>4 DEF TypeInv, ServerType
<1>6. r \in Nat /\ n \in Nat
      BY <1>5, IbioAssumption DEF InfoRecord
<1>7. k \in Nat /\ r + k \in Nat /\ r + k <= n
      BY <1>5, <1>6, ChunkType
<1> HIDE DEF k
<1>8. /\ info' \in [Fd -> InfoRecord] /\ \A g \in Fd : g # f => info'[g] = info[g]
      /\ info'[f].write_count = n /\ info'[f].current_recv_size = r + k
      /\ info'[f].current_write_count = info[f].current_write_count
      BY <1>3, <1>4, <1>5, <1>7 DEF InfoRecord
<1>9. \A g \in Fd : /\ info'[g].current_write_count <= info'[g].write_count
                    /\ info'[g].current_recv_size <= info'[g].write_count
  <2>1. info[f].current_write_count <= n
        BY <1>4 DEF TypeInv, ServerType
  <2> QED BY <1>4, <1>7, <1>8, <2>1, CountsStep
<1>10. cache' \in [Fd -> [Place -> Byte]]
      BY <1>3, <1>4, <1>6, RequestBytes, StoreType
<1>11. writers' \in [Fd -> Nat]
      BY <1>3, <1>4, <1>5 DEF ServerType
<1>12. /\ main' \in MainRecord
       /\ main'.pc = "probe" => main'.c = None
       /\ main'.pc # "probe" => main'.c = c
  <2> DEFINE p == [Probe EXCEPT !.pc = "ack", !.c = c]
  <2>1. p \in MainRecord /\ p.pc = "ack" /\ p.c = c
    <3>1. 0 \in 0 .. CacheSize
          BY IbioAssumption
    <3>2. Probe \in MainRecord /\ Probe.recv = 0 /\ Probe.count = 0
          BY <3>1 DEF Probe, MainRecord
    <3> QED BY <1>4, <3>2 DEF MainRecord
  <2>2. main \in MainRecord
        BY <1>5 DEF ServerType
  <2> HIDE DEF p
  <2>3. main' = p \/ main' = main
        BY <1>3 DEF p
  <2> QED BY <1>4, <2>1, <2>2, <2>3
<1>13. ServerType'
      BY <1>3, <1>5, <1>8, <1>9, <1>10, <1>11, <1>12 DEF ServerType
<1>14. OwnerInv' /\ \A d \in Client : Owns(d)' => Owns(d)
      BY <1>3 DEF TypeInv, OpenInv, OwnerInv, Owns
<1>15. /\ UNCHANGED <<plan, call, wrote, got, replies>>
       /\ \A d \in Client : readers'[d] + reading'[d] = readers[d] + reading[d]
      BY <1>3
<1>16. \E i \in DOMAIN aq : aq[i].src = c /\ ((i = 1 /\ aq # <<>> /\ aq' = Tail(aq)) \/ aq' = Without(i))
      BY <1>3, <1>4
<1>17. main'.pc # "probe" => main' = main \/ main'.c = c \/ (main'.c = main.c /\ main.pc # "probe")
      BY <1>12
<1> QED BY <1>4, <1>12, <1>13, <1>14, <1>15, <1>16, <1>17, ServeStep

LEMMA SwriteAckType ==
    ASSUME TypeInv, SwriteAck, plan' = plan
    PROVE  TypeInv'
<1>1. PICK c : c = main.c
      OBVIOUS
<1>2. /\ main.pc = "ack" /\ Reply(c, 0, <<>>) /\ main' = Probe
      /\ UNCHANGED <<call, wrote, got, aq, file, pos, owner, info, cache, fastmutex, threads>>
      BY <1>1 DEF SwriteAck
<1>3. c \in Client /\ Open(c)
      BY <1>1, <1>2 DEF TypeInv, OpenInv, MainInv
<1>4. \E s \in Seq(Answer) : replies' = [replies EXCEPT ![c] = s]
  <2>1. <<>> \in Seq(Byte)
        BY EmptySeq
  <2> QED BY <1>2, <1>3, <2>1, ReplyIs
<1>5. main' \in MainRecord /\ main'.pc = "probe" /\ main'.c = None
  <2>1. 0 \in 0 .. CacheSize
        BY IbioAssumption
  <2> QED BY <1>2, <2>1 DEF Probe, MainRecord
<1>6. ServerType'
      BY <1>2, <1>5 DEF TypeInv, ServerType, threads
<1>7. OwnerInv' /\ \A d \in Client : Owns(d)' => Owns(d)
      BY <1>2 DEF TypeInv, OpenInv, OwnerInv, Owns
<1> QED BY <1>2, <1>3, <1>4, <1>5, <1>6, <1>7, ServeStep DEF threads

LEMMA SwriteHeaderType ==
    ASSUME TypeInv, SwriteHeader, plan' = plan
    PROVE  TypeInv'
<1>1. PICK c : c = Source
      OBVIOUS
<1>2. /\ Probed("WRITE") /\ aq' = Tail(aq)
      /\ \E w \in {0, ChunkSize} :
            main' = [pc |-> "swrite", c |-> c, count |-> Head(aq).count, recv |-> 0, out |-> 0,
                     start |-> w]
      /\ UNCHANGED <<call, wrote, got, replies, file, pos, owner, info, cache, fastmutex, threads>>
      BY <1>1 DEF SwriteHeader
<1>3. /\ 1 \in DOMAIN aq /\ aq # <<>> /\ Head(aq) = aq[1] /\ aq[1].src = c /\ aq[1] \in Request
      /\ c \in Client /\ Open(c)
      BY <1>1, <1>2, ProbedIs
<1>4. main' \in MainRecord /\ main'.pc = "swrite" /\ main'.c = c
  <2>1. Head(aq).count \in 0 .. CacheSize /\ ChunkSize \in Nat
        BY <1>3, RequestBytes, IbioAssumption
  <2> QED BY <1>2, <1>3, <2>1 DEF MainRecord
<1>5. ServerType'
      BY <1>2, <1>4 DEF TypeInv, ServerType, threads
<1>6. OwnerInv' /\ \A d \in Client : Owns(d)' => Owns(d)
      BY <1>2 DEF TypeInv, OpenInv, OwnerInv, Owns
<1>7. /\ UNCHANGED <<plan, call, wrote, got, replies>> /\ aq' = Tail(aq)
      /\ \A d \in Client : readers'[d] + reading'[d] = readers[d] + reading[d]
      BY <1>2 DEF threads
<1>8. \E i \in DOMAIN aq : aq[i].src = c /\ ((i = 1 /\ aq # <<>> /\ aq' = Tail(aq)) \/ aq' = Without(i))
      BY <1>3, <1>7
<1>9. /\ main'.pc = "probe" => main'.c = None
      /\ main'.pc # "probe" => main' = main \/ main'.c = c \/ (main'.c = main.c /\ main.pc # "probe")
      BY <1>4
<1> QED BY <1>3, <1>5, <1>6, <1>7, <1>8, <1>9, ServeStep

LEMMA SwriteRecvType ==
    ASSUME TypeInv, SwriteRecv, plan' = plan
    PROVE  TypeInv'
<1>1. PICK c : c = main.c
      OBVIOUS
<1>2. PICK f : f = call[c].fd
      OBVIOUS
<1>3. PICK i : i = FirstFrom(c, "WRITE")
      OBVIOUS
<1>4. /\ main.pc = "swrite" /\ main.recv < main.count
      /\ \E j \in DOMAIN aq : IsFrom(c, "WRITE", j)
      /\ aq' = Without(i) /\ Store(f, main.recv, aq[i].bytes)
      /\ main' = [main EXCEPT !.recv = @ + NextChunk(main.recv, main.count)]
      /\ UNCHANGED <<call, wrote, got, replies, file, pos, owner, info, fastmutex, threads>>
      BY <1>1, <1>2, <1>3 DEF SwriteRecv, FdOf
<1>5. c \in Client /\ Open(c) /\ f \in Fd
      BY <1>1, <1>2, <1>4 DEF TypeInv, OpenInv, OpenInvOf, MainInv
<1>6. i \in DOMAIN aq /\ aq[i].src = c
      BY <1>3, <1>4, FirstFromIs DEF TypeInv, ClientType, IsFrom
<1>7. aq[i] \in Request
      BY <1>6, MessageOf
<1>8. main \in MainRecord /\ ServerType
      BY DEF TypeInv, ServerType
<1>9. main.recv \in Nat /\ main.count \in Nat
      BY <1>8, IbioAssumption DEF MainRecord
<1>10. cache' \in [Fd -> [Place -> Byte]]
      BY <1>4, <1>5, <1>7, <1>9, RequestBytes, StoreType
<1>11. main' \in MainRecord /\ main'.pc = "swrite" /\ main'.c = c
  <2>1. /\ main.recv + NextChunk(main.recv, main.count) \in Nat
        /\ main.recv + NextChunk(main.recv, main.count) <= main.count
        BY <1>4, <1>9, ChunkType
  <2> QED BY <1>1, <1>4, <1>8, <2>1 DEF MainRecord
<1>12. ServerType'
      BY <1>4, <1>8, <1>10, <1>11 DEF ServerType, threads
<1>13. OwnerInv' /\ \A d \in Client : Owns(d)' => Owns(d)
      BY <1>4 DEF TypeInv, OpenInv, OwnerInv, Owns
<1> QED BY <1>4, <1>5, <1>6, <1>11, <1>12, <1>13, ServeStep DEF threads

LEMMA SwriteWriteType ==
    ASSUME TypeInv, SwriteWrite, plan' = plan
    PROVE  TypeInv'
<1>1. PICK c : c = main.c
      OBVIOUS
<1>2. PICK f : f = call[c].fd
      OBVIOUS
<1> DEFINE k == NextChunk(main.out, main.count)
           b == CacheBytes(f, main.start + main.out, k)
<1>3. /\ main.pc = "swrite" /\ main.out < main.recv /\ WriteOut(f, b)
      /\ main' = [main EXCEPT !.out = @ + k]
      /\ UNCHANGED <<call, wrote, got, aq, replies, owner, info, cache, fastmutex, threads>>
      BY <1>1, <1>2 DEF SwriteWrite, FdOf
<1>4. c \in Client /\ Open(c) /\ f \in Fd
      BY <1>1, <1>2, <1>3 DEF TypeInv, OpenInv, OpenInvOf, MainInv
<1>5. main \in MainRecord /\ ServerType
      BY DEF TypeInv, ServerType
<1>6. /\ main.start \in Nat /\ main.count \in Nat /\ main.out \in Nat /\ main.recv \in Nat
      /\ main.recv <= main.count
      BY <1>5, IbioAssumption DEF MainRecord
<1>7. k \in Nat /\ main.out + k \in Nat /\ main.start + main.out \in Nat
      BY <1>3, <1>6, ChunkType
<1> HIDE DEF k
<1>8. b \in Seq(Byte)
      BY <1>4, <1>7, CacheBytesType
<1> HIDE DEF b
<1>9. /\ file' \in [Fd -> Seq(Byte)] /\ pos' \in [Fd -> Nat]
      /\ \A g \in Fd : pos'[g] <= Len(file'[g])
      BY <1>3, <1>4, <1>8, WriteOutType
<1>10. main' \in MainRecord /\ main'.pc = "swrite" /\ main'.c = c
      BY <1>1, <1>3, <1>5, <1>7 DEF MainRecord
<1>11. ServerType'
      BY <1>3, <1>5, <1>9, <1>10 DEF ServerType, threads
<1>12. OwnerInv' /\ \A d \in Client : Owns(d)' => Owns(d)
      BY <1>3 DEF TypeInv, OpenInv, OwnerInv, Owns
<1> QED BY <1>3, <1>4, <1>10, <1>11, <1>12, ServeStep DEF threads

LEMMA SwriteReplyType ==
    ASSUME TypeInv, SwriteReply, plan' = plan
    PROVE  TypeInv'
<1>1. PICK c : c = main.c
      OBVIOUS
<1>2. /\ main.pc = "swrite" /\ Reply(c, 0, <<>>) /\ main' = Probe
      /\ UNCHANGED <<call, wrote, got, aq, file, pos, owner, info, cache, fastmutex, threads>>
      BY <1>1 DEF SwriteReply
<1>3. c \in Client /\ Open(c)
      BY <1>1, <1>2 DEF TypeInv, OpenInv, MainInv
<1>4. \E s \in Seq(Answer) : replies' = [replies EXCEPT ![c] = s]
  <2>1. <<>> \in Seq(Byte)
        BY EmptySeq
  <2> QED BY <1>2, <1>3, <2>1, ReplyIs
<1>5. main' \in MainRecord /\ main'.pc = "probe" /\ main'.c = None
  <2>1. 0 \in 0 .. CacheSize
        BY IbioAssumption
  <2> QED BY <1>2, <2>1 DEF Probe, MainRecord
<1>6. ServerType'
      BY <1>2, <1>5 DEF TypeInv, ServerType, threads
<1>7. OwnerInv' /\ \A d \in Client : Owns(d)' => Owns(d)
      BY <1>2 DEF TypeInv, OpenInv, OwnerInv, Owns
<1> QED BY <1>2, <1>3, <1>4, <1>5, <1>6, <1>7, ServeStep DEF threads

LEMMA SreadAsyncType ==
    ASSUME TypeInv, SreadAsync, plan' = plan
    PROVE  TypeInv'
<1>1. PICK c : c = Source
      OBVIOUS
<1>2. /\ Probed("READ") /\ readers[c] < MaxReaders /\ readers' = [readers EXCEPT ![c] = @ + 1]
      /\ UNCHANGED <<call, wrote, got, aq, replies, file, pos, owner, info, cache, fastmutex,
                     writers, reading, main>>
      BY <1>1 DEF SreadAsync
<1>3. c \in Client /\ Open(c) /\ main.pc = "probe" /\ main.c = None
      BY <1>1, <1>2, ProbedIs
<1>4. readers \in [Client -> 0 .. MaxReaders] /\ MaxReaders \in Nat
      BY IbioAssumption DEF TypeInv, ServerType
<1>5. readers' \in [Client -> 0 .. MaxReaders] /\ \A d \in Client : d # c => readers'[d] = readers[d]
  <2>1. readers[c] + 1 \in 0 .. MaxReaders
        BY <1>2, <1>3, <1>4
  <2> QED BY <1>2, <1>4, <2>1
<1>6. ServerType'
      BY <1>2, <1>5 DEF TypeInv, ServerType
<1>7. OwnerInv' /\ \A d \in Client : Owns(d)' => Owns(d)
      BY <1>2 DEF TypeInv, OpenInv, OwnerInv, Owns
<1> QED BY <1>2, <1>3, <1>5, <1>6, <1>7, ServeStep

LEMMA ScloseType ==
    ASSUME TypeInv, Sclose, plan' = plan
    PROVE  TypeInv'
<1>1. PICK c : c = Source
      OBVIOUS
<1>2. PICK f : f = call[c].fd
      OBVIOUS
<1>3. /\ Probed("CLOSE") /\ aq' = Tail(aq) /\ Reply(c, 0, <<>>)
      /\ owner' = [owner EXCEPT ![f] = None]
      /\ cache' = [cache EXCEPT ![f] = [i \in Place |-> None]]
      /\ info' = [g \in Fd |-> IF g \in Cleared(f) THEN Zero ELSE info[g]]
      /\ fastmutex' = [g \in Fd |-> IF g \in Cleared(f) THEN FALSE ELSE fastmutex[g]]
      /\ UNCHANGED <<call, wrote, got, file, pos, threads, main>>
      BY <1>1, <1>2 DEF Sclose, FdOf
<1>4. /\ 1 \in DOMAIN aq /\ aq # <<>> /\ aq[1].src = c
      /\ c \in Client /\ main.pc = "probe" /\ main.c = None /\ Open(c) /\ f \in Fd
      BY <1>1, <1>2, <1>3, ProbedIs
<1>5. \E s \in Seq(Answer) : replies' = [replies EXCEPT ![c] = s]
  <2>1. <<>> \in Seq(Byte)
        BY EmptySeq
  <2> QED BY <1>3, <1>4, <2>1, ReplyIs
<1>6. ServerType
      BY DEF TypeInv
<1>7. /\ owner' \in [Fd -> Client \cup {None}] /\ owner'[f] = None
      /\ \A g \in Fd : g # f => owner'[g] = owner[g]
      BY <1>3, <1>4, <1>6 DEF ServerType
<1>8. cache' \in [Fd -> [Place -> Byte]]
  <2>1. [i \in Place |-> None] \in [Place -> Byte]
        BY DEF Byte
  <2> QED BY <1>3, <1>4, <1>6, <2>1 DEF ServerType
<1>9. fastmutex' \in [Fd -> BOOLEAN]
      BY <1>3, <1>6 DEF ServerType
<1>10. Zero \in InfoRecord /\ Zero.current_write_count <= Zero.write_count /\ Zero.current_recv_size <= Zero.write_count
  <2>1. 0 \in 0 .. CacheSize
        BY IbioAssumption
  <2> QED BY <2>1 DEF Zero, InfoRecord
<1>11. /\ info' \in [Fd -> InfoRecord]
       /\ \A g \in Fd : info'[g] = Zero \/ info'[g] = info[g]
      BY <1>3, <1>6, <1>10 DEF ServerType
<1>12. ASSUME NEW g \in Fd
       PROVE  info'[g].current_write_count <= info'[g].write_count /\ info'[g].current_recv_size <= info'[g].write_count
  <2>1. CASE info'[g] = Zero
        BY <1>10, <2>1
  <2>2. CASE info'[g] = info[g]
        BY <1>6, <2>2 DEF ServerType
  <2> QED BY <1>11, <2>1, <2>2
<1>13. ServerType'
      BY <1>3, <1>6, <1>7, <1>8, <1>9, <1>11, <1>12 DEF ServerType, threads
<1>14. OwnerInv' /\ \A d \in Client : Owns(d)' => Owns(d)
  <2>1. \A d \in Client : d # None
        BY IbioAssumption
  <2> QED BY <1>7, <2>1 DEF TypeInv, OpenInv, OwnerInv, Owns
<1>15. /\ UNCHANGED <<plan, call, wrote, got, main>>
       /\ \A d \in Client : readers'[d] + reading'[d] = readers[d] + reading[d]
      BY <1>3 DEF threads
<1> QED BY <1>3, <1>4, <1>5, <1>13, <1>14, <1>15, ServeStep

LEMMA WriteChunkType ==
    ASSUME TypeInv, NEW f \in Fd, WriteChunk(f)
    PROVE  TypeInv'
<1> DEFINE w == info[f].current_write_count
           n == info[f].write_count
           k == NextChunk(w, n)
           b == CacheBytes(f, w, k)
<1>1. /\ writers[f] > 0
      /\ IF info[f].fd = f THEN WriteOut(f, b) ELSE UNCHANGED <<file, pos>>
      /\ info' = [info EXCEPT ![f].current_write_count = w + k]
      /\ writers' = [writers EXCEPT ![f] = @ - 1]
      /\ UNCHANGED <<plan, call, wrote, got, aq, replies, owner, cache, fastmutex, readers, reading, main>>
      BY DEF WriteChunk
<1>2. /\ info \in [Fd -> InfoRecord] /\ ServerType /\ info[f] \in InfoRecord /\ w <= n
      BY DEF TypeInv, ServerType
<1>3. w \in Nat /\ n \in Nat
      BY <1>2, IbioAssumption DEF InfoRecord
<1>4. k \in Nat /\ w + k \in Nat /\ w + k <= n
      BY <1>2, <1>3, ChunkType
<1> HIDE DEF k
<1>5. b \in Seq(Byte)
      BY <1>3, <1>4, CacheBytesType
<1> HIDE DEF b
<1>6. /\ file' \in [Fd -> Seq(Byte)] /\ pos' \in [Fd -> Nat]
      /\ \A g \in Fd : pos'[g] <= Len(file'[g])
  <2>1. CASE WriteOut(f, b)
        BY <1>5, <2>1, WriteOutType
  <2>2. CASE UNCHANGED <<file, pos>>
        BY <1>2, <2>2 DEF ServerType
  <2> QED BY <1>1, <2>1, <2>2
<1>7. /\ info' \in [Fd -> InfoRecord] /\ \A g \in Fd : g # f => info'[g] = info[g]
      /\ info'[f].write_count = n /\ info'[f].current_write_count = w + k
      /\ info'[f].current_recv_size = info[f].current_recv_size
      BY <1>1, <1>2, <1>4 DEF InfoRecord
<1>8. \A g \in Fd : /\ info'[g].current_write_count <= info'[g].write_count
                    /\ info'[g].current_recv_size <= info'[g].write_count
  <2>1. info[f].current_recv_size <= n
        BY DEF TypeInv, ServerType
  <2> QED BY <1>4, <1>7, <2>1, CountsStep
<1>9. writers' \in [Fd -> Nat]
      BY <1>1, <1>2 DEF ServerType
<1>10. ServerType'
      BY <1>1, <1>2, <1>6, <1>7, <1>8, <1>9 DEF ServerType
<1>11. ClientType'
      BY <1>1 DEF TypeInv, ClientType
<1>12. OpenInv'
  <2>1. OwnerInv' /\ MainInv'
        BY <1>1 DEF TypeInv, OpenInv, OwnerInv, MainInv, Open
  <2>2. ASSUME NEW d \in Client PROVE OpenInvOf(d)'
    <3>1. Alike(d)
          BY <1>1 DEF Alike, Msgs, OrderedIn, Owns
    <3> QED BY <3>1, OpenAlike DEF TypeInv, OpenInv
  <2> QED BY <2>1, <2>2 DEF OpenInv
<1> QED BY <1>10, <1>11, <1>12 DEF TypeInv

LEMMA SreadLockType ==
    ASSUME TypeInv, NEW c \in Client, SreadLock(c)
    PROVE  TypeInv'
<1>1. PICK f : f = call[c].fd
      OBVIOUS
<1>2. /\ readers[c] > 0 /\ fastmutex' = [fastmutex EXCEPT ![f] = TRUE]
      /\ readers' = [readers EXCEPT ![c] = @ - 1] /\ reading' = [reading EXCEPT ![c] = @ + 1]
      /\ UNCHANGED <<plan, call, wrote, got, aq, replies, file, pos, owner, info, cache, writers, main>>
      BY <1>1 DEF SreadLock, FdOf
<1>3. readers \in [Client -> 0 .. MaxReaders] /\ reading \in [Client -> Nat] /\ MaxReaders \in Nat /\ ServerType
      BY IbioAssumption DEF TypeInv, ServerType
<1>4. Open(c) /\ f \in Fd
  <2>1. readers[c] + reading[c] > 0
        BY <1>2, <1>3
  <2> QED BY <1>1, <2>1 DEF TypeInv, OpenInv, OpenInvOf
<1>5. /\ readers' \in [Client -> 0 .. MaxReaders] /\ reading' \in [Client -> Nat]
      /\ \A d \in Client : d # c => readers'[d] = readers[d] /\ reading'[d] = reading[d]
  <2>1. readers[c] - 1 \in 0 .. MaxReaders /\ reading[c] + 1 \in Nat
        BY <1>2, <1>3
  <2> QED BY <1>2, <1>3, <2>1
<1>6. fastmutex' \in [Fd -> BOOLEAN]
      BY <1>2, <1>3 DEF ServerType
<1>7. ServerType'
      BY <1>2, <1>3, <1>5, <1>6 DEF ServerType
<1>8. OwnerInv' /\ \A d \in Client : Owns(d)' => Owns(d)
      BY <1>2 DEF TypeInv, OpenInv, OwnerInv, Owns
<1>9. main.pc = "probe" => main.c = None
      BY DEF TypeInv, OpenInv, MainInv
<1> QED BY <1>2, <1>4, <1>5, <1>7, <1>8, <1>9, ServeStep

\* The chunks of a read: the last begins before its end.
LEMMA ChunksOfRead ==
    ASSUME NEW n \in Nat, NEW m, m = (n + ChunkSize - 1) \div ChunkSize
    PROVE  /\ m \in Nat /\ m * ChunkSize \in Nat /\ n <= m * ChunkSize
           /\ \A k \in 1 .. m : (k - 1) * ChunkSize \in Nat /\ (k - 1) * ChunkSize < n
           /\ n > 0 => m > 0
<1>1. ChunkSize \in Nat /\ ChunkSize > 0
      BY Multiples
<1>2. PICK z \in Nat : z = n + ChunkSize - 1
      BY <1>1
<1>3. m \in Nat /\ ChunkSize * m <= z /\ z < ChunkSize * (m + 1)
  <2>1. m = z \div ChunkSize
        BY <1>2
  <2>2. m \in Nat
        BY <1>1, <1>2, <2>1
  <2>3. z \div ChunkSize \in Int /\ z = ChunkSize * (z \div ChunkSize) + (z % ChunkSize) /\ z % ChunkSize \in 0 .. ChunkSize - 1
        BY <1>1, <1>2
  <2>4. PICK p \in Int : p = ChunkSize * m /\ ChunkSize * (m + 1) = p + ChunkSize
        BY <1>1, <2>2
  <2> QED BY <1>1, <1>2, <2>1, <2>2, <2>3, <2>4
<1>4. PICK p \in Nat : p = m * ChunkSize /\ p <= z /\ z < p + ChunkSize
  <2>1. m * ChunkSize \in Nat /\ m * ChunkSize = ChunkSize * m /\ ChunkSize * (m + 1) = m * ChunkSize + ChunkSize
        BY <1>1, <1>3
  <2> QED BY <1>3, <2>1
<1>5. n <= p
      BY <1>1, <1>2, <1>4
<1>6. ASSUME NEW k \in 1 .. m PROVE (k - 1) * ChunkSize \in Nat /\ (k - 1) * ChunkSize < n
  <2>1. PICK j \in Nat : j = k - 1 /\ j < m
        BY <1>3
  <2>2. (j + 1) * ChunkSize <= m * ChunkSize /\ (j + 1) * ChunkSize = j * ChunkSize + ChunkSize /\ j * ChunkSize \in Nat
        BY <1>3, <2>1, Multiples
  <2>3. j * ChunkSize < n
        BY <1>1, <1>2, <1>4, <2>2
  <2> QED BY <2>1, <2>2, <2>3
<1>7. n > 0 => m > 0
  <2>1. m = 0 => p = 0
        BY <1>4, Multiples
  <2> QED BY <1>3, <1>5, <2>1
<1> QED BY <1>3, <1>4, <1>5, <1>6, <1>7

\* What a read puts into the cache.
LEMMA FilledType ==
    ASSUME TypeInv, NEW f \in Fd, NEW size \in Nat, pos[f] + size <= Len(file[f])
    PROVE  Filled(f, size) \in [Place -> Byte]
<1>1. /\ file[f] \in Seq(Byte) /\ pos[f] \in Nat /\ cache[f] \in [Place -> Byte]
      BY DEF TypeInv, ServerType
<1>2. Len(file[f]) \in Nat /\ \A i \in 1 .. Len(file[f]) : file[f][i] \in Byte
      BY <1>1, LenProperties, ElementOfSeq
<1>3. ASSUME NEW p \in Place, p < size PROVE file[f][pos[f] + p + 1] \in Byte
  <2>1. p \in Nat
        BY IbioAssumption DEF Place
  <2>2. pos[f] + p + 1 \in 1 .. Len(file[f])
        BY <1>1, <1>2, <1>3, <2>1
  <2> QED BY <1>2, <2>2
<1> QED BY <1>1, <1>3 DEF Filled

\* The chunks that a read sends.
DataOf(c, n, m, filled) ==
    [k \in 1 .. m |-> Msg(c, "DATA", 0, [b \in 1 .. NextChunk((k - 1) * ChunkSize, n) |->
                                            filled[(k - 1) * ChunkSize + b - 1]])]

LEMMA DataType ==
    ASSUME NEW c \in Client, NEW n \in 0 .. CacheSize, NEW filled \in [Place -> Byte],
           NEW m, m = (n + ChunkSize - 1) \div ChunkSize
    PROVE  DataOf(c, n, m, filled) \in Seq(Answer) /\ Len(DataOf(c, n, m, filled)) = m
<1>1. n \in Nat /\ CacheSize \in Nat /\ n <= CacheSize
      BY IbioAssumption
<1>2. m \in Nat /\ \A k \in 1 .. m : (k - 1) * ChunkSize \in Nat /\ (k - 1) * ChunkSize < n
      BY <1>1, ChunksOfRead
<1>3. ASSUME NEW k \in 1 .. m
      PROVE  Msg(c, "DATA", 0, [b \in 1 .. NextChunk((k - 1) * ChunkSize, n) |->
                                            filled[(k - 1) * ChunkSize + b - 1]]) \in Answer
  <2>1. PICK d \in Nat : d = (k - 1) * ChunkSize /\ d < n
        BY <1>2
  <2>2. PICK l \in Nat : l = NextChunk(d, n) /\ d + l <= n
        BY <1>1, <2>1, ChunkType
  <2>3. \A b \in 1 .. l : filled[d + b - 1] \in Byte
    <3>1. \A b \in 1 .. l : d + b - 1 \in Place
          BY <1>1, <2>1, <2>2, SMTT(30) DEF Place
    <3> QED BY <3>1
  <2>4. [b \in 1 .. l |-> filled[d + b - 1]] \in Seq(Byte)
        BY <2>3, SeqDef
  <2>5. Msg(c, "DATA", 0, [b \in 1 .. l |-> filled[d + b - 1]]) \in Answer
        BY <2>4 DEF Msg, Answer
  <2> QED BY <2>1, <2>2, <2>5
<1>4. DataOf(c, n, m, filled) \in [1 .. m -> Answer]
      BY <1>3 DEF DataOf
<1> QED BY <1>2, <1>4, SeqDef, LenProperties

\* The names of what ibvio_sread does for client c.
Reads(c, f, i, n, m, size) ==
    /\ n = aq[i].count /\ m = (n + ChunkSize - 1) \div ChunkSize
    /\ size = IF pos[f] + m * ChunkSize > Len(file[f]) THEN Len(file[f]) - pos[f]
              ELSE m * ChunkSize
    /\ pos[f] + size <= Len(file[f])
    /\ cache' = [cache EXCEPT ![f] = Filled(f, size)]
    /\ pos' = [pos EXCEPT ![f] = @ + size]
    /\ replies' = [replies EXCEPT ![c] = @ \o DataOf(c, n, m, Filled(f, size))]

LEMMA SreadIs ==
    ASSUME TypeInv, NEW c \in Client, Sread(c), NEW f, f = call[c].fd, NEW i, i = FirstFrom(c, "READ")
    PROVE  /\ Open(c) /\ f \in Fd /\ i \in DOMAIN aq /\ aq[i].src = c /\ aq[i].op = "READ" /\ aq' = Without(i)
           /\ aq[i] \in Request /\ reading[c] > 0
           /\ \A j \in 1 .. i - 1 : ~IsFrom(c, "READ", j)
           /\ UNCHANGED <<plan, call, wrote, got, file, owner, info, writers, readers, main>>
           /\ Unlocked(c)
           /\ \E n \in 0 .. CacheSize, m \in Nat, size \in Nat : Reads(c, f, i, n, m, size)
<1> DEFINE n == aq[i].count
           m == (n + ChunkSize - 1) \div ChunkSize
           size == IF pos[f] + m * ChunkSize > Len(file[f]) THEN Len(file[f]) - pos[f] ELSE m * ChunkSize
<1>1. /\ reading[c] > 0 /\ \E j \in DOMAIN aq : IsFrom(c, "READ", j)
      /\ aq' = Without(i) /\ Unlocked(c)
      /\ UNCHANGED <<plan, call, wrote, got, file, owner, info, writers, readers, main>>
      BY DEF Sread
<1>2. /\ cache' = [cache EXCEPT ![f] = Filled(f, size)] /\ pos' = [pos EXCEPT ![f] = @ + size]
      /\ replies' = [replies EXCEPT ![c] = @ \o DataOf(c, n, m, Filled(f, size))]
      BY DEF Sread, FdOf, DataOf
<1>3. i \in DOMAIN aq /\ aq[i].src = c /\ aq[i].op = "READ" /\ \A j \in 1 .. i - 1 : ~IsFrom(c, "READ", j)
      BY <1>1, FirstFromIs DEF TypeInv, ClientType, IsFrom
<1>4. aq[i] \in Request /\ Open(c) /\ f \in Fd
      BY <1>3, MessageOf
<1>5. n \in 0 .. CacheSize /\ n \in Nat
      BY <1>4, RequestBytes
<1> HIDE DEF n
<1>6. m \in Nat /\ m * ChunkSize \in Nat
      BY <1>5, ChunksOfRead
<1> HIDE DEF m
<1>7. pos[f] \in Nat /\ Len(file[f]) \in Nat /\ pos[f] <= Len(file[f])
      BY <1>4, LenProperties DEF TypeInv, ServerType
<1>8. size \in Nat /\ pos[f] + size <= Len(file[f])
  <2>1. PICK p \in Nat : p = m * ChunkSize
        BY <1>6
  <2> QED BY <1>7, <2>1
<1>9. n = aq[i].count /\ m = (n + ChunkSize - 1) \div ChunkSize
      BY DEF n, m
<1>10. size = IF pos[f] + m * ChunkSize > Len(file[f]) THEN Len(file[f]) - pos[f] ELSE m * ChunkSize
      OBVIOUS
<1> HIDE DEF size
<1>11. Reads(c, f, i, n, m, size)
      BY <1>2, <1>8, <1>9, <1>10 DEF Reads
<1> QED BY <1>1, <1>3, <1>4, <1>5, <1>6, <1>8, <1>11

LEMMA SreadType ==
    ASSUME TypeInv, NEW c \in Client, Sread(c)
    PROVE  TypeInv'
<1>1. PICK f, i : f = call[c].fd /\ i = FirstFrom(c, "READ")
      OBVIOUS
<1>2. /\ Open(c) /\ f \in Fd /\ i \in DOMAIN aq /\ aq[i].src = c /\ aq' = Without(i)
      /\ reading[c] > 0 /\ Unlocked(c)
      /\ UNCHANGED <<plan, call, wrote, got, file, owner, info, writers, readers, main>>
      BY <1>1, SreadIs
<1>3. PICK n \in 0 .. CacheSize, m \in Nat, size \in Nat : Reads(c, f, i, n, m, size)
      BY <1>1, SreadIs
<1>4. PICK filled \in [Place -> Byte] : filled = Filled(f, size)
      BY <1>2, <1>3, FilledType DEF Reads
<1>5. \E s \in Seq(Answer) : replies' = [replies EXCEPT ![c] = s]
  <2>1. DataOf(c, n, m, filled) \in Seq(Answer) /\ replies[c] \in Seq(Answer)
        BY <1>3, DataType DEF TypeInv, ClientType, Reads
  <2>2. replies[c] \o DataOf(c, n, m, filled) \in Seq(Answer)
        BY <2>1, ConcatProperties
  <2> QED BY <1>3, <1>4, <2>2 DEF Reads
<1>6. ServerType
      BY DEF TypeInv
<1>7. cache' \in [Fd -> [Place -> Byte]] /\ pos' \in [Fd -> Nat]
      BY <1>2, <1>3, <1>4, <1>6, SMTT(30) DEF ServerType, Reads
<1>8. \A g \in Fd : pos'[g] <= Len(file'[g])
  <2>1. pos'[f] = pos[f] + size /\ \A g \in Fd : g # f => pos'[g] = pos[g]
        BY <1>2, <1>3, <1>6 DEF ServerType, Reads
  <2> QED BY <1>2, <1>3, <1>6, <2>1 DEF ServerType, Reads
<1>9. /\ fastmutex' \in [Fd -> BOOLEAN] /\ reading' \in [Client -> Nat]
      /\ \A d \in Client : d # c => reading'[d] = reading[d]
  <2>1. reading[c] - 1 \in Nat
        BY <1>2, <1>6 DEF ServerType
  <2> QED BY <1>1, <1>2, <1>6, <2>1 DEF ServerType, Unlocked
<1>10. ServerType'
      BY <1>2, <1>6, <1>7, <1>8, <1>9 DEF ServerType
<1>11. OwnerInv' /\ \A d \in Client : Owns(d)' => Owns(d)
      BY <1>2 DEF TypeInv, OpenInv, OwnerInv, Owns
<1>12. main.pc = "probe" => main.c = None
      BY DEF TypeInv, OpenInv, MainInv
<1> QED BY <1>2, <1>5, <1>9, <1>10, <1>11, <1>12, ServeStep

LEMMA InitType ==
    ASSUME Init
    PROVE  TypeInv
<1>1. 0 \in 0 .. CacheSize /\ 0 \in 0 .. MaxReaders
      BY IbioAssumption
<1>2. Idle \in CallRecord /\ Idle.sent <= Idle.count /\ Idle.pc = "idle"
      BY <1>1 DEF Idle, CallRecord
<1>3. Zero \in InfoRecord /\ Zero.current_write_count <= Zero.write_count /\ Zero.current_recv_size <= Zero.write_count
      BY <1>1 DEF Zero, InfoRecord
<1>4. Probe \in MainRecord /\ Probe.pc = "probe" /\ Probe.c = None
      BY <1>1 DEF Probe, MainRecord
<1>5. <<>> \in Seq(Byte) /\ <<>> \in Seq(Request) /\ <<>> \in Seq(Answer) /\ Len(<<>>) = 0
      BY EmptySeq
<1>6. ClientType
  <2>1. call \in [Client -> CallRecord] /\ \A c \in Client : call[c].sent <= call[c].count
        BY <1>2 DEF Init
  <2> QED BY <1>5, <2>1 DEF Init, ClientType
<1>7. ServerType
  <2>1. /\ info \in [Fd -> InfoRecord]
        /\ \A f \in Fd : /\ info[f].current_write_count <= info[f].write_count
                         /\ info[f].current_recv_size <= info[f].write_count
        BY <1>3 DEF Init
  <2>2. file \in [Fd -> Seq(Byte)] /\ pos \in [Fd -> Nat] /\ \A f \in Fd : pos[f] <= Len(file[f])
        BY <1>5 DEF Init
  <2>3. cache \in [Fd -> [Place -> Byte]]
        BY DEF Init, Byte
  <2> QED BY <1>1, <1>4, <2>1, <2>2, <2>3 DEF Init, ServerType
<1>8. \A c \in Client : ~Owns(c)
      BY IbioAssumption DEF Init, Owns
<1>9. \A c \in Client : Msgs(c) = {}
      BY <1>5, QueueOf DEF Init, Msgs, MsgsIn
<1>10. \A c \in Client : OpenInvOf(c)
      BY <1>2, <1>8, <1>9 DEF Init, OpenInvOf, Open
<1>11. OwnerInv
      BY DEF Init, OwnerInv
<1>12. MainInv
      BY <1>4 DEF Init, MainInv
<1> QED BY <1>6, <1>7, <1>10, <1>11, <1>12 DEF TypeInv, OpenInv

\* TypeInv reads the variables and nothing else.
LEMMA StutterType ==
    ASSUME TypeInv, UNCHANGED vars
    PROVE  TypeInv'
<1>1. ClientType' /\ ServerType'
      BY DEF TypeInv, ClientType, ServerType, vars
<1>2. OwnerInv' /\ MainInv'
      BY DEF TypeInv, OpenInv, OwnerInv, MainInv, Open, vars
<1>3. ASSUME NEW d \in Client PROVE OpenInvOf(d)'
  <2>1. Alike(d)
        BY DEF Alike, Msgs, OrderedIn, Owns, vars
  <2> QED BY <2>1, OpenAlike DEF TypeInv, OpenInv
<1> QED BY <1>1, <1>2, <1>3 DEF TypeInv, OpenInv

\* What each kind of step is.
LEMMA NextIs ==
    ASSUME Next
    PROVE  \/ \E c \in Client : \/ OpenCall(c)
                                \/ \E op \in plan.ops, n \in plan.counts \cup {0} :
                                      (op = "close" <=> n = 0) /\ Begin(c, op, n)
                                \/ OpenReturns(c) \/ SendChunk(c) \/ WriteReturns(c)
                                \/ ReadChunk(c) \/ CloseReturns(c) \/ SreadLock(c) \/ Sread(c)
           \/ \E f \in Fd : WriteChunk(f)
           \/ (Sopen \/ SwriteBegin \/ SwriteChunk \/ SwriteAck \/ SwriteHeader \/ SwriteRecv
                 \/ SwriteWrite \/ SwriteReply \/ SreadAsync \/ Sclose) /\ plan' = plan
BY DEF Next, CallAny, CallStep, MainLoop

LEMMA NextType ==
    ASSUME TypeInv, [Next]_vars
    PROVE  TypeInv'
<1>1. CASE UNCHANGED vars
      BY <1>1, StutterType
<1>2. ASSUME NEW c \in Client, OpenCall(c) PROVE TypeInv'
      BY <1>2, OpenCallType
<1>3. ASSUME NEW c \in Client, NEW op \in plan.ops, NEW n \in plan.counts \cup {0}, Begin(c, op, n)
      PROVE  TypeInv'
      BY <1>3, BeginType
<1>4. ASSUME NEW c \in Client, OpenReturns(c) PROVE TypeInv'
      BY <1>4, OpenReturnsType
<1>5. ASSUME NEW c \in Client, SendChunk(c) PROVE TypeInv'
      BY <1>5, SendChunkType
<1>6. ASSUME NEW c \in Client, WriteReturns(c) \/ CloseReturns(c) PROVE TypeInv'
      BY <1>6, ReturnsType
<1>7. ASSUME NEW c \in Client, ReadChunk(c) PROVE TypeInv'
      BY <1>7, ReadChunkType
<1>8. ASSUME NEW c \in Client, SreadLock(c) PROVE TypeInv'
      BY <1>8, SreadLockType
<1>9. ASSUME NEW c \in Client, Sread(c) PROVE TypeInv'
      BY <1>9, SreadType
<1>10. ASSUME NEW f \in Fd, WriteChunk(f) PROVE TypeInv'
      BY <1>10, WriteChunkType
<1>11. CASE plan' = plan /\ (Sopen \/ SwriteBegin \/ SwriteChunk \/ SwriteAck)
      BY <1>11, SopenType, SwriteBeginType, SwriteChunkType, SwriteAckType
<1>12. CASE plan' = plan /\ (SwriteHeader \/ SwriteRecv \/ SwriteWrite \/ SwriteReply \/ SreadAsync \/ Sclose)
      BY <1>12, SwriteHeaderType, SwriteRecvType, SwriteWriteType, SwriteReplyType, SreadAsyncType, ScloseType
<1> QED BY <1>1, <1>2, <1>3, <1>4, <1>5, <1>6, <1>7, <1>8, <1>9, <1>10, <1>11, <1>12, NextIs

----------------------------------------------------------------------------
(* The calls: what a step leaves alone of client d, and of the server *)

Same(d) ==
    /\ Msgs(d)' = Msgs(d) /\ (OrderedIn(aq, d) => OrderedIn(aq, d)')
    /\ replies'[d] = replies[d] /\ call'[d] = call[d] /\ wrote'[d] = wrote[d]
    /\ main.c = d => main'.c = main.c /\ main'.count = main.count /\ main'.recv = main.recv
    /\ main.c # d => main'.c # d
    /\ Open(d) => LET f == call[d].fd IN
         owner'[f] = owner[f] /\ info'[f] = info[f] /\ writers'[f] = writers[f]
    /\ call[d].pc = "open" /\ replies[d] # <<>> =>
         owner'[replies[d][1].count] = owner[replies[d][1].count]

LEMMA CallAlike ==
    ASSUME NEW d \in Client, CallInvOf(d), Same(d)
    PROVE  CallInvOf(d)'
<1>1. /\ Open(d)' = Open(d) /\ Heads(d)' = Heads(d) /\ Base(d)' = Base(d) /\ call'[d] = call[d]
      /\ Open(d) => InfoOf(d)' = InfoOf(d)
      BY DEF Same, Open, Heads, Base, InfoOf
<1>2. ASSUME Open(d), call[d].pc \in {"write", "dwrite"}
      PROVE  Heads(d) # {} \/ call[d].pc = "write" \/ main.c = d => Recv(d)' = Recv(d)
      BY <1>1, <1>2 DEF Recv, Same
<1>3. ASSUME call[d].pc \in {"write", "dwrite"}, WriteInv(d) PROVE WriteInv(d)'
  <2>0. Open(d)
        BY <1>3 DEF Open
  <2>1. OrderedIn(aq, d)' /\ call'[d].sent <= wrote'[d] /\ call'[d].count > 0
        BY <1>3 DEF Same, WriteInv
  <2>2. CASE Answered(d)
    <3>1. Answered(d)'
          BY <1>1, <2>0, <2>2 DEF Answered, Same
    <3> QED BY <2>1, <3>1 DEF WriteInv
  <2>3. CASE (Begins(d) \/ Receives(d) \/ WritesOut(d) \/ Swrites(d)) /\ Sending(d)
    <3>1. Recv(d)' = Recv(d)
          BY <1>2, <1>3, <2>0, <2>3 DEF Begins, Receives, WritesOut, Swrites
    <3>2. Sending(d)'
          BY <1>1, <2>3, <3>1 DEF Sending, Same
    <3>3. CASE Begins(d)
      <4>1. Begins(d)'
            BY <1>1, <3>3 DEF Begins, Same
      <4> QED BY <2>1, <3>2, <4>1 DEF WriteInv
    <3>4. CASE Receives(d)
      <4>1. Receives(d)'
            BY <1>1, <2>0, <3>1, <3>4 DEF Receives, Same
      <4> QED BY <2>1, <3>2, <4>1 DEF WriteInv
    <3>5. CASE WritesOut(d)
      <4>1. WritesOut(d)'
            BY <1>1, <2>0, <3>1, <3>5 DEF WritesOut, Same
      <4> QED BY <2>1, <3>2, <4>1 DEF WriteInv
    <3>6. CASE Swrites(d)
      <4>1. Swrites(d)'
            BY <1>1, <3>6 DEF Swrites, Same
      <4> QED BY <2>1, <3>2, <4>1 DEF WriteInv
    <3> QED BY <2>3, <3>3, <3>4, <3>5, <3>6
  <2> QED BY <1>3, <2>2, <2>3 DEF WriteInv
<1>4. ASSUME ReadInv(d) PROVE ReadInv(d)'
      BY <1>4 DEF ReadInv, Same
<1>5. ASSUME Open(d), writers[call[d].fd] > 0 PROVE (Receives(d) \/ WritesOut(d))'
  <2>1. Receives(d) \/ WritesOut(d)
        BY <1>5 DEF CallInvOf
  <2>2. Recv(d)' = Recv(d)
        BY <1>1, <1>5, <2>1 DEF Recv, Same, Receives, WritesOut
  <2>3. CASE Receives(d)
    <3>1. Receives(d)'
          BY <1>1, <1>5, <2>2, <2>3 DEF Receives, Same
    <3> QED BY <3>1
  <2>4. CASE WritesOut(d)
    <3>1. WritesOut(d)'
          BY <1>1, <1>5, <2>2, <2>4 DEF WritesOut, Same
    <3> QED BY <3>1
  <2> QED BY <2>1, <2>3, <2>4
<1>6. /\ Open(d)' => owner'[call'[d].fd] = d
      /\ call'[d].pc = "open" /\ replies'[d] # <<>> => owner'[replies'[d][1].count] = d
      /\ call'[d].pc \notin {"close", "closed"}
      /\ call'[d].pc = "ready" => Msgs(d)' = {} /\ replies'[d] = <<>> /\ main'.c # d
      BY <1>1 DEF CallInvOf, Same
<1>7. Open(d)' /\ writers'[call'[d].fd] > 0 => (Receives(d) \/ WritesOut(d))'
      BY <1>1, <1>5 DEF Same
<1>8. /\ call'[d].pc \in {"write", "dwrite"} => WriteInv(d)'
      /\ call'[d].pc = "read" => ReadInv(d)'
      BY <1>1, <1>3, <1>4 DEF CallInvOf
<1> QED BY <1>6, <1>7, <1>8 DEF CallInvOf

\* Two clients never have the same descriptor.
LEMMA OwnDescriptors ==
    ASSUME TypeInv, CallInv, NEW c \in Client, NEW d \in Client, c # d, Open(c), Open(d)
    PROVE  call[c].fd \in Fd /\ call[d].fd \in Fd /\ call[c].fd # call[d].fd
BY DEF TypeInv, OpenInv, OpenInvOf, CallInv, CallInvOf

\* A step for client c.
LEMMA CallsStep ==
    ASSUME CallInv, NEW c \in Client, \A d \in Client : d # c => Same(d), CallInvOf(c)', ServeInv'
    PROVE  CallInv'
<1>1. ASSUME NEW d \in Client PROVE CallInvOf(d)'
  <2>1. CASE d # c
        BY <2>1, CallAlike DEF CallInv
  <2> QED BY <2>1
<1> QED BY <1>1 DEF CallInv

\* A step of client c: the server does nothing.
LEMMA ClientCalls ==
    ASSUME TypeInv, CallInv, CountInv, NEW c \in Client, UNCHANGED server,
           \A d \in Client : d # c => /\ Msgs(d)' = Msgs(d) /\ (OrderedIn(aq, d) => OrderedIn(aq, d)')
                                      /\ replies'[d] = replies[d] /\ call'[d] = call[d]
                                      /\ wrote'[d] = wrote[d],
           main.c = c => call'[c].pc = call[c].pc,
           Open(c) => Open(c)' /\ call'[c].fd = call[c].fd,
           CallInvOf(c)'
    PROVE  CallInv' /\ CountInv'
<1>1. CountInv'
      BY DEF CountInv, server
<1>2. ASSUME NEW d \in Client, d # c PROVE Same(d)
      BY <1>2 DEF Same, server
<1>3. ServeInv'
  <2>1. main' = main /\ writers' = writers
        BY DEF server
  <2>2. \A d \in Client : Open(d) => Open(d)' /\ call'[d].fd = call[d].fd
        BY DEF Open
  <2>3. main.pc # "probe" => main.c \in Client
        BY DEF TypeInv, OpenInv, MainInv
  <2>4. main.pc # "probe" => call'[main.c].pc = call[main.c].pc
        BY <2>3
  <2>5. \A f \in Fd : writers[f] > 0 => \E d \in Client : Open(d) /\ call[d].fd = f
        BY DEF CallInv, ServeInv
  <2>6. ASSUME NEW f \in Fd, writers[f] > 0 PROVE \E d \in Client : Open(d)' /\ call'[d].fd = f
        BY <2>2, <2>5, <2>6
  <2>7. /\ main.pc = "ack" => call'[main.c].pc = "write"
        /\ main.pc = "swrite" => call'[main.c].pc = "dwrite"
        BY <2>4 DEF CallInv, ServeInv
  <2> QED BY <2>1, <2>6, <2>7 DEF ServeInv
<1> QED BY <1>1, <1>2, <1>3, CallsStep

----------------------------------------------------------------------------
(* The calls: the steps of a client *)

LEMMA OpenCallCalls ==
    ASSUME TypeInv, CallInv, CountInv, NEW c \in Client, OpenCall(c)
    PROVE  CallInv' /\ CountInv'
<1> DEFINE x == Msg(c, "OPEN", 0, <<>>)
<1>1. x \in Request /\ x.src = c
      BY IbioAssumption DEF Msg, Request
<1>2. call \in [Client -> CallRecord]
      BY DEF TypeInv, ClientType
<1>3. /\ aq' = Append(aq, x) /\ call[c].pc = "idle" /\ UNCHANGED <<wrote, got, replies, server>>
      /\ call'[c].pc = "open" /\ \A d \in Client : d # c => call'[d] = call[d]
      BY <1>2 DEF OpenCall, Send, CallRecord
<1> HIDE DEF x
<1>4. \A d \in Client : d # c => Msgs(d)' = Msgs(d) /\ (OrderedIn(aq, d) => OrderedIn(aq, d)')
      BY <1>1, <1>3, SendStep DEF TypeInv
<1>5. replies'[c] = <<>> /\ main.c # c
  <2>1. replies[c] = <<>>
        BY <1>3 DEF TypeInv, OpenInv, OpenInvOf
  <2>2. ~Open(c)
        BY <1>3 DEF Open
  <2>3. main.c # c
        BY <2>2, IbioAssumption DEF TypeInv, OpenInv, MainInv
  <2> QED BY <1>3, <2>1, <2>3
<1>6. CallInvOf(c)'
      BY <1>3, <1>5 DEF CallInvOf, Open
<1> QED BY <1>3, <1>4, <1>5, <1>6, ClientCalls DEF Open

LEMMA OpenReturnsCalls ==
    ASSUME TypeInv, CallInv, CountInv, NEW c \in Client, OpenReturns(c)
    PROVE  CallInv' /\ CountInv'
<1>1. call \in [Client -> CallRecord]
      BY DEF TypeInv, ClientType
<1>2. /\ call[c].pc = "open" /\ replies[c] # <<>> /\ replies' = [replies EXCEPT ![c] = Tail(@)]
      /\ UNCHANGED <<wrote, got, aq, server>>
      /\ call'[c].pc = "ready" /\ call'[c].fd = Head(replies[c]).count
      /\ \A d \in Client : d # c => call'[d] = call[d]
      BY <1>1 DEF OpenReturns, Idle
<1>3. Msgs(c) = {} /\ Len(replies[c]) = 1 /\ replies[c][1].count \in Fd
  <2>1. Opening(c)
        BY <1>2 DEF TypeInv, OpenInv, OpenInvOf
  <2> QED BY <1>2, <2>1 DEF Opening
<1>4. /\ Head(replies[c]) = replies[c][1] /\ replies'[c] = Tail(replies[c])
      /\ Tail(replies[c]) \in Seq(Answer) /\ Len(Tail(replies[c])) = Len(replies[c]) - 1
      /\ \A d \in Client : d # c => replies'[d] = replies[d]
      BY <1>2, TailOfReplies
<1>5. replies'[c] = <<>>
      BY <1>2, <1>3, TailOfReplies
<1>6. ~Open(c) /\ main.c # c
  <2>1. ~Open(c)
        BY <1>2 DEF Open
  <2> QED BY <2>1, IbioAssumption DEF TypeInv, OpenInv, MainInv
<1>7. owner[call'[c].fd] = c /\ call'[c].fd \in Fd
      BY <1>2, <1>3, <1>4 DEF CallInv, CallInvOf
<1>8. ~ (writers[call'[c].fd] > 0)
  <2>1. \A d \in Client : Open(d) => owner[call[d].fd] = d
        BY DEF CallInv, CallInvOf
  <2> QED BY <1>6, <1>7, <2>1 DEF CallInv, ServeInv
<1>9. \A d \in Client : Msgs(d)' = Msgs(d) /\ (OrderedIn(aq, d) => OrderedIn(aq, d)')
      BY <1>2 DEF Msgs, OrderedIn
<1>10. main' = main /\ writers' = writers /\ owner' = owner
      BY <1>2 DEF server
<1>11. CallInvOf(c)'
  <2>1. Msgs(c)' = {} /\ main'.c # c
        BY <1>3, <1>6, <1>9, <1>10
  <2>2. owner'[call'[c].fd] = c /\ ~ (writers'[call'[c].fd] > 0)
        BY <1>7, <1>8, <1>10
  <2> QED BY <1>2, <1>5, <2>1, <2>2 DEF CallInvOf
<1> QED BY <1>2, <1>4, <1>6, <1>9, <1>11, ClientCalls

LEMMA BeginCalls ==
    ASSUME TypeInv, Plain, CallInv, CountInv, NEW c \in Client, NEW op \in plan.ops,
           NEW n \in plan.counts \cup {0}, op = "close" <=> n = 0, Begin(c, op, n)
    PROVE  CallInv' /\ CountInv'
<1> DEFINE x == Msg(c, Header[op], n, <<>>)
<1>1. /\ call \in [Client -> CallRecord] /\ plan \in Plans /\ call[c] \in CallRecord /\ wrote[c] \in Nat
      BY DEF TypeInv, ClientType
<1>2. op \in {"write", "dwrite", "read"} /\ n \in 0 .. CacheSize /\ n \in Nat /\ n > 0
  <2>1. CacheSize \in Nat /\ plan.counts \subseteq 1 .. CacheSize /\ plan.ops \subseteq Calls
        BY <1>1, IbioAssumption DEF Calls
  <2>2. op # "close"
        BY DEF Plain
  <2>3. n # 0
        BY <2>2
  <2> QED BY <2>1, <2>2, <2>3 DEF Calls
<1>3. /\ call[c].pc = "ready" /\ aq' = Append(aq, x) /\ UNCHANGED <<wrote, got, replies, server>>
      BY DEF Begin, Send
<1>4. /\ call'[c].pc = op /\ call'[c].count = n /\ call'[c].sent = 0 /\ call'[c].fd = call[c].fd
      /\ \A d \in Client : d # c => call'[d] = call[d]
      BY <1>1, <1>2 DEF Begin, CallRecord
<1>5. x \in Request /\ x.src = c /\ x.op = Header[op] /\ x.count = n /\ x.bytes = <<>>
      BY <1>2 DEF Msg, Request, Header
<1> HIDE DEF x
<1>6. Msgs(c) = {} /\ replies[c] = <<>> /\ main.c # c /\ Open(c) /\ owner[call[c].fd] = c
      BY <1>3 DEF CallInv, CallInvOf, Open
<1>7. /\ \A d \in Client : d # c => Msgs(d)' = Msgs(d) /\ (OrderedIn(aq, d) => OrderedIn(aq, d)')
      /\ Msgs(c)' = {x}
      BY <1>3, <1>5, <1>6, SendStep DEF TypeInv
<1>8. OrderedIn(aq, c)'
  <2>1. OrderedIn(aq, c)
    <3>1. \A i \in DOMAIN aq : aq[i].src # c
          BY <1>6, QueueOf DEF TypeInv, ClientType, Msgs
    <3> QED BY <3>1 DEF OrderedIn
  <2> QED BY <1>3, <1>5, <1>6, <2>1, SendStep DEF TypeInv
<1>9. /\ main' = main /\ writers' = writers /\ owner' = owner /\ replies'[c] = <<>> /\ wrote'[c] = wrote[c]
      /\ main'.c # c
      BY <1>3, <1>6 DEF server
<1>10. ~ (writers[call[c].fd] > 0)
      BY <1>3, <1>6 DEF CallInv, CallInvOf, Receives, WritesOut
<1>11. CASE op \in {"write", "dwrite"}
  <2>1. Heads(c)' = {x}
        BY <1>5, <1>7 DEF Heads, HeadsOf
  <2>2. Recv(c)' = 0
        BY <2>1 DEF Recv
  <2>3. Sends({x}, op, n, 0, wrote[c], 0)
        BY <1>2, <1>5, SendsStart
  <2>4. Base(c)' = wrote[c]
        BY <1>1, <1>4, <1>9 DEF Base
  <2>5. Sending(c)'
        BY <1>4, <1>7, <2>2, <2>3, <2>4 DEF Sending
  <2>6. Begins(c)'
        BY <1>9, <2>1 DEF Begins
  <2>7. WriteInv(c)'
        BY <1>1, <1>2, <1>4, <1>8, <1>9, <2>5, <2>6 DEF WriteInv
  <2>8. CallInvOf(c)'
        BY <1>4, <1>6, <1>9, <1>10, <1>11, <2>7 DEF CallInvOf
  <2> QED BY <1>3, <1>4, <1>6, <1>7, <1>11, <2>8, ClientCalls DEF Open
<1>12. CASE op = "read"
  <2>1. x.op = "READ"
        BY <1>5, <1>12 DEF Header
  <2>2. ReadInv(c)'
        BY <1>2, <1>4, <1>5, <1>7, <1>8, <1>9, <2>1 DEF ReadInv
  <2>3. CallInvOf(c)'
        BY <1>4, <1>6, <1>9, <1>10, <1>12, <2>2 DEF CallInvOf
  <2> QED BY <1>3, <1>4, <1>6, <1>7, <1>12, <2>3, ClientCalls DEF Open
<1> QED BY <1>2, <1>11, <1>12

LEMMA SendChunkCalls ==
    ASSUME TypeInv, CallInv, CountInv, NEW c \in Client, SendChunk(c)
    PROVE  /\ CallInv' /\ CountInv' /\ Heads(c)' = Heads(c) /\ Base(c)' = Base(c)
           /\ \A d \in Client : d # c => Msgs(d)' = Msgs(d)
<1> DEFINE k == NextChunk(call[c].sent, call[c].count)
           b == [i \in 1 .. k |-> wrote[c] + i]
           op == ChunkOp(call[c].pc)
           x == Msg(c, op, k, b)
<1>1. /\ call \in [Client -> CallRecord] /\ call[c] \in CallRecord
      /\ wrote \in [Client -> Nat] /\ wrote[c] \in Nat /\ call[c].sent <= call[c].count
      BY DEF TypeInv, ClientType
<1>2. /\ call[c].pc \in {"write", "dwrite"} /\ call' = [call EXCEPT ![c].sent = @ + k]
      /\ aq' = Append(aq, x) /\ wrote' = [wrote EXCEPT ![c] = @ + k]
      /\ UNCHANGED <<got, replies, server>> /\ call[c].sent < call[c].count
      BY DEF SendChunk, Send, ChunkOp
<1>3. call[c].sent \in Nat /\ call[c].count \in 0 .. CacheSize /\ CacheSize \in Nat /\ call[c].count \in Nat
      BY <1>1, IbioAssumption DEF CallRecord
<1>4. PICK sent \in Nat, n \in Nat, w \in Nat : sent = call[c].sent /\ n = call[c].count /\ w = wrote[c]
      BY <1>1, <1>3
<1>5. k = NextChunk(sent, n) /\ k \in Nat /\ sent + k \in Nat /\ sent + k <= n
      BY <1>1, <1>4, ChunkType
<1>6. WriteInv(c) /\ Open(c) /\ owner[call[c].fd] = c
      BY <1>2 DEF CallInv, CallInvOf, Open
<1>7. PICK base \in Nat : base = Base(c) /\ base + sent = w
  <2>1. sent <= w
        BY <1>4, <1>6 DEF WriteInv
  <2> QED BY <1>4, <2>1 DEF Base
<1>8. Sending(c) /\ (Begins(c) \/ Receives(c) \/ WritesOut(c) \/ Swrites(c)) /\ OrderedIn(aq, c) /\ n > 0
  <2>1. ~Answered(c)
        BY <1>2, <1>3 DEF Answered
  <2> QED BY <1>4, <1>6, <2>1 DEF WriteInv
<1>9. Recv(c) \in Nat /\ ~WritesOut(c)
  <2>1. \E a \in Nat : Recv(c) = Upto(a, n)
        BY <1>4, <1>8 DEF Sending, Sends
  <2>2. Recv(c) \in Nat
        BY <2>1, Ends
  <2>3. Recv(c) <= sent
        BY <1>4, <1>8 DEF Sending, Sends
  <2> QED BY <1>2, <1>4, <2>2, <2>3 DEF WritesOut
<1>10. b = Bytes(base + sent, k)
      BY <1>4, <1>5, <1>7 DEF Bytes
<1>11. b \in Seq(Nat) /\ k \in 0 .. CacheSize
  <2>1. k \in 0 .. CacheSize
        BY <1>3, <1>4, <1>5
  <2> HIDE DEF k
  <2>2. b \in Seq(Nat)
        BY <1>1, <1>5, SeqDef
  <2> QED BY <2>1, <2>2
<1> HIDE DEF k, b
<1>12. x \in Request /\ x.src = c /\ x.bytes = b /\ x.op = op
      BY <1>11 DEF Msg, Request, ChunkOp
<1>13. /\ Sends(Msgs(c) \cup {x}, call[c].pc, n, sent + k, base, Recv(c))
       /\ (\A y \in Msgs(c) : Sooner(y, x)) /\ x.bytes # <<>>
  <2>1. Sends(Msgs(c), call[c].pc, n, sent, base, Recv(c)) /\ sent < n
        BY <1>2, <1>4, <1>7, <1>8 DEF Sending
  <2>2. Msgs(c) \subseteq Request
        BY DEF Msgs, MsgsIn
  <2>3. x.bytes = Bytes(base + sent, NextChunk(sent, n))
        BY <1>5, <1>10, <1>12
  <2>4. x.op = ChunkOp(call[c].pc)
        BY <1>12
  <2> HIDE DEF x, op
  <2>5. PICK recv \in Nat : recv = Recv(c)
        BY <1>9
  <2>6. PICK M, pc : M = Msgs(c) /\ pc = call[c].pc
        OBVIOUS
  <2>7. PICK z \in Request : z = x
        BY <1>12
  <2>8. /\ Sends(M, pc, n, sent, base, recv) /\ sent < n /\ M \subseteq Request
        /\ z.op = ChunkOp(pc)
        /\ z.bytes = Bytes(base + sent, NextChunk(sent, n))
        BY <2>1, <2>2, <2>3, <2>4, <2>5, <2>6, <2>7
  <2>9. /\ Sends(M \cup {z}, pc, n, sent + NextChunk(sent, n), base, recv)
        /\ (\A y \in M : Sooner(y, z)) /\ z.bytes # <<>>
        BY <2>8, SendsMore
  <2> QED BY <1>5, <2>5, <2>6, <2>7, <2>9
<1> HIDE DEF x, op
<1>14. /\ \A d \in Client : d # c => Msgs(d)' = Msgs(d) /\ (OrderedIn(aq, d) => OrderedIn(aq, d)')
       /\ Msgs(c)' = Msgs(c) \cup {x} /\ OrderedIn(aq, c)'
      BY <1>2, <1>8, <1>12, <1>13, SendStep DEF TypeInv
<1>15. /\ call'[c].pc = call[c].pc /\ call'[c].count = call[c].count /\ call'[c].fd = call[c].fd
       /\ call'[c].sent = sent + k /\ wrote'[c] = w + k
       /\ \A d \in Client : d # c => call'[d] = call[d] /\ wrote'[d] = wrote[d]
      BY <1>1, <1>2, <1>4, <1>5 DEF CallRecord
<1>16. /\ main' = main /\ writers' = writers /\ owner' = owner /\ replies'[c] = replies[c] /\ info' = info
      BY <1>2 DEF server
<1>17. Heads(c)' = Heads(c)
      BY <1>13, <1>14 DEF Heads, HeadsOf
<1>18. InfoOf(c)' = InfoOf(c) /\ Recv(c)' = Recv(c)
      BY <1>15, <1>16, <1>17 DEF Recv, InfoOf
<1>19. Base(c)' = base
      BY <1>5, <1>7, <1>15 DEF Base
<1>20. Sending(c)'
      BY <1>4, <1>13, <1>14, <1>15, <1>18, <1>19 DEF Sending
<1>21. (Begins(c)' \/ Receives(c)' \/ Swrites(c)') /\ (Receives(c) => Receives(c)')
      BY <1>8, <1>9, <1>15, <1>16, <1>17, <1>18 DEF Begins, Receives, Swrites
<1>22. WriteInv(c)'
  <2>1. call'[c].sent <= wrote'[c] /\ call'[c].count > 0
        BY <1>4, <1>5, <1>7, <1>8, <1>15
  <2> QED BY <1>14, <1>20, <1>21, <2>1 DEF WriteInv
<1>23. CallInvOf(c)'
  <2>1. writers[call[c].fd] > 0 => Receives(c)
        BY <1>6, <1>9 DEF CallInv, CallInvOf
  <2> QED BY <1>2, <1>6, <1>15, <1>16, <1>21, <1>22, <2>1 DEF CallInvOf
<1>24. CallInv' /\ CountInv'
      BY <1>2, <1>14, <1>15, <1>23, ClientCalls DEF Open
<1> QED BY <1>7, <1>14, <1>17, <1>19, <1>24

LEMMA WriteReturnsCalls ==
    ASSUME TypeInv, CallInv, CountInv, NEW c \in Client, WriteReturns(c)
    PROVE  CallInv' /\ CountInv'
<1>1. call \in [Client -> CallRecord]
      BY DEF TypeInv, ClientType
<1>2. /\ call[c].pc \in {"write", "dwrite"} /\ replies[c] # <<>> /\ replies' = [replies EXCEPT ![c] = Tail(@)]
      /\ UNCHANGED <<wrote, got, aq, server>>
      /\ call'[c].pc = "ready" /\ call'[c].fd = call[c].fd
      /\ \A d \in Client : d # c => call'[d] = call[d]
      BY <1>1 DEF WriteReturns, CallRecord
<1>3. Open(c) /\ owner[call[c].fd] = c /\ WriteInv(c)
      BY <1>2 DEF CallInv, CallInvOf, Open
<1>4. Msgs(c) = {} /\ Len(replies[c]) = 1 /\ main.c # c
      BY <1>2, <1>3 DEF WriteInv, Begins, Receives, WritesOut, Swrites, Answered
<1>5. ~ (writers[call[c].fd] > 0)
      BY <1>2, <1>3 DEF CallInv, CallInvOf, Receives, WritesOut
<1>6. /\ replies'[c] = Tail(replies[c]) /\ Tail(replies[c]) \in Seq(Answer)
      /\ Len(Tail(replies[c])) = Len(replies[c]) - 1
      /\ \A d \in Client : d # c => replies'[d] = replies[d]
      BY <1>2, TailOfReplies
<1>7. replies'[c] = <<>>
      BY <1>2, <1>4, TailOfReplies
<1>8. \A d \in Client : Msgs(d)' = Msgs(d) /\ (OrderedIn(aq, d) => OrderedIn(aq, d)')
      BY <1>2 DEF Msgs, OrderedIn
<1>9. main' = main /\ writers' = writers /\ owner' = owner
      BY <1>2 DEF server
<1>10. CallInvOf(c)'
  <2>1. Msgs(c)' = {} /\ main'.c # c
        BY <1>4, <1>8, <1>9
  <2>2. owner'[call'[c].fd] = c /\ ~ (writers'[call'[c].fd] > 0)
        BY <1>2, <1>3, <1>5, <1>9
  <2> QED BY <1>2, <1>7, <2>1, <2>2 DEF CallInvOf
<1> QED BY <1>2, <1>4, <1>6, <1>8, <1>10, ClientCalls DEF Open

LEMMA ReadChunkCalls ==
    ASSUME TypeInv, CallInv, CountInv, NEW c \in Client, ReadChunk(c)
    PROVE  CallInv' /\ CountInv'
<1> DEFINE k == NextChunk(call[c].sent, call[c].count)
<1>1. /\ call \in [Client -> CallRecord] /\ call[c] \in CallRecord /\ call[c].sent <= call[c].count
      /\ replies[c] \in Seq(Answer)
      BY DEF TypeInv, ClientType
<1>2. /\ call[c].pc = "read" /\ replies[c] # <<>> /\ replies' = [replies EXCEPT ![c] = Tail(@)]
      /\ call' = [call EXCEPT ![c].sent = @ + k,
                      ![c].pc = IF call[c].sent + k = call[c].count THEN "ready" ELSE "read"]
      /\ UNCHANGED <<wrote, aq, server>>
      BY DEF ReadChunk
<1>3. PICK sent \in Nat, n \in Nat : sent = call[c].sent /\ n = call[c].count /\ sent <= n
      BY <1>1, IbioAssumption DEF CallRecord
<1>4. k = NextChunk(sent, n) /\ k \in Nat /\ sent + k \in Nat /\ sent + k <= n
      BY <1>3, ChunkType
<1> HIDE DEF k
<1>5. /\ call'[c].pc = IF sent + k = n THEN "ready" ELSE "read"
      /\ call'[c].sent = sent + k /\ call'[c].count = n /\ call'[c].fd = call[c].fd
      /\ \A d \in Client : d # c => call'[d] = call[d]
      BY <1>1, <1>2, <1>3, <1>4 DEF CallRecord
<1>6. Open(c) /\ owner[call[c].fd] = c /\ ReadInv(c)
      BY <1>2 DEF CallInv, CallInvOf, Open
<1>7. PICK l \in Nat : /\ l = Len(replies[c]) /\ l > 0 /\ (l - 1) * ChunkSize < n - sent
                       /\ n - sent <= l * ChunkSize
      BY <1>1, <1>2, <1>3, <1>6, LenProperties DEF ReadInv
<1>8. Msgs(c) = {} /\ main.c # c /\ OrderedIn(aq, c)
      BY <1>2, <1>6 DEF ReadInv
<1>9. ~ (writers[call[c].fd] > 0)
      BY <1>2, <1>6 DEF CallInv, CallInvOf, Receives, WritesOut
<1>10. /\ replies'[c] = Tail(replies[c]) /\ Tail(replies[c]) \in Seq(Answer)
      /\ Len(Tail(replies[c])) = l - 1
      /\ \A d \in Client : d # c => replies'[d] = replies[d]
      BY <1>2, <1>7, TailOfReplies
<1>11. \A d \in Client : Msgs(d)' = Msgs(d) /\ (OrderedIn(aq, d) => OrderedIn(aq, d)')
      BY <1>2 DEF Msgs, OrderedIn
<1>12. main' = main /\ writers' = writers /\ owner' = owner
      BY <1>2 DEF server
<1>13. PICK j \in Nat, p \in Nat : j = l - 1 /\ p = j * ChunkSize /\ p < n - sent /\ n - sent <= p + ChunkSize
  <2>1. PICK j \in Nat : j = l - 1 /\ l = j + 1
        BY <1>7, SMTT(30)
  <2>2. (j + 1) * ChunkSize = j * ChunkSize + ChunkSize /\ j * ChunkSize \in Nat
        BY Multiples
  <2> QED BY <1>7, <2>1, <2>2
<1>14. ChunkSize \in Nat /\ ChunkSize > 0
      BY Multiples
<1>15. CASE sent + k = n
  <2>1. n - sent <= ChunkSize
        BY <1>3, <1>4, <1>14, <1>15 DEF NextChunk
  <2>2. j = 0
    <3>1. p < ChunkSize
          BY <1>3, <1>13, <1>14, <2>1
    <3>2. 1 * ChunkSize = ChunkSize /\ (j * ChunkSize < 1 * ChunkSize => j < 1)
          BY <1>14, Multiples
    <3> QED BY <1>13, <3>1, <3>2
  <2>3. replies'[c] = <<>>
    <3>1. Len(replies[c]) = 1
          BY <1>7, <1>13, <2>2
    <3> QED BY <1>2, <3>1, TailOfReplies
  <2>4. CallInvOf(c)'
    <3>1. Msgs(c)' = {} /\ main'.c # c
          BY <1>8, <1>11, <1>12
    <3>2. owner'[call'[c].fd] = c /\ ~ (writers'[call'[c].fd] > 0) /\ call'[c].pc = "ready"
          BY <1>5, <1>6, <1>9, <1>12, <1>15
    <3> QED BY <2>3, <3>1, <3>2 DEF CallInvOf
  <2>5. Open(c)'
        BY <1>5, <1>15 DEF Open
  <2> QED BY <1>2, <1>5, <1>8, <1>10, <1>11, <2>4, <2>5, ClientCalls
<1>16. CASE sent + k # n
  <2>1. k = ChunkSize /\ sent + ChunkSize < n
        BY <1>3, <1>4, <1>14, <1>16 DEF NextChunk
  <2>2. p > 0
        BY <1>3, <1>13, <1>14, <2>1
  <2>3. j > 0
        BY <1>13, <2>2, Multiples
  <2>4. (j - 1) * ChunkSize < n - (sent + k) /\ n - (sent + k) <= j * ChunkSize
    <3>1. PICK i \in Nat : i = j - 1 /\ j = i + 1
          BY <2>3
    <3>2. j * ChunkSize = i * ChunkSize + ChunkSize /\ i * ChunkSize \in Nat
          BY <3>1, Multiples
    <3> QED BY <1>3, <1>13, <1>14, <2>1, <3>1, <3>2
  <2>5. ReadInv(c)'
    <3>1. Msgs(c)' = {} /\ main'.c # c /\ OrderedIn(aq, c)'
          BY <1>8, <1>11, <1>12
    <3>2. Len(replies'[c]) = j
          BY <1>10, <1>13
    <3> QED BY <1>5, <2>3, <2>4, <3>1, <3>2 DEF ReadInv
  <2>6. CallInvOf(c)'
    <3>1. owner'[call'[c].fd] = c /\ ~ (writers'[call'[c].fd] > 0) /\ call'[c].pc = "read"
          BY <1>5, <1>6, <1>9, <1>12, <1>16
    <3> QED BY <2>5, <3>1 DEF CallInvOf
  <2>7. Open(c)'
        BY <1>5, <1>16 DEF Open
  <2> QED BY <1>2, <1>5, <1>8, <1>10, <1>11, <2>6, <2>7, ClientCalls
<1> QED BY <1>15, <1>16

----------------------------------------------------------------------------
(* The calls: the steps of the server *)

\* What the messages of a client say of its call.
LEMMA CallOf ==
    ASSUME TypeInv, CallInv, NEW c \in Client, Open(c), NEW x \in Msgs(c)
    PROVE  /\ call[c].pc \in {"write", "dwrite", "read"} /\ owner[call[c].fd] = c /\ call[c].fd \in Fd
           /\ call[c].pc = "read" => /\ Msgs(c) = {x} /\ x.op = "READ" /\ x.count = call[c].count
                                     /\ replies[c] = <<>> /\ call[c].sent = 0 /\ call[c].count > 0
                                     /\ OrderedIn(aq, c) /\ main.c # c
           /\ call[c].pc \in {"write", "dwrite"} =>
                /\ OrderedIn(aq, c) /\ Sending(c) /\ WriteInv(c) /\ replies[c] = <<>>
                /\ Begins(c) \/ Receives(c) \/ Swrites(c)
                /\ IF x.bytes = <<>> THEN x.op = Header[call[c].pc] /\ x.count = call[c].count
                                     ELSE x.op = ChunkOp(call[c].pc)
<1>1. CallInvOf(c) /\ call[c] \in CallRecord /\ call[c].fd \in Fd
      BY DEF CallInv, TypeInv, ClientType, OpenInv, OpenInvOf
<1>2. call[c].pc \in {"write", "dwrite", "read"}
      BY <1>1 DEF CallInvOf, Open, CallRecord, Calls
<1>3. CASE call[c].pc = "read"
  <2>1. ReadInv(c)
        BY <1>1, <1>3 DEF CallInvOf
  <2>2. /\ \E y \in Request : Msgs(c) = {y} /\ y.op = "READ" /\ y.count = call[c].count
        /\ replies[c] = <<>> /\ call[c].sent = 0 /\ call[c].count > 0 /\ OrderedIn(aq, c) /\ main.c # c
        BY <2>1 DEF ReadInv
  <2> QED BY <1>1, <1>3, <2>2 DEF CallInvOf
<1>4. CASE call[c].pc \in {"write", "dwrite"}
  <2>1. WriteInv(c)
        BY <1>1, <1>4 DEF CallInvOf
  <2>2. Sending(c) /\ (Begins(c) \/ Receives(c) \/ Swrites(c)) /\ OrderedIn(aq, c)
        BY <2>1 DEF WriteInv, WritesOut, Answered
  <2>3. replies[c] = <<>>
        BY <2>2 DEF Begins, Receives, Swrites
  <2>4. IF x.bytes = <<>> THEN x.op = Header[call[c].pc] /\ x.count = call[c].count
                          ELSE x.op = ChunkOp(call[c].pc)
        BY <2>2 DEF Sending, Sends, HeadsOf, ChunksOf
  <2> QED BY <1>1, <1>4, <2>1, <2>2, <2>3, <2>4 DEF CallInvOf
<1> QED BY <1>2, <1>3, <1>4

\* The first message of a write.
LEMMA FirstOfWrite ==
    ASSUME TypeInv, CallInv, NEW c \in Client, Open(c), call[c].pc \in {"write", "dwrite"},
           NEW k \in DOMAIN aq, aq[k].src = c, \A j \in 1 .. k - 1 : aq[j].src # c
    PROVE  /\ Soonest(aq[k], Msgs(c))
           /\ aq[k].bytes # <<>> => Heads(c) = {} /\ (Receives(c) \/ Swrites(c))
           /\ aq[k].bytes = <<>> => Begins(c) /\ HeadsOf(Msgs(c) \ {aq[k]}) = {}
<1>1. aq \in Seq(Request) /\ aq[k] \in Msgs(c)
      BY MessageOf DEF TypeInv, ClientType
<1>2. OrderedIn(aq, c) /\ (Begins(c) \/ Receives(c) \/ Swrites(c))
      BY <1>1, CallOf
<1>3. Soonest(aq[k], Msgs(c))
      BY <1>1, <1>2, FirstIsSoonest DEF Msgs, MsgsIn, Soonest
<1>4. \A y \in Msgs(c) : y # aq[k] => y.bytes # <<>>
      BY <1>3 DEF Sooner, Soonest
<1>5. CASE aq[k].bytes # <<>>
  <2>1. Heads(c) = {}
        BY <1>4, <1>5 DEF Heads, HeadsOf
  <2> QED BY <1>2, <1>3, <1>5, <2>1 DEF Begins
<1>6. CASE aq[k].bytes = <<>>
  <2>1. aq[k] \in Heads(c) /\ HeadsOf(Msgs(c) \ {aq[k]}) = {}
        BY <1>1, <1>4, <1>6 DEF Heads, HeadsOf
  <2> QED BY <1>2, <1>3, <1>6, <2>1 DEF Receives, Swrites
<1> QED BY <1>5, <1>6

\* The server serves client c and leaves other clients alone.
LEMMA ServerCalls ==
    ASSUME TypeInv, CallInv, NEW c \in Client, Open(c), UNCHANGED <<call, wrote, owner>>,
           \A d \in Client : d # c => /\ Msgs(d)' = Msgs(d) /\ (OrderedIn(aq, d) => OrderedIn(aq, d)')
                                      /\ replies'[d] = replies[d],
           main.c \in {c, None}, main'.c \in {c, None},
           \A g \in Fd : g # call[c].fd => info'[g] = info[g] /\ writers'[g] = writers[g],
           main'.pc = "ack" => main'.c = c /\ call[c].pc = "write",
           main'.pc = "swrite" => main'.c = c /\ call[c].pc = "dwrite",
           CallInvOf(c)', CountInv, Counted(writers[call[c].fd], info[call[c].fd])'
    PROVE  CallInv' /\ CountInv'
<1>1. call' = call /\ owner' = owner /\ wrote' = wrote /\ call[c].fd \in Fd
      BY DEF TypeInv, OpenInv, OpenInvOf
<1>2. CountInv'
  <2>1. ASSUME NEW g \in Fd PROVE Counted(writers[g], info[g])'
    <3>1. CASE g = call[c].fd
          BY <1>1, <3>1
    <3>2. CASE g # call[c].fd
          BY <3>2 DEF CountInv, Counted
    <3> QED BY <3>1, <3>2
  <2> QED BY <2>1 DEF CountInv
<1>3. ASSUME NEW d \in Client, d # c PROVE Same(d)
  <2>1. d # None
        BY IbioAssumption
  <2>2. Open(d) => call[d].fd \in Fd /\ call[d].fd # call[c].fd
        BY <1>3, OwnDescriptors
  <2>3. Open(d) => info'[call[d].fd] = info[call[d].fd] /\ writers'[call[d].fd] = writers[call[d].fd]
        BY <2>2
  <2> QED BY <1>1, <1>3, <2>1, <2>3 DEF Same
<1>4. ServeInv'
  <2>1. \A d \in Client : Open(d)' <=> Open(d)
        BY <1>1 DEF Open
  <2>2. ASSUME NEW f \in Fd, writers'[f] > 0 PROVE \E d \in Client : Open(d)' /\ call'[d].fd = f
    <3>1. CASE f = call[c].fd
          BY <1>1, <2>1, <3>1
    <3>2. CASE f # call[c].fd
          BY <1>1, <2>1, <2>2, <3>2 DEF CallInv, ServeInv
    <3> QED BY <3>1, <3>2
  <2> QED BY <1>1, <2>2 DEF ServeInv
<1> QED BY <1>2, <1>3, <1>4, CallsStep

\* Counts that start.
LEMMA CountedNone ==
    ASSUME NEW i, i.write_count \in Nat, i.current_recv_size = 0, i.current_write_count = 0
    PROVE  Counted(0, i)
<1>1. Upto(0, i.write_count) = 0
      BY Ends
<1> QED BY <1>1 DEF Counted

LEMMA SopenCalls ==
    ASSUME TypeInv, CallInv, CountInv, Sopen
    PROVE  CallInv' /\ CountInv'
<1> DEFINE f == CHOOSE x \in Fd : owner[x] = None /\ \A y \in Fd : y < x => owner[y] # None
<1>1. PICK c : c = Source
      OBVIOUS
<1>2. /\ Probed("OPEN") /\ aq' = Tail(aq) /\ Reply(c, f, <<>>)
      /\ owner' = [owner EXCEPT ![f] = c] /\ info' = [info EXCEPT ![f] = [Zero EXCEPT !.fd = f]]
      /\ UNCHANGED <<call, wrote, got, threads, main>>
      BY <1>1 DEF Sopen
<1>3. /\ 1 \in DOMAIN aq /\ aq # <<>> /\ aq[1].src = c /\ c \in Client /\ main.pc = "probe" /\ main.c = None
      /\ call[c].pc = "open" /\ replies[c] = <<>> /\ ~Owns(c)
      BY <1>1, <1>2, ProbedIs
<1>4. f \in Fd /\ owner[f] = None
      BY <1>3, FreeDescriptor
<1> HIDE DEF f
<1>5. <<>> \in Seq(Byte) /\ f \in Nat
  <2>1. Cardinality(Client) \in Nat
        BY IbioAssumption, FS_CardinalityType
  <2> QED BY <1>4, <2>1, EmptySeq DEF Fd
<1>6. /\ \A d \in Client : d # c => replies'[d] = replies[d]
      /\ replies'[c][1].count = f
  <2>1. /\ \A d \in Client : d # c => replies'[d] = replies[d]
        /\ replies'[c][1] = Msg(c, "REPLY", f, <<>>)
        BY <1>2, <1>3, <1>5, ReplyIs, ZenonT(60)
  <2> QED BY <2>1 DEF Msg
<1>7. \A d \in Client : d # c => Msgs(d)' = Msgs(d) /\ (OrderedIn(aq, d) => OrderedIn(aq, d)')
      BY <1>2, <1>3, TakeStep DEF TypeInv
<1>8. ServerType
      BY DEF TypeInv
<1>9. /\ owner'[f] = c /\ \A g \in Fd : g # f => owner'[g] = owner[g] /\ info'[g] = info[g]
      /\ info'[f] = [Zero EXCEPT !.fd = f] /\ writers' = writers /\ main' = main
      BY <1>2, <1>4, <1>8 DEF ServerType, threads
<1>10. ASSUME NEW d \in Client, d # c PROVE Same(d)
  <2>1. d # None /\ CallInvOf(d) /\ OpenInvOf(d)
        BY IbioAssumption DEF CallInv, TypeInv, OpenInv
  <2>2. Open(d) => call[d].fd \in Fd /\ call[d].fd # f
        BY <1>4, <2>1 DEF CallInvOf, OpenInvOf
  <2>3. call[d].pc = "open" /\ replies[d] # <<>> => replies[d][1].count \in Fd /\ replies[d][1].count # f
        BY <1>4, <2>1 DEF CallInvOf, OpenInvOf, Opening
  <2> QED BY <1>2, <1>3, <1>6, <1>7, <1>9, <1>10, <2>2, <2>3 DEF Same
<1>11. CallInvOf(c)'
      BY <1>2, <1>3, <1>6, <1>9 DEF CallInvOf, Open
<1>12. ServeInv'
      BY <1>2, <1>3, <1>9 DEF CallInv, ServeInv, Open
<1>13. CountInv'
  <2>1. ~ (writers[f] > 0)
    <3>1. \A d \in Client : d # None
          BY IbioAssumption
    <3> QED BY <1>4, <3>1 DEF CallInv, CallInvOf, ServeInv
  <2>2. writers[f] = 0
        BY <1>4, <1>8, <2>1 DEF ServerType
  <2>3. ASSUME NEW g \in Fd PROVE Counted(writers'[g], info'[g])
    <3>1. CASE g = f
      <4>1. /\ info'[f].write_count = 0 /\ info'[f].current_recv_size = 0 /\ info'[f].current_write_count = 0
            BY <1>9 DEF Zero
      <4>2. PICK i : i = info'[f]
            OBVIOUS
      <4>3. Counted(0, i)
            BY <4>1, <4>2, CountedNone
      <4> QED BY <1>9, <2>2, <3>1, <4>2, <4>3
    <3>2. CASE g # f
          BY <1>9, <3>2 DEF CountInv
    <3> QED BY <3>1, <3>2
  <2> QED BY <2>3 DEF CountInv, Counted
<1> QED BY <1>3, <1>10, <1>11, <1>12, <1>13, CallsStep

\* No chunk thread is left when a write begins, or has been answered.
LEMMA NoWriters ==
    ASSUME TypeInv, CallInv, NEW c \in Client, Open(c), ~Receives(c), ~WritesOut(c)
    PROVE  writers[call[c].fd] = 0
<1>1. writers \in [Fd -> Nat] /\ call[c].fd \in Fd
      BY DEF TypeInv, ServerType, OpenInv, OpenInvOf
<1>2. ~ (writers[call[c].fd] > 0)
      BY DEF CallInv, CallInvOf
<1> QED BY <1>1, <1>2

\* The numbers of a write.
LEMMA WriteNumbers ==
    ASSUME TypeInv, NEW c \in Client, WriteInv(c), Sending(c)
    PROVE  /\ call[c].count \in Nat /\ call[c].sent \in Nat /\ call[c].sent <= call[c].count
           /\ Base(c) \in Nat /\ Recv(c) \in Nat /\ wrote[c] \in Nat /\ Base(c) + call[c].sent = wrote[c]
<1>1. call[c] \in CallRecord /\ call[c].sent <= call[c].count /\ wrote[c] \in Nat
      BY DEF TypeInv, ClientType
<1>2. call[c].count \in Nat /\ call[c].sent \in Nat
      BY <1>1, IbioAssumption DEF CallRecord
<1>3. call[c].sent <= wrote[c]
      BY DEF WriteInv
<1>4. \E a \in Nat : Recv(c) = Upto(a, call[c].count)
      BY DEF Sending, Sends
<1>5. Recv(c) \in Nat
      BY <1>2, <1>4, Ends
<1> QED BY <1>1, <1>2, <1>3, <1>5 DEF Base

\* The server receives the header of a write of client c, and one of its chunks.
TakesHeader(c) ==
    LET f == call[c].fd IN
    /\ Open(c) /\ f \in Fd /\ call[c].pc = "write" /\ Heads(c) # {}
    /\ Heads(c)' = {} /\ Base(c)' = Base(c) /\ Recv(c)' = 0
    /\ \A d \in Client : d # c => Msgs(d)' = Msgs(d)
    /\ \A g \in Fd : g # f => info'[g] = info[g]
    /\ info'[f].current_write_count = 0 /\ info'[f].fd = info[f].fd

TakesChunk(c, x, base, r, k) ==
    LET f == call[c].fd IN
    /\ Open(c) /\ f \in Fd /\ call[c].pc = "write" /\ Heads(c) = {} /\ Base(c) = base /\ Recv(c) = r
    /\ Heads(c)' = {} /\ Base(c)' = base /\ Recv(c)' = r + k
    /\ r + k <= CacheSize /\ HasBytes(x, base + r, k) /\ Store(f, r, x.bytes)
    /\ \A d \in Client : d # c => Msgs(d)' = Msgs(d)
    /\ \A g \in Fd : g # f => info'[g] = info[g]
    /\ info'[f].current_write_count = info[f].current_write_count /\ info'[f].fd = info[f].fd

LEMMA SwriteBeginCalls ==
    ASSUME TypeInv, CallInv, CountInv, SwriteBegin
    PROVE  CallInv' /\ CountInv' /\ \E c \in Client : TakesHeader(c)
<1>1. PICK c : c = Source
      OBVIOUS
<1>2. PICK f : f = call[c].fd
      OBVIOUS
<1>3. /\ Probed("WRITE_BEGIN") /\ aq' = Tail(aq)
      /\ info' = [info EXCEPT ![f].write_count = Head(aq).count,
                              ![f].current_recv_size = 0, ![f].current_write_count = 0]
      /\ UNCHANGED <<call, wrote, replies, owner, threads, main>>
      BY <1>1, <1>2 DEF SwriteBegin, FdOf
<1>4. /\ 1 \in DOMAIN aq /\ aq # <<>> /\ Head(aq) = aq[1] /\ aq[1].src = c /\ aq[1] \in Request
      /\ c \in Client /\ main.pc = "probe" /\ main.c = None /\ Open(c) /\ f \in Fd /\ aq[1] \in Msgs(c)
      /\ aq[1].op = "WRITE_BEGIN"
      BY <1>1, <1>2, <1>3, ProbedIs
<1>5. PICK x \in Request : x = aq[1]
      BY <1>4
<1>6. /\ call[c].pc = "write" /\ x.bytes = <<>> /\ x.count = call[c].count /\ owner[f] = c
      /\ OrderedIn(aq, c) /\ Sending(c) /\ WriteInv(c)
      BY <1>2, <1>4, <1>5, CallOf DEF Header, ChunkOp
<1>7. Begins(c) /\ HeadsOf(Msgs(c) \ {x}) = {}
  <2>1. PICK k \in DOMAIN aq : k = 1 /\ aq[k] = x
        BY <1>4, <1>5
  <2>2. aq[k].src = c /\ aq[k].bytes = <<>> /\ \A j \in 1 .. k - 1 : aq[j].src # c
        BY <1>4, <1>6, <2>1
  <2>3. Begins(c) /\ HeadsOf(Msgs(c) \ {aq[k]}) = {}
        BY <1>4, <1>6, <2>2, FirstOfWrite
  <2> QED BY <2>1, <2>3
<1>8. PICK n \in 0 .. CacheSize : n = x.count /\ n \in Nat
      BY RequestBytes
<1>9. info \in [Fd -> InfoRecord]
      BY DEF TypeInv, ServerType
<1>10. /\ \A g \in Fd : g # f => info'[g] = info[g]
       /\ info'[f].write_count = n /\ info'[f].current_recv_size = 0 /\ info'[f].current_write_count = 0
      BY <1>3, <1>4, <1>5, <1>8, <1>9 DEF InfoRecord
<1>11. /\ \A d \in Client : d # c => Msgs(d)' = Msgs(d)
       /\ \A d \in Client : OrderedIn(aq, d) => OrderedIn(aq, d)'
       /\ Msgs(c)' = Msgs(c) \ {x}
      BY <1>3, <1>4, <1>5, <1>6, TakeStep DEF TypeInv
<1>12. writers[f] = 0
      BY <1>2, <1>4, <1>7, NoWriters DEF Begins, Receives, WritesOut
<1>13. writers' = writers /\ main' = main /\ call' = call /\ replies' = replies /\ owner' = owner /\ wrote' = wrote
      BY <1>3 DEF threads
<1>14. Heads(c)' = {}
      BY <1>7, <1>11 DEF Heads
<1>15. Recv(c) = 0 /\ Recv(c)' = 0
  <2>1. Recv(c) = 0
        BY <1>7 DEF Recv, Begins
  <2>2. Recv(c)' = 0
        BY <1>2, <1>6, <1>10, <1>13, <1>14 DEF Recv, InfoOf
  <2> QED BY <2>1, <2>2
<1>16. Sending(c)'
  <2>1. x \in HeadsOf(Msgs(c))
        BY <1>4, <1>5, <1>6 DEF HeadsOf
  <2>2. Sends(Msgs(c) \ {x}, call[c].pc, call[c].count, call[c].sent, Base(c), Recv(c))
        BY <1>6, <2>1, SendsHeader DEF Sending
  <2>3. Base(c)' = Base(c)
        BY <1>13 DEF Base
  <2> QED BY <1>11, <1>13, <1>15, <2>2, <2>3 DEF Sending
<1>17. Receives(c)'
  <2>1. InfoOf(c)'.write_count = n
        BY <1>2, <1>10, <1>13 DEF InfoOf
  <2>2. call[c].count > 0 /\ replies[c] = <<>> /\ main.c # c
        BY <1>6, <1>7 DEF WriteInv, Begins
  <2> QED BY <1>6, <1>8, <1>13, <1>14, <1>15, <2>1, <2>2 DEF Receives
<1>18. WriteInv(c)'
      BY <1>6, <1>11, <1>13, <1>16, <1>17, <1>4 DEF WriteInv
<1>19. CallInvOf(c)'
      BY <1>2, <1>6, <1>13, <1>17, <1>18 DEF CallInvOf
<1>20. Counted(writers[call[c].fd], info[call[c].fd])'
  <2>1. PICK i : i = info'[f]
        OBVIOUS
  <2>2. Counted(0, i)
        BY <1>8, <1>10, <2>1, CountedNone
  <2>3. call'[c].fd = f /\ writers'[f] = 0
        BY <1>2, <1>12, <1>13
  <2> QED BY <2>1, <2>2, <2>3 DEF Counted
<1>21. TakesHeader(c)
  <2>1. info'[f].fd = info[f].fd
        BY <1>3, <1>4, <1>9 DEF InfoRecord
  <2>2. Heads(c) # {} /\ Base(c)' = Base(c)
        BY <1>7, <1>13 DEF Begins, Base
  <2> QED BY <1>2, <1>4, <1>6, <1>10, <1>11, <1>14, <1>15, <2>1, <2>2 DEF TakesHeader
<1>22. CallInv' /\ CountInv'
      BY <1>2, <1>4, <1>10, <1>11, <1>13, <1>19, <1>20, ServerCalls
<1> QED BY <1>4, <1>21, <1>22

\* A chunk is received.
LEMMA CountedMore ==
    ASSUME NEW w, NEW n \in Nat, NEW r \in Nat, NEW v, r < n, NEW i, NEW j, Counted(w, i),
           i.write_count = n, i.current_recv_size = r, i.current_write_count = v,
           j.write_count = n, j.current_recv_size = r + NextChunk(r, n), j.current_write_count = v
    PROVE  Counted(w + 1, j)
<1>1. PICK a \in Nat, b \in Nat : b <= a /\ w = a - b /\ r = Upto(a, n) /\ v = Upto(b, n)
      BY DEF Counted
<1>2. a * ChunkSize = r /\ r + NextChunk(r, n) = Upto(a + 1, n)
      BY <1>1, Ends
<1>3. a + 1 \in Nat /\ b <= a + 1 /\ w + 1 = (a + 1) - b /\ (a + 1) - 1 = a
      BY <1>1
<1>4. ((a + 1) - 1) * ChunkSize < n
      BY <1>2, <1>3
<1> QED BY <1>1, <1>2, <1>3, <1>4 DEF Counted

\* A chunk is written.
LEMMA CountedLess ==
    ASSUME NEW w \in Nat, w > 0, NEW n \in Nat, NEW v \in Nat, NEW r, NEW i, NEW j, Counted(w, i),
           i.write_count = n, i.current_recv_size = r, i.current_write_count = v,
           j.write_count = n, j.current_recv_size = r, j.current_write_count = v + NextChunk(v, n)
    PROVE  Counted(w - 1, j) /\ v < n /\ r \in Nat /\ v + NextChunk(v, n) <= r /\ \E b \in Nat : v = Upto(b, n)
<1>1. PICK a \in Nat, b \in Nat : /\ b <= a /\ w = a - b /\ r = Upto(a, n) /\ v = Upto(b, n)
                                  /\ a > 0 => (a - 1) * ChunkSize < n
      BY DEF Counted
<1>2. v + NextChunk(v, n) = Upto(b + 1, n) /\ r \in Nat
      BY <1>1, Ends
<1>3. b + 1 \in Nat /\ b + 1 <= a /\ w - 1 = a - (b + 1) /\ a > 0 /\ a - 1 \in Nat /\ b <= a - 1
      BY <1>1
<1>4. b * ChunkSize <= (a - 1) * ChunkSize /\ b * ChunkSize \in Nat /\ (a - 1) * ChunkSize \in Nat
      BY <1>3, Multiples
<1>5. b * ChunkSize < n
      BY <1>1, <1>3, <1>4
<1>6. v < n
      BY <1>1, <1>5, Ends
<1>7. v + NextChunk(v, n) <= r
      BY <1>1, <1>2, <1>3, UptoGrows
<1> QED BY <1>1, <1>2, <1>3, <1>6, <1>7 DEF Counted

\* When all is written no thread is left.
LEMMA CountedAll ==
    ASSUME NEW w \in Nat, NEW n \in Nat, NEW i, Counted(w, i), i.write_count = n, i.current_write_count = n
    PROVE  w = 0
<1>1. CASE w > 0
  <2>1. PICK a \in Nat, b \in Nat : /\ b <= a /\ w = a - b /\ n = Upto(b, n)
                                    /\ a > 0 => (a - 1) * ChunkSize < n
        BY DEF Counted
  <2>2. a > 0 /\ a - 1 \in Nat /\ b <= a - 1
        BY <1>1, <2>1
  <2>3. b * ChunkSize <= (a - 1) * ChunkSize /\ b * ChunkSize \in Nat /\ (a - 1) * ChunkSize \in Nat
        BY <2>2, Multiples
  <2>4. b * ChunkSize < n
        BY <2>1, <2>2, <2>3
  <2> QED BY <2>1, <2>3, <2>4 DEF Upto
<1> QED BY <1>1

\* The first message of a write is the chunk that follows those received.
LEMMA TakeChunk ==
    ASSUME TypeInv, CallInv, NEW c \in Client, Open(c), call[c].pc \in {"write", "dwrite"},
           NEW k \in DOMAIN aq, aq[k].src = c, \A j \in 1 .. k - 1 : aq[j].src # c, aq[k].bytes # <<>>,
           NEW n \in Nat, n = call[c].count, NEW r \in Nat, r = Recv(c), NEW base \in Nat, base = Base(c)
    PROVE  /\ r < n /\ NextChunk(r, n) \in Nat
           /\ r + NextChunk(r, n) <= n
           /\ HasBytes(aq[k], base + r, NextChunk(r, n))
           /\ HeadsOf(Msgs(c) \ {aq[k]}) = {}
           /\ Sends(Msgs(c) \ {aq[k]}, call[c].pc, n, call[c].sent, base, r + NextChunk(r, n))
<1>1. aq[k] \in Msgs(c)
      BY MessageOf
<1>2. PICK x : x = aq[k] /\ x \in Msgs(c) /\ x.bytes # <<>>
      BY <1>1
<1>3. Sending(c) /\ WriteInv(c)
      BY <1>2, CallOf
<1>4. Heads(c) = {} /\ Soonest(x, Msgs(c))
      BY <1>2, FirstOfWrite
<1>5. PICK sent \in Nat : sent = call[c].sent /\ sent <= n
      BY <1>3, WriteNumbers
<1>6. PICK M, pc : M = Msgs(c) /\ pc = call[c].pc
      OBVIOUS
<1>7. Sends(M, pc, n, sent, base, r) /\ sent <= n /\ x \in ChunksOf(M) /\ Soonest(x, M)
      BY <1>2, <1>3, <1>4, <1>5, <1>6 DEF Sending, ChunksOf
<1>8. /\ r < n /\ r + NextChunk(r, n) <= n /\ HasBytes(x, base + r, NextChunk(r, n))
      /\ NextChunk(r, n) \in Nat
      /\ Sends(M \ {x}, pc, n, sent, base, r + NextChunk(r, n))
      BY <1>7, SendsTake
<1>9. HeadsOf(Msgs(c) \ {x}) = {}
      BY <1>4 DEF Heads, HeadsOf
<1> QED BY <1>2, <1>5, <1>6, <1>8, <1>9

LEMMA SwriteChunkCalls ==
    ASSUME TypeInv, CallInv, CountInv, SwriteChunk
    PROVE  /\ CallInv' /\ CountInv'
           /\ \E c \in Client, x \in Request, base, r, k \in Nat : TakesChunk(c, x, base, r, k)
<1>1. PICK c : c = Source
      OBVIOUS
<1>2. PICK f : f = call[c].fd
      OBVIOUS
<1>3. PICK r, k : r = info[f].current_recv_size /\ k = NextChunk(r, info[f].write_count)
      OBVIOUS
<1>4. /\ Probed("WRITE_CHUNK") /\ aq' = Tail(aq)
      /\ info' = [info EXCEPT ![f].current_recv_size = r + k]
      /\ writers' = [writers EXCEPT ![f] = @ + 1]
      /\ main' = IF r + k = info[f].write_count THEN [Probe EXCEPT !.pc = "ack", !.c = c] ELSE main
      /\ UNCHANGED <<call, wrote, replies, owner>>
      BY <1>1, <1>2, <1>3 DEF SwriteChunk, FdOf
<1>5. /\ 1 \in DOMAIN aq /\ aq # <<>> /\ Head(aq) = aq[1] /\ aq[1].src = c /\ aq[1] \in Request
      /\ c \in Client /\ main.pc = "probe" /\ main.c = None /\ Open(c) /\ f \in Fd /\ aq[1] \in Msgs(c)
      /\ aq[1].op = "WRITE_CHUNK"
      BY <1>1, <1>2, <1>4, ProbedIs
<1>6. PICK j \in DOMAIN aq, x \in Request : j = 1 /\ x = aq[j]
      BY <1>5
<1>7. c # None
      BY <1>5, IbioAssumption
<1>8. /\ call[c].pc = "write" /\ x.bytes # <<>> /\ owner[f] = c /\ replies[c] = <<>>
      /\ OrderedIn(aq, c) /\ Sending(c) /\ WriteInv(c)
      BY <1>2, <1>5, <1>6, CallOf DEF Header, ChunkOp
<1>9. aq[j].src = c /\ aq[j].bytes # <<>> /\ \A i \in 1 .. j - 1 : aq[i].src # c
      BY <1>5, <1>6, <1>8
<1>10. Receives(c) /\ Heads(c) = {}
      BY <1>5, <1>8, <1>9, FirstOfWrite DEF Swrites
<1>11. PICK n \in Nat, base \in Nat, sent \in Nat : n = call[c].count /\ base = Base(c) /\ sent = call[c].sent
      BY <1>5, <1>8, WriteNumbers
<1>12. r = Recv(c) /\ info[f].write_count = n /\ k = NextChunk(r, n)
      BY <1>2, <1>3, <1>8, <1>10, <1>11 DEF Recv, InfoOf, Receives
<1>13. /\ n \in Nat /\ r \in Nat /\ base \in Nat /\ r < n /\ k \in Nat /\ r + k <= n
       /\ HasBytes(x, base + r, k)
       /\ HeadsOf(Msgs(c) \ {x}) = {}
       /\ Sends(Msgs(c) \ {x}, call[c].pc, n, sent, base, r + k)
  <2>1. PICK p \in Nat : p = r /\ p = Recv(c)
        BY <1>5, <1>8, <1>12, WriteNumbers
  <2>2. /\ p < n /\ NextChunk(p, n) \in Nat /\ p + NextChunk(p, n) <= n
        /\ HasBytes(aq[j], base + p, NextChunk(p, n))
        /\ HeadsOf(Msgs(c) \ {aq[j]}) = {}
        /\ Sends(Msgs(c) \ {aq[j]}, call[c].pc, n, call[c].sent, base, p + NextChunk(p, n))
        BY <1>5, <1>8, <1>9, <1>11, <2>1, TakeChunk
  <2> QED BY <1>6, <1>11, <1>12, <2>1, <2>2
<1>14. info \in [Fd -> InfoRecord] /\ writers \in [Fd -> Nat]
      BY DEF TypeInv, ServerType
<1>15. /\ \A g \in Fd : g # f => info'[g] = info[g] /\ writers'[g] = writers[g]
       /\ info'[f].write_count = n /\ info'[f].current_recv_size = r + k
       /\ info'[f].current_write_count = info[f].current_write_count
       /\ writers'[f] = writers[f] + 1
      BY <1>4, <1>5, <1>12, <1>13, <1>14 DEF InfoRecord
<1>16. /\ \A d \in Client : d # c => Msgs(d)' = Msgs(d)
       /\ \A d \in Client : OrderedIn(aq, d) => OrderedIn(aq, d)'
       /\ Msgs(c)' = Msgs(c) \ {x}
      BY <1>4, <1>5, <1>6, <1>8, TakeStep DEF TypeInv
<1>17. call' = call /\ replies' = replies /\ owner' = owner /\ wrote' = wrote
      BY <1>4
<1>18. Heads(c)' = {} /\ InfoOf(c)' = info'[f] /\ Base(c)' = base
      BY <1>2, <1>11, <1>13, <1>16, <1>17 DEF Heads, InfoOf, Base
<1>19. Recv(c)' = r + k
      BY <1>8, <1>15, <1>17, <1>18 DEF Recv
<1>20. Sending(c)'
      BY <1>11, <1>13, <1>16, <1>17, <1>18, <1>19 DEF Sending
<1>21. Counted(writers[call[c].fd], info[call[c].fd])'
  <2>1. PICK i, i2, w, v : i = info[f] /\ i2 = info'[f] /\ w = writers[f] /\ v = i.current_write_count
        OBVIOUS
  <2>2. Counted(w, i)
        BY <1>5, <2>1 DEF CountInv
  <2>3. Counted(w + 1, i2)
    <3>1. /\ i.write_count = n /\ i.current_recv_size = r /\ i.current_write_count = v
          /\ i2.write_count = n /\ i2.current_recv_size = r + NextChunk(r, n) /\ i2.current_write_count = v
          BY <1>3, <1>12, <1>15, <2>1
    <3> QED BY <1>13, <2>2, <3>1, CountedMore
  <2>4. call'[c].fd = f /\ writers'[f] = w + 1
        BY <1>2, <1>15, <1>17, <2>1
  <2> QED BY <2>1, <2>3, <2>4 DEF Counted
<1>22. Receives(c)' \/ WritesOut(c)'
  <2>1. CASE r + k = n
    <3>1. main'.c = c
          BY <1>4, <1>12, <2>1 DEF Probe
    <3>2. PICK M, pc : M = Msgs(c) \ {x} /\ pc = call[c].pc
          OBVIOUS
    <3>3. sent \in Nat /\ sent <= n
          BY <1>5, <1>8, <1>11, WriteNumbers
    <3>4. Sends(M, pc, n, sent, base, n)
          BY <1>13, <2>1, <3>2
    <3>5. ChunksOf(M) = {}
          BY <1>13, <3>3, <3>4, SendsAll
    <3>6. M = {}
          BY <1>13, <3>2, <3>5 DEF ChunksOf, HeadsOf
    <3>7. WritesOut(c)'
          BY <1>8, <1>11, <1>15, <1>16, <1>17, <1>18, <1>19, <2>1, <3>1, <3>2, <3>6 DEF WritesOut
    <3> QED BY <3>7
  <2>2. CASE r + k # n
    <3>1. main'.c # c
          BY <1>4, <1>5, <1>7, <1>12, <2>2
    <3>2. r + k < n
          BY <1>13, <2>2
    <3>3. Receives(c)'
          BY <1>8, <1>11, <1>15, <1>17, <1>18, <1>19, <3>1, <3>2 DEF Receives
    <3> QED BY <3>3
  <2> QED BY <2>1, <2>2
<1>23. WriteInv(c)'
      BY <1>5, <1>8, <1>16, <1>17, <1>20, <1>22 DEF WriteInv
<1>24. CallInvOf(c)'
      BY <1>2, <1>8, <1>17, <1>22, <1>23 DEF CallInvOf
<1>25. /\ main'.c \in {c, None} /\ main'.pc # "swrite"
       /\ main'.pc = "ack" => main'.c = c
      BY <1>4, <1>5 DEF Probe
<1>26. CallInv' /\ CountInv'
      BY <1>2, <1>5, <1>8, <1>15, <1>16, <1>17, <1>21, <1>24, <1>25, ServerCalls
<1>27. TakesChunk(c, x, base, r, k)
  <2>1. info'[f].fd = info[f].fd
        BY <1>4, <1>5, <1>14 DEF InfoRecord
  <2>2. Store(f, r, x.bytes)
        BY <1>1, <1>2, <1>3, <1>5, <1>6 DEF SwriteChunk, FdOf
  <2>3. r + k <= CacheSize
    <3>1. info[f] \in InfoRecord
          BY <1>5, <1>14
    <3>2. n \in 0 .. CacheSize /\ CacheSize \in Nat
          BY <1>12, <3>1, IbioAssumption DEF InfoRecord
    <3> QED BY <1>13, <3>2
  <2> QED BY <1>2, <1>5, <1>8, <1>10, <1>11, <1>12, <1>13, <1>15, <1>16, <1>18, <1>19, <2>1, <2>2, <2>3
          DEF TakesChunk
<1>28. r \in Nat /\ k \in Nat
      BY <1>13
<1> QED BY <1>5, <1>26, <1>27, <1>28

LEMMA SwriteAckCalls ==
    ASSUME TypeInv, CallInv, CountInv, SwriteAck
    PROVE  CallInv' /\ CountInv'
<1>1. PICK c : c = main.c
      OBVIOUS
<1>2. PICK f : f = call[c].fd
      OBVIOUS
<1>3. /\ main.pc = "ack" /\ info[f].current_write_count = info[f].write_count /\ Reply(c, 0, <<>>)
      /\ main' = Probe /\ UNCHANGED <<call, wrote, aq, owner, info, threads>>
      BY <1>1, <1>2 DEF SwriteAck, FdOf
<1>4. c \in Client /\ Open(c) /\ f \in Fd /\ c # None /\ call[c].pc = "write"
      BY <1>1, <1>2, <1>3, IbioAssumption DEF TypeInv, OpenInv, OpenInvOf, MainInv, CallInv, ServeInv
<1>5. CallInvOf(c) /\ WriteInv(c)
      BY <1>4 DEF CallInv, CallInvOf
<1>6. WritesOut(c) /\ Sending(c)
      BY <1>1, <1>4, <1>5 DEF WriteInv, Begins, Receives, Swrites, Answered
<1>7. PICK n, sent, base : n = call[c].count /\ sent = call[c].sent /\ base = Base(c)
      OBVIOUS
<1>8. n \in Nat /\ sent \in Nat /\ base \in Nat /\ sent <= n
      BY <1>4, <1>5, <1>6, <1>7, WriteNumbers
<1>9. info[f].write_count = n /\ Recv(c) = n /\ Msgs(c) = {} /\ replies[c] = <<>>
      BY <1>2, <1>6, <1>7 DEF WritesOut, InfoOf
<1>10. sent = n
  <2>1. PICK M, pc : M = Msgs(c) /\ pc = call[c].pc
        OBVIOUS
  <2>2. Sends(M, pc, n, sent, base, n)
        BY <1>6, <1>7, <1>9, <2>1 DEF Sending
  <2> QED BY <1>8, <2>2, SendsAll
<1>11. writers[f] = 0
  <2>1. PICK i, w : i = info[f] /\ w = writers[f]
        OBVIOUS
  <2>2. w \in Nat /\ Counted(w, i) /\ i.write_count = n /\ i.current_write_count = n
        BY <1>3, <1>4, <1>9, <2>1 DEF CountInv, TypeInv, ServerType
  <2> QED BY <1>8, <2>1, <2>2, CountedAll
<1>12. /\ \A d \in Client : d # c => replies'[d] = replies[d]
       /\ Len(replies'[c]) = 1
  <2>1. <<>> \in Seq(Byte) /\ Len(<<>>) = 0 /\ 0 \in Nat
        BY EmptySeq
  <2>2. /\ \A d \in Client : d # c => replies'[d] = replies[d]
        /\ Len(replies'[c]) = Len(replies[c]) + 1
        BY <1>3, <1>4, <2>1, ReplyIs
  <2> QED BY <1>9, <2>1, <2>2
<1>13. /\ call' = call /\ wrote' = wrote /\ owner' = owner /\ info' = info /\ writers' = writers
       /\ main'.c = None /\ main'.pc = "probe"
      BY <1>3 DEF threads, Probe
<1>14. \A d \in Client : Msgs(d)' = Msgs(d) /\ (OrderedIn(aq, d) => OrderedIn(aq, d)')
      BY <1>3 DEF Msgs, OrderedIn
<1>15. Answered(c)'
  <2>1. InfoOf(c)' = info[f]
        BY <1>2, <1>13 DEF InfoOf
  <2> QED BY <1>3, <1>4, <1>7, <1>9, <1>10, <1>12, <1>13, <1>14, <2>1 DEF Answered
<1>16. WriteInv(c)'
      BY <1>4, <1>5, <1>13, <1>14, <1>15 DEF WriteInv
<1>17. CallInvOf(c)'
  <2>1. owner'[call'[c].fd] = c /\ ~ (writers'[call'[c].fd] > 0)
        BY <1>2, <1>4, <1>5, <1>11, <1>13 DEF CallInvOf
  <2> QED BY <1>4, <1>13, <1>16, <2>1 DEF CallInvOf
<1>18. Counted(writers[call[c].fd], info[call[c].fd])'
      BY <1>2, <1>4, <1>13 DEF CountInv, Counted
<1> QED BY <1>1, <1>4, <1>12, <1>13, <1>14, <1>17, <1>18, ServerCalls

LEMMA SwriteHeaderCalls ==
    ASSUME TypeInv, CallInv, CountInv, SwriteHeader
    PROVE  CallInv' /\ CountInv'
<1>1. PICK c : c = Source
      OBVIOUS
<1>2. PICK f : f = call[c].fd
      OBVIOUS
<1>3. PICK w : main' = [pc |-> "swrite", c |-> c, count |-> Head(aq).count, recv |-> 0, out |-> 0,
                     start |-> w]
      BY <1>1 DEF SwriteHeader
<1>4. /\ Probed("WRITE") /\ aq' = Tail(aq)
      /\ UNCHANGED <<call, wrote, replies, owner, info, threads>>
      BY DEF SwriteHeader
<1>5. /\ 1 \in DOMAIN aq /\ aq # <<>> /\ Head(aq) = aq[1] /\ aq[1].src = c /\ aq[1] \in Request
      /\ c \in Client /\ main.pc = "probe" /\ main.c = None /\ Open(c) /\ f \in Fd /\ aq[1] \in Msgs(c)
      /\ aq[1].op = "WRITE"
      BY <1>1, <1>2, <1>4, ProbedIs
<1>6. PICK j \in DOMAIN aq, x \in Request : j = 1 /\ x = aq[j]
      BY <1>5
<1>7. c # None
      BY <1>5, IbioAssumption
<1>8. /\ call[c].pc = "dwrite" /\ owner[f] = c /\ replies[c] = <<>>
      /\ OrderedIn(aq, c) /\ Sending(c) /\ WriteInv(c)
      /\ x.bytes = <<>> => x.count = call[c].count
      BY <1>2, <1>5, <1>6, CallOf DEF Header, ChunkOp
<1>9. aq[j].src = c /\ \A i \in 1 .. j - 1 : aq[i].src # c
      BY <1>5, <1>6
<1>10. x.bytes = <<>>
      BY <1>5, <1>6, <1>7, <1>8, <1>9, FirstOfWrite DEF Swrites, Receives
<1>11. Begins(c) /\ HeadsOf(Msgs(c) \ {x}) = {}
  <2>1. Begins(c) /\ HeadsOf(Msgs(c) \ {aq[j]}) = {}
        BY <1>5, <1>6, <1>8, <1>9, <1>10, FirstOfWrite
  <2> QED BY <1>6, <2>1
<1>12. /\ \A d \in Client : d # c => Msgs(d)' = Msgs(d)
       /\ \A d \in Client : OrderedIn(aq, d) => OrderedIn(aq, d)'
       /\ Msgs(c)' = Msgs(c) \ {x}
      BY <1>4, <1>5, <1>6, <1>8, TakeStep DEF TypeInv
<1>13. /\ writers' = writers /\ call' = call /\ replies' = replies /\ owner' = owner /\ wrote' = wrote
       /\ info' = info /\ main'.c = c /\ main'.recv = 0 /\ main'.pc = "swrite" /\ main'.count = x.count
      BY <1>3, <1>4, <1>5, <1>6 DEF threads
<1>14. Heads(c)' = {}
      BY <1>11, <1>12 DEF Heads
<1>15. Recv(c) = 0 /\ Recv(c)' = 0
  <2>1. Recv(c) = 0
        BY <1>11 DEF Recv, Begins
  <2>2. Recv(c)' = 0
        BY <1>8, <1>13, <1>14 DEF Recv
  <2> QED BY <2>1, <2>2
<1>16. Sending(c)'
  <2>1. x \in HeadsOf(Msgs(c))
        BY <1>5, <1>6, <1>10 DEF HeadsOf
  <2>2. Sends(Msgs(c) \ {x}, call[c].pc, call[c].count, call[c].sent, Base(c), Recv(c))
        BY <1>8, <2>1, SendsHeader DEF Sending
  <2>3. Base(c)' = Base(c)
        BY <1>13 DEF Base
  <2> QED BY <1>12, <1>13, <1>15, <2>2, <2>3 DEF Sending
<1>17. Swrites(c)'
      BY <1>8, <1>10, <1>13, <1>14 DEF Swrites
<1>18. WriteInv(c)'
      BY <1>5, <1>8, <1>12, <1>13, <1>16, <1>17 DEF WriteInv
<1>19. writers[f] = 0
      BY <1>2, <1>5, <1>8, NoWriters DEF Receives, WritesOut
<1>20. CallInvOf(c)'
      BY <1>2, <1>8, <1>13, <1>18, <1>19 DEF CallInvOf
<1>21. Counted(writers[call[c].fd], info[call[c].fd])'
      BY <1>2, <1>5, <1>13 DEF CountInv, Counted
<1> QED BY <1>2, <1>5, <1>8, <1>12, <1>13, <1>20, <1>21, ServerCalls

LEMMA SwriteRecvCalls ==
    ASSUME TypeInv, CallInv, CountInv, SwriteRecv
    PROVE  CallInv' /\ CountInv'
<1>1. PICK c : c = main.c
      OBVIOUS
<1>2. PICK i : i = FirstFrom(c, "WRITE")
      OBVIOUS
<1>3. /\ main.pc = "swrite" /\ main.recv < main.count
      /\ \E k \in DOMAIN aq : IsFrom(c, "WRITE", k)
      /\ aq' = Without(i)
      /\ main' = [main EXCEPT !.recv = @ + NextChunk(main.recv, main.count)]
      /\ UNCHANGED <<call, wrote, replies, owner, info, threads>>
      BY <1>1, <1>2 DEF SwriteRecv
<1>4. /\ c \in Client /\ Open(c) /\ c # None /\ call[c].pc = "dwrite" /\ call[c].fd \in Fd
      BY <1>1, <1>3, IbioAssumption DEF TypeInv, OpenInv, OpenInvOf, MainInv, CallInv, ServeInv
<1>5. i \in DOMAIN aq /\ aq[i].src = c /\ \A k \in 1 .. i - 1 : ~IsFrom(c, "WRITE", k)
      BY <1>2, <1>3, FirstFromIs DEF TypeInv, ClientType, IsFrom
<1>6. PICK j \in DOMAIN aq, x \in Request : j = i /\ x = aq[j] /\ x \in Msgs(c)
      BY <1>5, MessageOf
<1>7. /\ owner[call[c].fd] = c /\ replies[c] = <<>> /\ OrderedIn(aq, c) /\ Sending(c) /\ WriteInv(c)
      BY <1>4, <1>6, CallOf
<1>8. Swrites(c)
      BY <1>1, <1>4, <1>6, <1>7 DEF WriteInv, Begins, Receives, WritesOut, Answered
<1>9. \A k \in DOMAIN aq : aq[k].src = c => aq[k].op = "WRITE"
  <2>1. ASSUME NEW k \in DOMAIN aq, aq[k].src = c PROVE aq[k].op = "WRITE"
    <3>1. aq[k] \in Msgs(c)
          BY <2>1, MessageOf
    <3>2. aq[k].bytes # <<>>
          BY <1>8, <3>1 DEF Swrites, Heads, HeadsOf
    <3>3. PICK y : y = aq[k] /\ y \in Msgs(c)
          BY <3>1
    <3> QED BY <1>4, <3>2, <3>3, CallOf DEF ChunkOp
  <2> QED BY <2>1
<1>10. \A k \in 1 .. j - 1 : aq[k].src # c
  <2>1. \A k \in 1 .. j - 1 : k \in DOMAIN aq
        BY QueueOf DEF TypeInv, ClientType
  <2> QED BY <1>5, <1>6, <1>9, <2>1 DEF IsFrom
<1>11. aq[j].src = c /\ aq[j].bytes # <<>>
      BY <1>5, <1>6, <1>8 DEF Swrites, Heads, HeadsOf
<1>12. PICK n \in Nat, base \in Nat, r \in Nat : n = call[c].count /\ base = Base(c) /\ r = Recv(c)
      BY <1>4, <1>7, WriteNumbers
<1>13. /\ r < n /\ NextChunk(r, n) \in Nat /\ r + NextChunk(r, n) <= n
       /\ HeadsOf(Msgs(c) \ {aq[j]}) = {}
       /\ Sends(Msgs(c) \ {aq[j]}, call[c].pc, n, call[c].sent, base, r + NextChunk(r, n))
      BY <1>4, <1>10, <1>11, <1>12, TakeChunk
<1>14. r = main.recv /\ main.count = n
      BY <1>4, <1>8, <1>12 DEF Recv, Swrites
<1>15. /\ \A d \in Client : d # c => Msgs(d)' = Msgs(d)
       /\ \A d \in Client : OrderedIn(aq, d) => OrderedIn(aq, d)'
       /\ Msgs(c)' = Msgs(c) \ {aq[j]}
      BY <1>3, <1>6, <1>7, <1>11, TakeStep DEF TypeInv
<1>16. /\ writers' = writers /\ call' = call /\ replies' = replies /\ owner' = owner /\ wrote' = wrote
       /\ info' = info
      BY <1>3 DEF threads
<1>17. main'.c = c /\ main'.pc = "swrite" /\ main'.count = n /\ main'.recv = r + NextChunk(r, n)
  <2>1. main \in MainRecord
        BY DEF TypeInv, ServerType
  <2> QED BY <1>1, <1>3, <1>14, <2>1 DEF MainRecord
<1>18. Heads(c)' = {} /\ Base(c)' = base
      BY <1>12, <1>13, <1>15, <1>16 DEF Heads, Base
<1>19. Recv(c)' = r + NextChunk(r, n)
      BY <1>4, <1>16, <1>17, <1>18 DEF Recv
<1>20. Sending(c)'
      BY <1>12, <1>13, <1>15, <1>16, <1>18, <1>19 DEF Sending
<1>21. Swrites(c)'
      BY <1>4, <1>7, <1>12, <1>16, <1>17, <1>18 DEF Swrites
<1>22. WriteInv(c)'
      BY <1>4, <1>7, <1>15, <1>16, <1>20, <1>21 DEF WriteInv
<1>23. writers[call[c].fd] = 0
      BY <1>4, NoWriters DEF Receives, WritesOut
<1>24. CallInvOf(c)'
      BY <1>4, <1>7, <1>16, <1>22, <1>23 DEF CallInvOf
<1>25. Counted(writers[call[c].fd], info[call[c].fd])'
      BY <1>4, <1>16 DEF CountInv, Counted
<1> QED BY <1>1, <1>4, <1>15, <1>16, <1>17, <1>24, <1>25, ServerCalls

LEMMA SwriteReplyCalls ==
    ASSUME TypeInv, CallInv, CountInv, SwriteReply
    PROVE  CallInv' /\ CountInv'
<1>1. PICK c : c = main.c
      OBVIOUS
<1>2. /\ main.pc = "swrite" /\ main.recv = main.count /\ Reply(c, 0, <<>>)
      /\ main' = Probe /\ UNCHANGED <<call, wrote, aq, owner, info, threads>>
      BY <1>1 DEF SwriteReply
<1>3. c \in Client /\ Open(c) /\ c # None /\ call[c].pc = "dwrite" /\ call[c].fd \in Fd
      BY <1>1, <1>2, IbioAssumption DEF TypeInv, OpenInv, OpenInvOf, MainInv, CallInv, ServeInv
<1>4. CallInvOf(c) /\ WriteInv(c)
      BY <1>3 DEF CallInv, CallInvOf
<1>5. Swrites(c) /\ Sending(c)
      BY <1>1, <1>3, <1>4 DEF WriteInv, Begins, Receives, WritesOut, Answered
<1>6. PICK n \in Nat, sent \in Nat, base \in Nat :
         n = call[c].count /\ sent = call[c].sent /\ base = Base(c) /\ sent <= n
      BY <1>3, <1>4, <1>5, WriteNumbers
<1>7. Recv(c) = n /\ Heads(c) = {} /\ replies[c] = <<>>
      BY <1>2, <1>3, <1>5, <1>6 DEF Swrites, Recv
<1>8. sent = n /\ Msgs(c) = {}
  <2>1. PICK M, pc : M = Msgs(c) /\ pc = call[c].pc
        OBVIOUS
  <2>2. Sends(M, pc, n, sent, base, n)
        BY <1>5, <1>6, <1>7, <2>1 DEF Sending
  <2>3. sent = n /\ ChunksOf(M) = {}
        BY <1>6, <2>2, SendsAll
  <2> QED BY <1>7, <2>1, <2>3 DEF ChunksOf, HeadsOf, Heads
<1>9. /\ \A d \in Client : d # c => replies'[d] = replies[d]
      /\ Len(replies'[c]) = 1
  <2>1. <<>> \in Seq(Byte) /\ Len(<<>>) = 0 /\ 0 \in Nat
        BY EmptySeq
  <2>2. /\ \A d \in Client : d # c => replies'[d] = replies[d]
        /\ Len(replies'[c]) = Len(replies[c]) + 1
        BY <1>2, <1>3, <2>1, ReplyIs
  <2> QED BY <1>7, <2>1, <2>2
<1>10. /\ call' = call /\ wrote' = wrote /\ owner' = owner /\ info' = info /\ writers' = writers
       /\ main'.c = None /\ main'.pc = "probe"
      BY <1>2 DEF threads, Probe
<1>11. \A d \in Client : Msgs(d)' = Msgs(d) /\ (OrderedIn(aq, d) => OrderedIn(aq, d)')
      BY <1>2 DEF Msgs, OrderedIn
<1>12. Answered(c)'
      BY <1>3, <1>6, <1>8, <1>9, <1>10, <1>11 DEF Answered
<1>13. WriteInv(c)'
      BY <1>3, <1>4, <1>10, <1>11, <1>12 DEF WriteInv
<1>14. writers[call[c].fd] = 0
      BY <1>3, NoWriters DEF Receives, WritesOut
<1>15. CallInvOf(c)'
  <2>1. owner'[call'[c].fd] = c /\ ~ (writers'[call'[c].fd] > 0)
        BY <1>3, <1>4, <1>10, <1>14 DEF CallInvOf
  <2> QED BY <1>3, <1>10, <1>13, <2>1 DEF CallInvOf
<1>16. Counted(writers[call[c].fd], info[call[c].fd])'
      BY <1>3, <1>10 DEF CountInv, Counted
<1> QED BY <1>1, <1>3, <1>9, <1>10, <1>11, <1>15, <1>16, ServerCalls

\* Starting a reader thread, locking the file, and writing a chunk of ibtl_dwrite to the
\* file, change nothing of the calls.
LEMMA ReaderCalls ==
    ASSUME CallInv, CountInv,
           UNCHANGED <<call, wrote, aq, replies, owner, info, writers>>,
           main'.pc = main.pc, main'.c = main.c, main'.count = main.count, main'.recv = main.recv
    PROVE  CallInv' /\ CountInv'
<1>1. ASSUME NEW d \in Client PROVE Same(d)
      BY DEF Same, Msgs, OrderedIn
<1>2. \A d \in Client : CallInvOf(d)'
      BY <1>1, CallAlike DEF CallInv
<1>3. ServeInv' /\ CountInv'
      BY DEF CallInv, ServeInv, Open, CountInv, Counted
<1> QED BY <1>2, <1>3 DEF CallInv

LEMMA SwriteWriteCalls ==
    ASSUME TypeInv, CallInv, CountInv, SwriteWrite
    PROVE  CallInv' /\ CountInv'
<1>1. PICK k : main' = [main EXCEPT !.out = @ + k]
      BY DEF SwriteWrite
<1>2. main \in MainRecord
      BY DEF TypeInv, ServerType
<1>3. main'.pc = main.pc /\ main'.c = main.c /\ main'.count = main.count /\ main'.recv = main.recv
      BY <1>1, <1>2 DEF MainRecord
<1>4. UNCHANGED <<call, wrote, aq, replies, owner, info, writers>>
      BY DEF SwriteWrite, threads
<1> QED BY <1>3, <1>4, ReaderCalls

LEMMA SreadCalls ==
    ASSUME TypeInv, CallInv, CountInv, NEW c \in Client, Sread(c)
    PROVE  CallInv' /\ CountInv'
<1>1. PICK f, i : f = call[c].fd /\ i = FirstFrom(c, "READ")
      OBVIOUS
<1>2. /\ Open(c) /\ f \in Fd /\ i \in DOMAIN aq /\ aq[i].src = c /\ aq' = Without(i)
      /\ aq[i].op = "READ"
      /\ UNCHANGED <<plan, call, wrote, got, file, owner, info, writers, readers, main>>
      BY <1>1, SreadIs
<1>3. PICK n \in 0 .. CacheSize, m \in Nat, size \in Nat : Reads(c, f, i, n, m, size)
      BY <1>1, SreadIs
<1>4. PICK j \in DOMAIN aq, x \in Request : j = i /\ x = aq[j] /\ x \in Msgs(c)
      BY <1>2, MessageOf
<1>5. /\ call[c].pc = "read" /\ Msgs(c) = {x} /\ x.count = call[c].count /\ owner[f] = c
      /\ replies[c] = <<>> /\ call[c].sent = 0 /\ call[c].count > 0
      /\ OrderedIn(aq, c) /\ main.c # c
      BY <1>1, <1>2, <1>4, CallOf DEF Header, ChunkOp
<1>6. n = call[c].count /\ m = (n + ChunkSize - 1) \div ChunkSize /\ n \in Nat /\ n > 0
  <2>1. n = x.count /\ n = call[c].count /\ m = (n + ChunkSize - 1) \div ChunkSize
        BY <1>3, <1>4, <1>5 DEF Reads
  <2> QED BY <1>5, <2>1, IbioAssumption
<1>7. PICK l \in Nat : l = n
      BY <1>6
<1>8. m > 0 /\ (m - 1) * ChunkSize < l /\ l <= m * ChunkSize
  <2>1. /\ l <= m * ChunkSize /\ (l > 0 => m > 0)
        /\ \A k \in 1 .. m : (k - 1) * ChunkSize \in Nat /\ (k - 1) * ChunkSize < l
        BY <1>6, <1>7, ChunksOfRead
  <2>2. m > 0 /\ m \in 1 .. m
        BY <1>6, <1>7, <2>1
  <2> QED BY <2>1, <2>2
<1>9. /\ Len(replies'[c]) = m /\ \A d \in Client : d # c => replies'[d] = replies[d]
  <2>1. PICK filled \in [Place -> Byte] : filled = Filled(f, size)
        BY <1>2, <1>3, FilledType DEF Reads
  <2>2. PICK data : data = DataOf(c, n, m, filled) /\ data \in Seq(Answer) /\ Len(data) = m
        BY <1>6, DataType
  <2>3. replies \in [Client -> Seq(Answer)] /\ <<>> \o data = data
        BY <2>2, EmptySeq, ConcatProperties DEF TypeInv, ClientType
  <2>4. replies' = [replies EXCEPT ![c] = @ \o data]
        BY <1>3, <2>1, <2>2 DEF Reads
  <2> QED BY <1>5, <2>2, <2>3, <2>4
<1>10. /\ \A d \in Client : d # c => Msgs(d)' = Msgs(d)
       /\ \A d \in Client : OrderedIn(aq, d) => OrderedIn(aq, d)'
       /\ Msgs(c)' = Msgs(c) \ {x}
      BY <1>2, <1>4, <1>5, TakeStep DEF TypeInv
<1>11. Msgs(c)' = {}
      BY <1>5, <1>10
<1>12. ReadInv(c)'
  <2>1. OrderedIn(aq, c)' /\ main'.c # c
        BY <1>2, <1>5, <1>10
  <2>2. call'[c].count - call'[c].sent = l
        BY <1>2, <1>5, <1>6, <1>7
  <2> QED BY <1>8, <1>9, <1>11, <2>1, <2>2 DEF ReadInv
<1>13. writers[f] = 0
      BY <1>1, <1>2, <1>5, NoWriters DEF Receives, WritesOut
<1>14. CallInvOf(c)'
      BY <1>1, <1>2, <1>5, <1>12, <1>13 DEF CallInvOf
<1>15. ASSUME NEW d \in Client, d # c PROVE Same(d)
      BY <1>2, <1>9, <1>10, <1>15 DEF Same
<1>16. ServeInv' /\ CountInv'
      BY <1>2 DEF CallInv, ServeInv, Open, CountInv, Counted
<1> QED BY <1>14, <1>15, <1>16, CallsStep

\* Nobody closes a file.
LEMMA NoClose ==
    ASSUME TypeInv, CallInv
    PROVE  ~Sclose /\ \A c \in Client : ~CloseReturns(c)
<1>1. ASSUME Sclose PROVE FALSE
  <2>1. PICK c : c = Source
        OBVIOUS
  <2>2. Probed("CLOSE")
        BY <1>1 DEF Sclose
  <2>3. c \in Client /\ Open(c) /\ aq[1] \in Msgs(c) /\ aq[1].op = "CLOSE"
        BY <2>1, <2>2, ProbedIs
  <2>4. PICK x : x = aq[1] /\ x \in Msgs(c) /\ x.op = "CLOSE"
        BY <2>3
  <2> QED BY <2>3, <2>4, CallOf DEF Header, ChunkOp
<1>2. ASSUME NEW c \in Client, CloseReturns(c) PROVE FALSE
      BY <1>2 DEF CloseReturns, CallInv, CallInvOf
<1> QED BY <1>1, <1>2

\* What a chunk thread changes.
LEMMA WriteChunkIs ==
    ASSUME TypeInv, CountInv, NEW f \in Fd, WriteChunk(f)
    PROVE  \E n \in Nat, v \in Nat, r \in Nat :
             /\ info[f].write_count = n /\ info[f].current_write_count = v /\ info[f].current_recv_size = r
             /\ v < n /\ NextChunk(v, n) \in Nat /\ v + NextChunk(v, n) <= r /\ writers[f] > 0 /\ r <= n
             /\ \A g \in Fd : g # f => info'[g] = info[g] /\ writers'[g] = writers[g]
             /\ writers'[f] = writers[f] - 1 /\ info'[f].fd = info[f].fd
             /\ info'[f].write_count = n /\ info'[f].current_recv_size = r
             /\ info'[f].current_write_count = v + NextChunk(v, n)
             /\ Counted(writers'[f], info'[f])
<1>1. PICK k : k = NextChunk(info[f].current_write_count, info[f].write_count)
      OBVIOUS
<1>2. /\ info' = [info EXCEPT ![f].current_write_count = info[f].current_write_count + k]
      /\ writers[f] > 0 /\ writers' = [writers EXCEPT ![f] = @ - 1]
      BY <1>1 DEF WriteChunk
<1>3. info \in [Fd -> InfoRecord] /\ writers \in [Fd -> Nat] /\ info[f] \in InfoRecord /\ info[f].current_recv_size <= info[f].write_count
      BY DEF TypeInv, ServerType
<1>4. PICK n \in Nat, v \in Nat, r \in Nat :
         info[f].write_count = n /\ info[f].current_write_count = v /\ info[f].current_recv_size = r
      BY <1>3, IbioAssumption DEF InfoRecord
<1>5. /\ \A g \in Fd : g # f => info'[g] = info[g] /\ writers'[g] = writers[g]
      /\ writers'[f] = writers[f] - 1 /\ info'[f].fd = info[f].fd
      /\ info'[f].write_count = n /\ info'[f].current_recv_size = r
      /\ info'[f].current_write_count = v + NextChunk(v, n)
      BY <1>1, <1>2, <1>3, <1>4 DEF InfoRecord
<1>6. PICK w \in Nat : w = writers[f] /\ w > 0
      BY <1>2, <1>3
<1>7. PICK i, j : i = info[f] /\ j = info'[f]
      OBVIOUS
<1>8. Counted(w, i)
      BY <1>6, <1>7 DEF CountInv
<1>9. /\ i.write_count = n /\ i.current_recv_size = r /\ i.current_write_count = v
      /\ j.write_count = n /\ j.current_recv_size = r /\ j.current_write_count = v + NextChunk(v, n)
      BY <1>4, <1>5, <1>7
<1>10. Counted(w - 1, j) /\ v < n /\ v + NextChunk(v, n) <= r
      BY <1>6, <1>8, <1>9, CountedLess
<1>11. Counted(writers'[f], info'[f])
      BY <1>5, <1>6, <1>7, <1>10
<1>12. NextChunk(v, n) \in Nat /\ r <= n
      BY <1>3, <1>4, <1>10, ChunkType
<1> QED BY <1>2, <1>4, <1>5, <1>10, <1>11, <1>12

LEMMA WriteChunkCalls ==
    ASSUME TypeInv, CallInv, CountInv, NEW f \in Fd, WriteChunk(f)
    PROVE  CallInv' /\ CountInv'
<1>1. UNCHANGED <<plan, call, wrote, got, aq, replies, owner, cache, fastmutex, readers, reading, main>>
      BY DEF WriteChunk
<1>2. PICK n \in Nat, v \in Nat, r \in Nat :
             /\ info[f].write_count = n /\ info[f].current_write_count = v /\ info[f].current_recv_size = r
             /\ v < n /\ NextChunk(v, n) \in Nat /\ v + NextChunk(v, n) <= r /\ writers[f] > 0 /\ r <= n
             /\ \A g \in Fd : g # f => info'[g] = info[g] /\ writers'[g] = writers[g]
             /\ writers'[f] = writers[f] - 1 /\ info'[f].fd = info[f].fd
             /\ info'[f].write_count = n /\ info'[f].current_recv_size = r
             /\ info'[f].current_write_count = v + NextChunk(v, n)
             /\ Counted(writers'[f], info'[f])
      BY WriteChunkIs
<1>3. PICK c \in Client : Open(c) /\ call[c].fd = f
      BY <1>2 DEF CallInv, ServeInv
<1>4. Receives(c) \/ WritesOut(c)
      BY <1>2, <1>3 DEF CallInv, CallInvOf
<1>5. call[c].pc = "write" /\ CallInvOf(c) /\ WriteInv(c) /\ Sending(c) /\ replies[c] = <<>>
  <2>1. call[c].pc = "write" /\ replies[c] = <<>> /\ CallInvOf(c)
        BY <1>4 DEF Receives, WritesOut, CallInv
  <2>2. WriteInv(c)
        BY <2>1 DEF CallInvOf
  <2>3. ~Answered(c)
        BY <2>1, EmptySeq DEF Answered
  <2> QED BY <2>1, <2>2, <2>3 DEF WriteInv
<1>6. /\ Msgs(c)' = Msgs(c) /\ OrderedIn(aq, c)' = OrderedIn(aq, c) /\ Heads(c)' = Heads(c) /\ Base(c)' = Base(c)
      BY <1>1 DEF Msgs, OrderedIn, Heads, Base
<1>7. InfoOf(c) = info[f] /\ InfoOf(c)' = info'[f]
      BY <1>1, <1>3 DEF InfoOf
<1>8. Recv(c)' = Recv(c)
      BY <1>1, <1>2, <1>5, <1>6, <1>7 DEF Recv
<1>9. Sending(c)'
      BY <1>1, <1>5, <1>6, <1>8 DEF Sending
<1>10. Receives(c)' \/ WritesOut(c)'
      BY <1>1, <1>2, <1>4, <1>6, <1>7, <1>8 DEF Receives, WritesOut
<1>11. WriteInv(c)'
      BY <1>1, <1>5, <1>6, <1>9, <1>10 DEF WriteInv
<1>12. CallInvOf(c)'
      BY <1>1, <1>3, <1>5, <1>10, <1>11 DEF CallInvOf
<1>13. ASSUME NEW d \in Client, d # c PROVE Same(d)
  <2>1. Open(d) => call[d].fd \in Fd /\ call[d].fd # f
        BY <1>3, <1>13, OwnDescriptors
  <2>2. Msgs(d)' = Msgs(d) /\ OrderedIn(aq, d)' = OrderedIn(aq, d)
        BY <1>1 DEF Msgs, OrderedIn
  <2> QED BY <1>1, <1>2, <2>1, <2>2 DEF Same
<1>14. ServeInv'
  <2>1. ASSUME NEW g \in Fd, writers'[g] > 0 PROVE writers[g] > 0
        BY <1>2, <2>1
  <2>2. \A d \in Client : Open(d)' <=> Open(d)
        BY <1>1 DEF Open
  <2> QED BY <1>1, <2>1, <2>2 DEF CallInv, ServeInv
<1>15. CountInv'
  <2>1. ASSUME NEW g \in Fd PROVE Counted(writers'[g], info'[g])
    <3>1. CASE g = f
          BY <1>2, <3>1
    <3>2. CASE g # f
          BY <1>2, <3>2 DEF CountInv
    <3> QED BY <3>1, <3>2
  <2> QED BY <2>1 DEF CountInv, Counted
<1> QED BY <1>12, <1>13, <1>14, <1>15, CallsStep

LEMMA InitCalls ==
    ASSUME Init
    PROVE  CallInv /\ CountInv
<1>1. \A c \in Client : call[c].pc = "idle" /\ replies[c] = <<>>
      BY DEF Init, Idle
<1>2. \A c \in Client : CallInvOf(c)
      BY <1>1 DEF CallInvOf, Open
<1>3. \A f \in Fd : writers[f] = 0
      BY DEF Init
<1>4. ServeInv
      BY <1>3 DEF Init, Probe, ServeInv
<1>5. ASSUME NEW f \in Fd PROVE Counted(writers[f], info[f])
  <2>1. PICK i : i = info[f]
        OBVIOUS
  <2>2. i.write_count \in Nat /\ i.current_recv_size = 0 /\ i.current_write_count = 0
        BY <2>1 DEF Init, Zero
  <2>3. Counted(0, i)
        BY <2>2, CountedNone
  <2> QED BY <1>3, <2>1, <2>3
<1> QED BY <1>2, <1>4, <1>5 DEF CallInv, CountInv

\* What is done in a run does not change.
LEMMA PlanStays ==
    ASSUME [Next]_vars
    PROVE  plan' = plan
<1>1. CASE UNCHANGED vars
      BY <1>1 DEF vars
<1>2. ASSUME NEW c \in Client PROVE OpenCall(c) \/ OpenReturns(c) \/ SendChunk(c) \/ WriteReturns(c)
          \/ ReadChunk(c) \/ CloseReturns(c) \/ SreadLock(c) \/ Sread(c) => plan' = plan
      BY DEF OpenCall, OpenReturns, SendChunk, WriteReturns, ReadChunk, CloseReturns, SreadLock, Sread, server
<1>3. ASSUME NEW c \in Client, NEW op, NEW n, Begin(c, op, n) PROVE plan' = plan
      BY <1>3 DEF Begin, server
<1>4. ASSUME NEW f \in Fd, WriteChunk(f) PROVE plan' = plan
      BY <1>4 DEF WriteChunk
<1> QED BY <1>1, <1>2, <1>3, <1>4, NextIs

LEMMA NextCalls ==
    ASSUME TypeInv, CallInv, CountInv, Plain, [Next]_vars
    PROVE  CallInv' /\ CountInv'
<1>1. CASE UNCHANGED vars
      BY <1>1, ReaderCalls DEF vars
<1>2. ASSUME NEW c \in Client, OpenCall(c) PROVE CallInv' /\ CountInv'
      BY <1>2, OpenCallCalls
<1>3. ASSUME NEW c \in Client, NEW op \in plan.ops, NEW n \in plan.counts \cup {0},
             op = "close" <=> n = 0, Begin(c, op, n)
      PROVE  CallInv' /\ CountInv'
      BY <1>3, BeginCalls
<1>4. ASSUME NEW c \in Client, OpenReturns(c) PROVE CallInv' /\ CountInv'
      BY <1>4, OpenReturnsCalls
<1>5. ASSUME NEW c \in Client, SendChunk(c) PROVE CallInv' /\ CountInv'
      BY <1>5, SendChunkCalls
<1>6. ASSUME NEW c \in Client, WriteReturns(c) PROVE CallInv' /\ CountInv'
      BY <1>6, WriteReturnsCalls
<1>7. ASSUME NEW c \in Client, ReadChunk(c) PROVE CallInv' /\ CountInv'
      BY <1>7, ReadChunkCalls
<1>8. ASSUME NEW c \in Client, SreadLock(c) PROVE CallInv' /\ CountInv'
      BY <1>8, ReaderCalls DEF SreadLock
<1>9. ASSUME NEW c \in Client, Sread(c) PROVE CallInv' /\ CountInv'
      BY <1>9, SreadCalls
<1>10. ASSUME NEW f \in Fd, WriteChunk(f) PROVE CallInv' /\ CountInv'
      BY <1>10, WriteChunkCalls
<1>11. CASE Sopen \/ SwriteBegin \/ SwriteChunk \/ SwriteAck
      BY <1>11, SopenCalls, SwriteBeginCalls, SwriteChunkCalls, SwriteAckCalls
<1>12. CASE SwriteHeader \/ SwriteRecv \/ SwriteWrite \/ SwriteReply
      BY <1>12, SwriteHeaderCalls, SwriteRecvCalls, SwriteWriteCalls, SwriteReplyCalls
<1>13. CASE SreadAsync
      BY <1>13, ReaderCalls DEF SreadAsync
<1>14. ~Sclose /\ \A c \in Client : ~CloseReturns(c)
      BY NoClose
<1> QED BY <1>1, <1>2, <1>3, <1>4, <1>5, <1>6, <1>7, <1>8, <1>9, <1>10, <1>11, <1>12, <1>13, <1>14, NextIs

LEMMA InvTypeOK ==
    ASSUME TypeInv, Plain => CountInv
    PROVE  TypeOK
<1>1. ClientType /\ ServerType
      BY DEF TypeInv
<1>2. ASSUME NEW c \in Client
      PROVE  /\ call[c].fd \in Fd \cup {None} /\ call[c].sent \in 0 .. call[c].count
             /\ wrote[c] \in Nat /\ readers[c] \in 0 .. MaxReaders /\ reading[c] \in Nat
  <2>1. call[c] \in CallRecord /\ call[c].sent <= call[c].count
        BY <1>1 DEF ClientType
  <2>2. call[c].sent \in 0 .. call[c].count /\ call[c].fd \in Fd \cup {None}
        BY <2>1, IbioAssumption DEF CallRecord
  <2> QED BY <1>1, <2>2 DEF ClientType, ServerType
<1>3. ASSUME NEW f \in Fd
      PROVE  /\ owner[f] \in Client \cup {None} /\ fastmutex[f] \in BOOLEAN /\ writers[f] \in Nat
             /\ pos[f] \in 0 .. Len(file[f]) /\ info[f].write_count \in 0 .. CacheSize
             /\ info[f].current_write_count \in 0 .. info[f].write_count
             /\ info[f].current_recv_size \in 0 .. info[f].write_count
  <2>1. /\ info[f] \in InfoRecord /\ info[f].current_write_count <= info[f].write_count
        /\ info[f].current_recv_size <= info[f].write_count
        BY <1>1 DEF ServerType
  <2>2. /\ info[f].write_count \in 0 .. CacheSize
        /\ info[f].current_write_count \in 0 .. info[f].write_count
        /\ info[f].current_recv_size \in 0 .. info[f].write_count
        BY <2>1, IbioAssumption DEF InfoRecord
  <2>3. pos[f] \in 0 .. Len(file[f])
    <3>1. pos[f] \in Nat /\ pos[f] <= Len(file[f]) /\ file[f] \in Seq(Byte)
          BY <1>1 DEF ServerType
    <3>2. Len(file[f]) \in Nat
          BY <3>1, LenProperties
    <3> QED BY <3>1, <3>2
  <2> QED BY <1>1, <2>2, <2>3 DEF ServerType
<1>4. ASSUME NEW i \in DOMAIN aq PROVE aq[i].src \in Client /\ aq[i].count \in Nat
  <2>1. aq[i] \in Request
        BY <1>1, QueueOf DEF ClientType
  <2> QED BY <2>1, RequestBytes DEF Request
<1>5. WritesOnlyReceived
  <2> SUFFICES ASSUME Plain, NEW f \in Fd
               PROVE  info[f].current_write_count <= info[f].current_recv_size
      BY DEF WritesOnlyReceived, Plain
  <2>1. PICK n \in Nat : n = info[f].write_count
    <3>1. info[f] \in InfoRecord
          BY <1>1 DEF ServerType
    <3> QED BY <3>1, IbioAssumption DEF InfoRecord
  <2>2. PICK a \in Nat, b \in Nat : b <= a /\ info[f].current_recv_size = Upto(a, n)
                                    /\ info[f].current_write_count = Upto(b, n)
        BY <2>1 DEF CountInv, Counted
  <2> QED BY <2>2, UptoGrows
<1> QED BY <1>2, <1>3, <1>4, <1>5 DEF TypeOK

\* Every variable keeps its type, whatever calls clients make, close included.  In particular
\* the threads of ibvio_swrite_chunk never find less than nothing left to write, every counter
\* of open_info stays within the cache and, as long as no file is closed, no thread writes a
\* byte out that has not been received, for any number of clients and any sizes.
THEOREM TypeCorrect == Spec => []TypeOK
<1> DEFINE I == TypeInv /\ (Plain => CallInv /\ CountInv)
<1>1. Init => I
      BY InitType, InitCalls
<1>2. I /\ [Next]_vars => I'
  <2> SUFFICES ASSUME I, [Next]_vars PROVE I'
      OBVIOUS
  <2>1. TypeInv'
        BY NextType
  <2>2. ASSUME Plain' PROVE CallInv' /\ CountInv'
    <3>1. Plain
          BY <2>2, PlanStays DEF Plain
    <3> QED BY <3>1, NextCalls
  <2> QED BY <2>1, <2>2
<1>3. I => TypeOK
      BY InvTypeOK
<1> QED BY <1>1, <1>2, <1>3, PTL DEF Spec

----------------------------------------------------------------------------
(* What is stored *)

\* What a step leaves alone of client d and of its file.
Kept(d) ==
    /\ Msgs(d)' = Msgs(d) /\ call'[d] = call[d] /\ wrote'[d] = wrote[d] /\ got'[d] = got[d]
    /\ replies'[d] = replies[d]
    /\ Open(d) => LET f == call[d].fd IN
         file'[f] = file[f] /\ pos'[f] = pos[f] /\ info'[f] = info[f] /\ cache'[f] = cache[f]
    /\ call[d].pc = "open" /\ replies[d] # <<>> => LET f == replies[d][1].count IN
         file'[f] = file[f] /\ pos'[f] = pos[f] /\ info'[f] = info[f]

LEMMA StoreAlike ==
    ASSUME NEW d \in Client, StoreInvOf(d), Kept(d)
    PROVE  StoreInvOf(d)'
<1>1. call'[d] = call[d] /\ Open(d)' = Open(d) /\ Heads(d)' = Heads(d) /\ Base(d)' = Base(d)
      BY DEF Kept, Open, Heads, Base
<1>2. Open(d) => InfoOf(d)' = InfoOf(d) /\ Stored(d)' = Stored(d)
      BY <1>1 DEF Kept, InfoOf, Stored
<1>3. Open(d) /\ call[d].pc = "write" => Recv(d)' = Recv(d)
      BY <1>1, <1>2 DEF Recv
<1>4. ASSUME Open(d)
      PROVE  LET f == call[d].fd IN
             /\ Holds(file'[f], Stored(d)') /\ pos'[f] = Stored(d)' /\ info'[f].fd = f
             /\ call[d].pc = "write" /\ Heads(d)' = {} =>
                  \A i \in 0 .. Recv(d)' - 1 : cache'[f][i] = Base(d)' + i + 1
      BY <1>1, <1>2, <1>3, <1>4 DEF StoreInvOf, Kept
<1>5. ASSUME call[d].pc = "open", replies[d] # <<>>
      PROVE  LET f == replies[d][1].count IN Holds(file'[f], 0) /\ pos'[f] = 0 /\ info'[f].fd = f
      BY <1>5 DEF StoreInvOf, Kept
<1>6. /\ call'[d].pc \in {"idle", "open", "ready", "write"} /\ replies'[d] = replies[d]
      /\ call'[d].pc \in {"idle", "open"} => wrote'[d] = 0
      BY DEF StoreInvOf, Kept
<1> QED BY <1>1, <1>4, <1>5, <1>6 DEF StoreInvOf

LEMMA StoreStep ==
    ASSUME StoreInv, NEW c \in Client, \A d \in Client : d # c => Kept(d), StoreInvOf(c)'
    PROVE  StoreInv'
<1>1. ASSUME NEW d \in Client PROVE StoreInvOf(d)'
  <2>1. CASE d # c
        BY <2>1, StoreAlike DEF StoreInv
  <2> QED BY <2>1
<1> QED BY <1>1 DEF StoreInv

\* A step of client c: the server does nothing, and other clients keep their calls.
LEMMA ClientKept ==
    ASSUME UNCHANGED server, NEW d \in Client, Msgs(d)' = Msgs(d), call'[d] = call[d],
           wrote'[d] = wrote[d], got'[d] = got[d], replies'[d] = replies[d]
    PROVE  Kept(d)
BY DEF server, Kept

LEMMA OpenCallStore ==
    ASSUME TypeInv, StoreInv, NEW c \in Client, OpenCall(c)
    PROVE  StoreInv'
<1>1. PICK x : x = Msg(c, "OPEN", 0, <<>>)
      OBVIOUS
<1>2. /\ call[c].pc = "idle" /\ aq' = Append(aq, x) /\ call' = [call EXCEPT ![c].pc = "open"]
      /\ UNCHANGED <<wrote, got, replies, server>>
      BY <1>1 DEF OpenCall, Send
<1>3. x \in Request /\ x.src = c
  <2>1. <<>> \in Seq(Nat) /\ 0 \in 0 .. CacheSize
        BY EmptySeq, IbioAssumption
  <2> QED BY <1>1, <2>1 DEF Msg, Request
<1>4. \A d \in Client : d # c => Msgs(d)' = Msgs(d)
      BY <1>2, <1>3, SendStep DEF TypeInv
<1>5. call'[c].pc = "open" /\ \A d \in Client : d # c => call'[d] = call[d]
      BY <1>2 DEF TypeInv, ClientType, CallRecord
<1>6. \A d \in Client : d # c => Kept(d)
      BY <1>2, <1>4, <1>5, ClientKept
<1>7. replies'[c] = <<>> /\ wrote'[c] = 0
      BY <1>2 DEF TypeInv, OpenInv, OpenInvOf, StoreInv, StoreInvOf
<1>8. StoreInvOf(c)'
      BY <1>5, <1>7 DEF StoreInvOf, Open
<1> QED BY <1>6, <1>8, StoreStep

LEMMA OpenReturnsStore ==
    ASSUME TypeInv, StoreInv, NEW c \in Client, OpenReturns(c)
    PROVE  StoreInv'
<1>1. PICK f : f = replies[c][1].count
      OBVIOUS
<1>2. /\ call[c].pc = "open" /\ replies[c] # <<>> /\ replies' = [replies EXCEPT ![c] = Tail(@)]
      /\ UNCHANGED <<wrote, got, aq, server>>
      BY DEF OpenReturns
<1>3. Head(replies[c]) = replies[c][1] /\ \A d \in Client : d # c => replies'[d] = replies[d]
      BY <1>2, TailOfReplies
<1>4. call'[c].pc = "ready" /\ call'[c].fd = f /\ \A d \in Client : d # c => call'[d] = call[d]
      BY <1>1, <1>3 DEF OpenReturns, Idle, TypeInv, ClientType
<1>5. Holds(file[f], 0) /\ pos[f] = 0 /\ info[f].fd = f /\ wrote[c] = 0
      BY <1>1, <1>2 DEF StoreInv, StoreInvOf
<1>6. \A d \in Client : d # c => Kept(d)
      BY <1>2, <1>3, <1>4, ClientKept DEF Msgs
<1>7. Stored(c)' = 0
      BY <1>2, <1>4, <1>5 DEF Stored
<1>8. file' = file /\ pos' = pos /\ info' = info
      BY <1>2 DEF server
<1>9. StoreInvOf(c)'
      BY <1>4, <1>5, <1>7, <1>8 DEF StoreInvOf
<1> QED BY <1>6, <1>9, StoreStep

LEMMA BeginStore ==
    ASSUME TypeInv, WriteOnly, StoreInv, NEW c \in Client, NEW op \in plan.ops,
           NEW n \in plan.counts \cup {0}, Begin(c, op, n)
    PROVE  StoreInv'
<1>1. op = "write"
      BY DEF WriteOnly
<1>2. PICK x : x = Msg(c, "WRITE_BEGIN", n, <<>>)
      OBVIOUS
<1>3. /\ call[c].pc = "ready" /\ aq' = Append(aq, x)
      /\ call' = [call EXCEPT ![c].pc = op, ![c].count = n, ![c].sent = 0, ![c].ops = @ + 1]
      /\ UNCHANGED <<wrote, got, replies, server>>
      BY <1>1, <1>2 DEF Begin, Send, Header
<1>4. x \in Request /\ x.src = c /\ x.bytes = <<>>
  <2>1. <<>> \in Seq(Nat) /\ n \in 0 .. CacheSize
        BY EmptySeq, IbioAssumption DEF TypeInv, ClientType
  <2> QED BY <1>2, <2>1 DEF Msg, Request
<1>5. Msgs(c)' = Msgs(c) \cup {x} /\ \A d \in Client : d # c => Msgs(d)' = Msgs(d)
      BY <1>3, <1>4, SendStep DEF TypeInv
<1>6. /\ call'[c].pc = "write" /\ call'[c].sent = 0 /\ call'[c].fd = call[c].fd
      /\ \A d \in Client : d # c => call'[d] = call[d]
      BY <1>1, <1>3 DEF TypeInv, ClientType, CallRecord
<1>7. \A d \in Client : d # c => Kept(d)
      BY <1>3, <1>5, <1>6, ClientKept
<1>8. Heads(c)' # {}
      BY <1>4, <1>5 DEF Heads, HeadsOf
<1>9. Stored(c)' = wrote[c] /\ Stored(c) = wrote[c]
  <2>1. wrote[c] \in Nat
        BY DEF TypeInv, ClientType
  <2> QED BY <1>3, <1>6, <1>8, <2>1 DEF Stored, Base
<1>10. Open(c) /\ file' = file /\ pos' = pos /\ info' = info
      BY <1>3 DEF server, Open
<1>11. StoreInvOf(c)
      BY DEF StoreInv
<1>12. LET f == call[c].fd IN Holds(file'[f], Stored(c)') /\ pos'[f] = Stored(c)' /\ info'[f].fd = f
      BY <1>9, <1>10, <1>11 DEF StoreInvOf
<1>13. StoreInvOf(c)'
      BY <1>6, <1>8, <1>12 DEF StoreInvOf
<1> QED BY <1>7, <1>13, StoreStep

LEMMA SendChunkStore ==
    ASSUME TypeInv, CallInv, CountInv, StoreInv, NEW c \in Client, SendChunk(c)
    PROVE  StoreInv'
<1>1. Heads(c)' = Heads(c) /\ Base(c)' = Base(c)
      BY SendChunkCalls
<1>2. PICK k, b, op : /\ call' = [call EXCEPT ![c].sent = @ + k] /\ aq' = Append(aq, Msg(c, op, k, b))
                      /\ wrote' = [wrote EXCEPT ![c] = @ + k] /\ call[c].pc \in {"write", "dwrite"}
      BY DEF SendChunk, Send
<1>3. UNCHANGED <<got, replies, server>>
      BY DEF SendChunk
<1>4. StoreInvOf(c) /\ call[c].pc = "write" /\ Open(c)
      BY <1>2 DEF StoreInv, StoreInvOf, Open
<1>5. /\ call'[c].pc = "write" /\ call'[c].fd = call[c].fd
      /\ \A d \in Client : d # c => call'[d] = call[d] /\ wrote'[d] = wrote[d]
      BY <1>2, <1>4 DEF TypeInv, ClientType, CallRecord
<1>6. \A d \in Client : d # c => Msgs(d)' = Msgs(d)
      BY SendChunkCalls
<1>7. \A d \in Client : d # c => Kept(d)
      BY <1>3, <1>5, <1>6, ClientKept
<1>8. file' = file /\ pos' = pos /\ info' = info /\ cache' = cache
      BY <1>3 DEF server
<1>9. Stored(c)' = Stored(c) /\ Recv(c)' = Recv(c)
      BY <1>1, <1>4, <1>5, <1>8 DEF Stored, Recv, InfoOf
<1>10. LET f == call[c].fd IN
       /\ Holds(file'[f], Stored(c)') /\ pos'[f] = Stored(c)' /\ info'[f].fd = f
       /\ Heads(c)' = {} => \A i \in 0 .. Recv(c)' - 1 : cache'[f][i] = Base(c)' + i + 1
      BY <1>1, <1>4, <1>8, <1>9 DEF StoreInvOf
<1>11. StoreInvOf(c)'
      BY <1>5, <1>10 DEF StoreInvOf
<1> QED BY <1>7, <1>11, StoreStep

\* A step of the server for client c: other clients have other descriptors.
LEMMA ServerKept ==
    ASSUME TypeInv, CallInv, NEW c \in Client, Open(c), UNCHANGED <<call, wrote, got>>,
           \A g \in Fd : g # call[c].fd => /\ file'[g] = file[g] /\ pos'[g] = pos[g]
                                           /\ info'[g] = info[g] /\ cache'[g] = cache[g],
           NEW d \in Client, d # c, Msgs(d)' = Msgs(d), replies'[d] = replies[d]
    PROVE  Kept(d)
<1>1. Open(d) => call[d].fd \in Fd /\ call[d].fd # call[c].fd
      BY OwnDescriptors
<1>2. ASSUME call[d].pc = "open", replies[d] # <<>>
      PROVE  replies[d][1].count \in Fd /\ replies[d][1].count # call[c].fd
  <2>1. owner[replies[d][1].count] = d /\ owner[call[c].fd] = c
        BY <1>2 DEF CallInv, CallInvOf
  <2>2. replies[d][1].count \in Fd
        BY <1>2 DEF TypeInv, OpenInv, OpenInvOf, Opening
  <2> QED BY <2>1, <2>2
<1> QED BY <1>1, <1>2 DEF Kept

LEMMA WriteReturnsStore ==
    ASSUME TypeInv, CallInv, StoreInv, NEW c \in Client, WriteReturns(c)
    PROVE  StoreInv'
<1>1. /\ call[c].pc \in {"write", "dwrite"} /\ replies[c] # <<>> /\ replies' = [replies EXCEPT ![c] = Tail(@)]
      /\ UNCHANGED <<wrote, got, aq, server>>
      BY DEF WriteReturns
<1>2. StoreInvOf(c) /\ call[c].pc = "write" /\ Open(c) /\ WriteInv(c)
      BY <1>1 DEF StoreInv, StoreInvOf, Open, CallInv, CallInvOf
<1>3. /\ call'[c].pc = "ready" /\ call'[c].fd = call[c].fd
      /\ \A d \in Client : d # c => call'[d] = call[d]
      BY DEF WriteReturns, TypeInv, ClientType, CallRecord
<1>4. \A d \in Client : d # c => replies'[d] = replies[d]
      BY <1>1, TailOfReplies
<1>5. \A d \in Client : d # c => Kept(d)
      BY <1>1, <1>3, <1>4, ClientKept DEF Msgs
<1>6. /\ Msgs(c) = {} /\ call[c].sent = call[c].count /\ InfoOf(c).current_write_count = call[c].count
      /\ call[c].sent <= wrote[c]
      BY <1>1, <1>2 DEF WriteInv, Begins, Receives, WritesOut, Swrites, Answered
<1>7. Stored(c) = wrote[c] /\ Stored(c)' = wrote[c]
  <2>1. call[c] \in CallRecord /\ wrote[c] \in Nat
        BY DEF TypeInv, ClientType
  <2>2. call[c].sent \in Nat
        BY <2>1 DEF CallRecord
  <2>3. Heads(c) = {}
        BY <1>6 DEF Heads, HeadsOf
  <2>4. Stored(c) = wrote[c]
        BY <1>2, <1>6, <2>1, <2>2, <2>3 DEF Stored, Base
  <2> QED BY <1>1, <1>3, <2>4 DEF Stored
<1>8. file' = file /\ pos' = pos /\ info' = info
      BY <1>1 DEF server
<1>9. LET f == call[c].fd IN Holds(file'[f], Stored(c)') /\ pos'[f] = Stored(c)' /\ info'[f].fd = f
      BY <1>2, <1>7, <1>8 DEF StoreInvOf
<1>10. StoreInvOf(c)'
      BY <1>3, <1>9 DEF StoreInvOf
<1> QED BY <1>5, <1>10, StoreStep

\* The server opens file f for client c.
Opens(c, f) ==
    /\ call[c].pc = "open" /\ UNCHANGED <<plan, call, wrote, got>>
    /\ \A d \in Client : d # c => Kept(d)
    /\ replies'[c][1].count = f
    /\ Holds(file'[f], plan.stored) /\ pos'[f] = 0 /\ info'[f].fd = f

LEMMA SopenOpens ==
    ASSUME TypeInv, CallInv, Sopen, plan' = plan
    PROVE  \E c \in Client, f \in Fd : Opens(c, f)
<1> DEFINE f == CHOOSE x \in Fd : owner[x] = None /\ \A y \in Fd : y < x => owner[y] # None
<1>1. PICK c : c = Source
      OBVIOUS
<1>2. /\ Probed("OPEN") /\ aq' = Tail(aq) /\ Reply(c, f, <<>>)
      /\ file' = [file EXCEPT ![f] = [i \in 1 .. plan.stored |-> i]]
      /\ pos' = [pos EXCEPT ![f] = 0]
      /\ info' = [info EXCEPT ![f] = [Zero EXCEPT !.fd = f]]
      /\ cache' = [cache EXCEPT ![f] = [i \in Place |-> None]]
      /\ UNCHANGED <<call, wrote, got>>
      BY <1>1 DEF Sopen
<1>3. /\ 1 \in DOMAIN aq /\ aq # <<>> /\ aq[1].src = c /\ c \in Client
      /\ call[c].pc = "open" /\ replies[c] = <<>> /\ ~Owns(c)
      BY <1>1, <1>2, ProbedIs
<1>4. f \in Fd /\ owner[f] = None
      BY <1>3, FreeDescriptor
<1> HIDE DEF f
<1>5. <<>> \in Seq(Byte) /\ f \in Nat
  <2>1. Cardinality(Client) \in Nat
        BY IbioAssumption, FS_CardinalityType
  <2> QED BY <1>4, <2>1, EmptySeq DEF Fd
<1>6. /\ \A d \in Client : d # c => replies'[d] = replies[d]
      /\ replies'[c][1].count = f
  <2>1. /\ \A d \in Client : d # c => replies'[d] = replies[d]
        /\ replies'[c][1] = Msg(c, "REPLY", f, <<>>)
        BY <1>2, <1>3, <1>5, ReplyIs
  <2> QED BY <2>1 DEF Msg
<1>7. \A d \in Client : d # c => Msgs(d)' = Msgs(d)
      BY <1>2, <1>3, TakeStep DEF TypeInv
<1>8. ServerType
      BY DEF TypeInv
<1>9. /\ \A g \in Fd : g # f => /\ file'[g] = file[g] /\ pos'[g] = pos[g]
                                /\ info'[g] = info[g] /\ cache'[g] = cache[g]
      /\ pos'[f] = 0 /\ info'[f] = [Zero EXCEPT !.fd = f]
      BY <1>2, <1>4, <1>8 DEF ServerType
<1>10. Holds(file'[f], plan.stored) /\ info'[f].fd = f
      BY <1>2, <1>4, <1>8, <1>9 DEF ServerType, Holds, Zero
<1>11. ASSUME NEW d \in Client, d # c PROVE Kept(d)
  <2>1. d # None /\ CallInvOf(d) /\ OpenInvOf(d)
        BY IbioAssumption DEF CallInv, TypeInv, OpenInv
  <2>2. Open(d) => call[d].fd \in Fd /\ call[d].fd # f
        BY <1>4, <2>1 DEF CallInvOf, OpenInvOf
  <2>3. call[d].pc = "open" /\ replies[d] # <<>> => replies[d][1].count \in Fd /\ replies[d][1].count # f
        BY <1>4, <2>1 DEF CallInvOf, OpenInvOf, Opening
  <2> QED BY <1>2, <1>6, <1>7, <1>9, <1>11, <2>2, <2>3 DEF Kept
<1>12. Opens(c, f)
      BY <1>2, <1>3, <1>6, <1>9, <1>10, <1>11 DEF Opens
<1> QED BY <1>3, <1>4, <1>12

LEMMA SopenStore ==
    ASSUME TypeInv, CallInv, WriteOnly, StoreInv, Sopen, plan' = plan
    PROVE  StoreInv'
<1>1. PICK c \in Client, f \in Fd : Opens(c, f)
      BY SopenOpens
<1>2. plan.stored = 0
      BY DEF WriteOnly
<1>3. StoreInvOf(c)'
      BY <1>1, <1>2 DEF Opens, StoreInv, StoreInvOf, Open
<1> QED BY <1>1, <1>3, StoreStep DEF Opens

LEMMA SwriteBeginStore ==
    ASSUME TypeInv, CallInv, CountInv, StoreInv, SwriteBegin
    PROVE  StoreInv'
<1>1. PICK c \in Client : TakesHeader(c)
      BY SwriteBeginCalls
<1>2. PICK f \in Fd : f = call[c].fd
      BY <1>1 DEF TakesHeader
<1>3. UNCHANGED <<call, wrote, got, replies, file, pos, cache>>
      BY DEF SwriteBegin
<1>4. /\ Open(c) /\ call[c].pc = "write" /\ Heads(c) # {}
      /\ Heads(c)' = {} /\ Base(c)' = Base(c) /\ Recv(c)' = 0
      /\ \A d \in Client : d # c => Msgs(d)' = Msgs(d)
      /\ \A g \in Fd : g # f => info'[g] = info[g]
      /\ info'[f].current_write_count = 0 /\ info'[f].fd = info[f].fd
      BY <1>1, <1>2 DEF TakesHeader
<1>5. \A d \in Client : d # c => Kept(d)
      BY <1>2, <1>3, <1>4, ServerKept
<1>6. Base(c) \in Int
  <2>1. call[c] \in CallRecord /\ wrote[c] \in Nat
        BY DEF TypeInv, ClientType
  <2> QED BY <2>1 DEF CallRecord, Base
<1>7. Stored(c)' = Stored(c)
      BY <1>2, <1>3, <1>4, <1>6 DEF Stored, InfoOf
<1>8. StoreInvOf(c)
      BY DEF StoreInv
<1>9. Holds(file'[f], Stored(c)') /\ pos'[f] = Stored(c)' /\ info'[f].fd = f
      BY <1>2, <1>3, <1>4, <1>7, <1>8 DEF StoreInvOf
<1>10. StoreInvOf(c)'
      BY <1>2, <1>3, <1>4, <1>9 DEF StoreInvOf
<1> QED BY <1>5, <1>10, StoreStep

LEMMA SwriteChunkStore ==
    ASSUME TypeInv, CallInv, CountInv, StoreInv, SwriteChunk
    PROVE  StoreInv'
<1>1. PICK c \in Client, x \in Request, base, r, k \in Nat : TakesChunk(c, x, base, r, k)
      BY SwriteChunkCalls
<1>2. PICK f \in Fd : f = call[c].fd
      BY <1>1 DEF TakesChunk
<1>3. UNCHANGED <<call, wrote, got, replies, file, pos>>
      BY DEF SwriteChunk
<1>4. /\ Open(c) /\ call[c].pc = "write" /\ Heads(c) = {} /\ Base(c) = base /\ Recv(c) = r
      /\ Heads(c)' = {} /\ Base(c)' = base /\ Recv(c)' = r + k
      /\ r + k <= CacheSize /\ HasBytes(x, base + r, k) /\ Store(f, r, x.bytes)
      /\ \A d \in Client : d # c => Msgs(d)' = Msgs(d)
      /\ \A g \in Fd : g # f => info'[g] = info[g]
      /\ info'[f].current_write_count = info[f].current_write_count /\ info'[f].fd = info[f].fd
      BY <1>1, <1>2 DEF TakesChunk
<1>5. PICK b \in Seq(Byte) : b = x.bytes
      BY RequestBytes
<1>6. b = Bytes(base + r, k) /\ Len(b) = k
  <2>1. b = Bytes(base + r, k)
        BY <1>4, <1>5 DEF HasBytes
  <2>2. Len(Bytes(base + r, k)) = k
        BY DEF Bytes
  <2> QED BY <2>1, <2>2
<1>7. /\ \A g \in Fd : g # f => cache'[g] = cache[g]
      /\ \A i \in Place : cache'[f][i] = IF i - r \in 0 .. k - 1 THEN b[i - r + 1] ELSE cache[f][i]
      BY <1>4, <1>5, <1>6, StoreType
<1>8. \A d \in Client : d # c => Kept(d)
      BY <1>2, <1>3, <1>4, <1>7, ServerKept
<1>9. Stored(c)' = Stored(c)
      BY <1>2, <1>3, <1>4 DEF Stored, InfoOf
<1>10. StoreInvOf(c)
      BY DEF StoreInv
<1>11. Holds(file'[f], Stored(c)') /\ pos'[f] = Stored(c)' /\ info'[f].fd = f
      BY <1>2, <1>3, <1>4, <1>9, <1>10 DEF StoreInvOf
<1>12. ASSUME NEW i \in 0 .. (r + k) - 1 PROVE cache'[f][i] = base + i + 1
  <2>1. i \in Place
        BY <1>4, IbioAssumption DEF Place
  <2>2. CASE i < r
    <3>1. cache[f][i] = base + i + 1
          BY <1>2, <1>4, <1>10, <2>2 DEF StoreInvOf
    <3>2. ~ (i - r \in 0 .. k - 1)
          BY <2>2
    <3> QED BY <1>7, <2>1, <3>1, <3>2
  <2>3. CASE i >= r
    <3>1. i - r \in 0 .. k - 1 /\ i - r + 1 \in 1 .. k
          BY <2>3
    <3>2. b[i - r + 1] = base + r + (i - r + 1)
          BY <1>6, <3>1 DEF Bytes
    <3>3. base + r + (i - r + 1) = base + i + 1
          OBVIOUS
    <3> QED BY <1>7, <2>1, <3>1, <3>2, <3>3
  <2> QED BY <2>2, <2>3
<1>13. StoreInvOf(c)'
      BY <1>2, <1>3, <1>4, <1>11, <1>12 DEF StoreInvOf
<1> QED BY <1>8, <1>13, StoreStep

LEMMA SwriteAckStore ==
    ASSUME TypeInv, CallInv, StoreInv, SwriteAck
    PROVE  StoreInv'
<1>1. PICK c : c = main.c
      OBVIOUS
<1>2. /\ main.pc = "ack" /\ Reply(c, 0, <<>>)
      /\ UNCHANGED <<call, wrote, got, aq, file, pos, info, cache>>
      BY <1>1 DEF SwriteAck
<1>3. c \in Client /\ Open(c) /\ call[c].pc = "write"
      BY <1>1, <1>2 DEF TypeInv, OpenInv, OpenInvOf, MainInv, CallInv, ServeInv
<1>4. \A d \in Client : d # c => replies'[d] = replies[d]
  <2>1. <<>> \in Seq(Byte) /\ 0 \in Nat
        BY EmptySeq
  <2> QED BY <1>2, <1>3, <2>1, ReplyIs
<1>5. \A d \in Client : d # c => Kept(d)
      BY <1>2, <1>3, <1>4, ServerKept DEF Msgs
<1>6. /\ Stored(c)' = Stored(c) /\ Recv(c)' = Recv(c) /\ Base(c)' = Base(c) /\ Heads(c)' = Heads(c)
      BY <1>2, <1>3 DEF Stored, Recv, Base, Heads, Msgs, InfoOf
<1>7. StoreInvOf(c)
      BY <1>3 DEF StoreInv
<1>8. StoreInvOf(c)'
      BY <1>2, <1>3, <1>6, <1>7 DEF StoreInvOf, Open
<1> QED BY <1>3, <1>5, <1>8, StoreStep

\* The bytes that follow those of a file are written at its end.
LEMMA HoldsMore ==
    ASSUME NEW s \in Nat, NEW k \in Nat, NEW q \in Seq(Byte), Holds(q, s), NEW b \in Seq(Byte), Len(b) = k,
           \A i \in 1 .. k : b[i] = s + i
    PROVE  Holds(q \o b, s + k)
<1>1. Len(q) = s /\ \A i \in 1 .. s : q[i] = i
      BY DEF Holds
<1>2. PICK t : t = [i \in 1 .. s + k |-> i]
      OBVIOUS
<1>3. t \in Seq(Byte) /\ Len(t) = s + k /\ \A i \in 1 .. s + k : t[i] = i
  <2>1. t \in [1 .. s + k -> Byte]
        BY <1>2 DEF Byte
  <2> QED BY <1>2, <2>1, SeqDef, LenProperties
<1>4. /\ q \o b \in Seq(Byte) /\ Len(q \o b) = s + k
      /\ \A i \in 1 .. s + k : (q \o b)[i] = IF i <= s THEN q[i] ELSE b[i - s]
      BY <1>1, ConcatProperties
<1>5. ASSUME NEW i \in 1 .. s + k PROVE (q \o b)[i] = t[i]
  <2>1. CASE i <= s
    <3>1. q[i] = i
          BY <1>1, <2>1
    <3> QED BY <1>3, <1>4, <2>1, <3>1
  <2>2. CASE i > s
    <3>1. i - s \in 1 .. k /\ s + (i - s) = i
          BY <2>2
    <3>2. b[i - s] = i
          BY <3>1
    <3>3. ~ (i <= s) /\ t[i] = i
          BY <1>3, <2>2
    <3>4. (q \o b)[i] = b[i - s]
          BY <1>4, <3>3
    <3> QED BY <3>2, <3>3, <3>4
  <2>3. i <= s \/ i > s
        OBVIOUS
  <2> QED BY <2>1, <2>2, <2>3, Zenon
<1>6. q \o b = t
      BY <1>3, <1>4, <1>5, SeqEqual
<1> QED BY <1>2, <1>6 DEF Holds

LEMMA WriteChunkStore ==
    ASSUME TypeInv, CallInv, CountInv, StoreInv, NEW f \in Fd, WriteChunk(f)
    PROVE  StoreInv'
<1>1. UNCHANGED <<plan, call, wrote, got, aq, replies, owner, cache, fastmutex, readers, reading, main>>
      BY DEF WriteChunk
<1>2. PICK n \in Nat, v \in Nat, r \in Nat :
             /\ info[f].write_count = n /\ info[f].current_write_count = v /\ info[f].current_recv_size = r
             /\ v < n /\ NextChunk(v, n) \in Nat /\ v + NextChunk(v, n) <= r /\ writers[f] > 0 /\ r <= n
             /\ \A g \in Fd : g # f => info'[g] = info[g] /\ writers'[g] = writers[g]
             /\ writers'[f] = writers[f] - 1 /\ info'[f].fd = info[f].fd
             /\ info'[f].write_count = n /\ info'[f].current_recv_size = r
             /\ info'[f].current_write_count = v + NextChunk(v, n)
             /\ Counted(writers'[f], info'[f])
      BY WriteChunkIs
<1>3. PICK k \in Nat : k = NextChunk(v, n)
      BY <1>2
<1>4. PICK c \in Client : Open(c) /\ call[c].fd = f
      BY <1>2 DEF CallInv, ServeInv
<1>5. Receives(c) \/ WritesOut(c)
      BY <1>2, <1>4 DEF CallInv, CallInvOf
<1>6. call[c].pc = "write" /\ Heads(c) = {} /\ StoreInvOf(c) /\ InfoOf(c) = info[f]
      BY <1>4, <1>5 DEF Receives, WritesOut, StoreInv, InfoOf, Heads, HeadsOf
<1>7. Recv(c) = r
      BY <1>2, <1>6 DEF Recv
<1>8. PICK base \in Nat : base = Base(c)
  <2>1. WriteInv(c) /\ call[c] \in CallRecord /\ wrote[c] \in Nat
        BY <1>6 DEF CallInv, CallInvOf, TypeInv, ClientType
  <2>2. call[c].sent \in Nat /\ call[c].sent <= wrote[c]
        BY <2>1 DEF CallRecord, WriteInv
  <2> QED BY <2>1, <2>2 DEF Base
<1>9. PICK s \in Nat : s = base + v
      OBVIOUS
<1>10. Stored(c) = s
      BY <1>2, <1>6, <1>8, <1>9 DEF Stored
<1>11. Holds(file[f], s) /\ pos[f] = s /\ info[f].fd = f /\ \A i \in 0 .. r - 1 : cache[f][i] = base + i + 1
      BY <1>4, <1>6, <1>7, <1>8, <1>10 DEF StoreInvOf
<1>12. PICK b : b = CacheBytes(f, v, k) /\ b \in Seq(Byte) /\ Len(b) = k
      BY CacheBytesType
<1>13. WriteOut(f, b)
      BY <1>2, <1>3, <1>11, <1>12 DEF WriteChunk
<1>14. \A i \in 1 .. k : b[i] = s + i
  <2> SUFFICES ASSUME NEW i \in 1 .. k PROVE b[i] = s + i
      OBVIOUS
  <2>1. PICK j \in Nat : j = v + i - 1 /\ j \in 0 .. r - 1
        BY <1>2, <1>3
  <2>2. j \in Place
    <3>1. info[f] \in InfoRecord
          BY DEF TypeInv, ServerType
    <3>2. n <= CacheSize /\ CacheSize \in Nat
          BY <1>2, <3>1, IbioAssumption DEF InfoRecord
    <3> QED BY <1>2, <2>1, <3>2 DEF Place
  <2>3. cache[f][j] = base + j + 1
        BY <1>11, <2>1
  <2>4. b[i] = cache[f][j]
        BY <1>12, <2>1, <2>2 DEF CacheBytes
  <2> QED BY <1>9, <2>1, <2>3, <2>4
<1>15. file[f] \in Seq(Byte) /\ Len(file[f]) = s
      BY <1>11 DEF TypeInv, ServerType, Holds
<1>16. /\ \A g \in Fd : g # f => file'[g] = file[g] /\ pos'[g] = pos[g]
       /\ pos'[f] = s + k /\ file'[f] = file[f] \o b
      BY <1>11, <1>12, <1>13, <1>15, WriteOutType
<1>17. Holds(file'[f], s + k)
      BY <1>11, <1>12, <1>14, <1>15, <1>16, HoldsMore
<1>18. \A d \in Client : d # c => Kept(d)
      BY <1>1, <1>2, <1>4, <1>16, ServerKept DEF Msgs
<1>19. Heads(c)' = {} /\ Base(c)' = base /\ InfoOf(c)' = info'[f] /\ Recv(c)' = r
  <2>1. Heads(c)' = {} /\ Base(c)' = base /\ InfoOf(c)' = info'[f]
        BY <1>1, <1>4, <1>6, <1>8 DEF Heads, Msgs, Base, InfoOf
  <2> QED BY <1>1, <1>2, <1>6, <2>1 DEF Recv
<1>20. Stored(c)' = s + k
      BY <1>1, <1>2, <1>3, <1>6, <1>9, <1>19 DEF Stored
<1>21. /\ Holds(file'[f], Stored(c)') /\ pos'[f] = Stored(c)' /\ info'[f].fd = f
       /\ \A i \in 0 .. Recv(c)' - 1 : cache'[f][i] = Base(c)' + i + 1
      BY <1>1, <1>2, <1>11, <1>16, <1>17, <1>19, <1>20
<1>22. StoreInvOf(c)'
      BY <1>1, <1>4, <1>6, <1>21 DEF StoreInvOf
<1> QED BY <1>18, <1>22, StoreStep

LEMMA InitStore ==
    ASSUME Init
    PROVE  StoreInv
BY DEF Init, Idle, StoreInv, StoreInvOf, Open

\* Steps that change nothing of what is stored.
LEMMA StoreStays ==
    ASSUME StoreInv, UNCHANGED <<call, wrote, got, aq, replies, file, pos, info, cache>>
    PROVE  StoreInv'
<1>1. \A d \in Client : Kept(d)
      BY DEF Kept, Msgs
<1> QED BY <1>1, StoreAlike DEF StoreInv

\* ibtl_dwrite and ibtl_read are not called.
LEMMA OnlyWrites ==
    ASSUME TypeInv, CallInv, StoreInv
    PROVE  /\ ~SwriteHeader /\ ~SwriteRecv /\ ~SwriteWrite /\ ~SwriteReply
           /\ \A c \in Client : ~Sread(c) /\ ~ReadChunk(c)
<1>1. ASSUME SwriteHeader PROVE FALSE
  <2>1. PICK c : c = Source
        OBVIOUS
  <2>2. Probed("WRITE")
        BY <1>1 DEF SwriteHeader
  <2>3. c \in Client /\ Open(c) /\ aq[1] \in Msgs(c) /\ aq[1].op = "WRITE"
        BY <2>1, <2>2, ProbedIs
  <2>4. PICK x : x = aq[1] /\ x \in Msgs(c) /\ x.op = "WRITE"
        BY <2>3
  <2>5. call[c].pc \in {"idle", "open", "ready", "write"}
        BY <2>3 DEF StoreInv, StoreInvOf
  <2> QED BY <2>3, <2>4, <2>5, CallOf DEF Header, ChunkOp
<1>2. ASSUME SwriteRecv \/ SwriteWrite \/ SwriteReply PROVE FALSE
  <2>1. main.pc = "swrite"
        BY <1>2 DEF SwriteRecv, SwriteWrite, SwriteReply
  <2>2. main.c \in Client /\ call[main.c].pc = "dwrite"
        BY <2>1 DEF TypeInv, OpenInv, MainInv, CallInv, ServeInv
  <2> QED BY <2>2 DEF StoreInv, StoreInvOf
<1>3. ASSUME NEW c \in Client, Sread(c) PROVE FALSE
  <2>1. PICK f, i : f = call[c].fd /\ i = FirstFrom(c, "READ")
        OBVIOUS
  <2>2. Open(c) /\ i \in DOMAIN aq /\ aq[i].src = c /\ aq[i].op = "READ"
        BY <1>3, <2>1, SreadIs
  <2>3. PICK x : x = aq[i] /\ x \in Msgs(c) /\ x.op = "READ"
        BY <2>2, MessageOf
  <2>4. call[c].pc \in {"idle", "open", "ready", "write"}
        BY DEF StoreInv, StoreInvOf
  <2> QED BY <2>2, <2>3, <2>4, CallOf DEF Header, ChunkOp
<1>4. ASSUME NEW c \in Client, ReadChunk(c) PROVE FALSE
      BY <1>4 DEF ReadChunk, StoreInv, StoreInvOf
<1> QED BY <1>1, <1>2, <1>3, <1>4

LEMMA NextStore ==
    ASSUME TypeInv, CallInv, CountInv, WriteOnly, StoreInv, [Next]_vars
    PROVE  StoreInv'
<1>1. CASE UNCHANGED vars
      BY <1>1, StoreStays DEF vars
<1>2. ASSUME NEW c \in Client, OpenCall(c) PROVE StoreInv'
      BY <1>2, OpenCallStore
<1>3. ASSUME NEW c \in Client, NEW op \in plan.ops, NEW n \in plan.counts \cup {0}, Begin(c, op, n)
      PROVE  StoreInv'
      BY <1>3, BeginStore
<1>4. ASSUME NEW c \in Client, OpenReturns(c) PROVE StoreInv'
      BY <1>4, OpenReturnsStore
<1>5. ASSUME NEW c \in Client, SendChunk(c) PROVE StoreInv'
      BY <1>5, SendChunkStore
<1>6. ASSUME NEW c \in Client, WriteReturns(c) PROVE StoreInv'
      BY <1>6, WriteReturnsStore
<1>7. ASSUME NEW c \in Client, SreadLock(c) PROVE StoreInv'
      BY <1>7, StoreStays DEF SreadLock
<1>8. ASSUME NEW f \in Fd, WriteChunk(f) PROVE StoreInv'
      BY <1>8, WriteChunkStore
<1>9. CASE Sopen \/ SwriteBegin \/ SwriteChunk \/ SwriteAck
      BY <1>9, PlanStays, SopenStore, SwriteBeginStore, SwriteChunkStore, SwriteAckStore
<1>10. CASE SreadAsync
      BY <1>10, StoreStays DEF SreadAsync
<1>11. /\ ~Sclose /\ ~SwriteHeader /\ ~SwriteRecv /\ ~SwriteWrite /\ ~SwriteReply
       /\ \A c \in Client : ~CloseReturns(c) /\ ~Sread(c) /\ ~ReadChunk(c)
      BY NoClose, OnlyWrites
<1> QED BY <1>1, <1>2, <1>3, <1>4, <1>5, <1>6, <1>7, <1>8, <1>9, <1>10, <1>11, NextIs

----------------------------------------------------------------------------
(* What is read *)

LEMMA FetchAlike ==
    ASSUME NEW d \in Client, FetchInvOf(d), Kept(d), plan' = plan
    PROVE  FetchInvOf(d)'
<1>1. call'[d] = call[d] /\ Open(d)' = Open(d) /\ Fetched(d)' = Fetched(d) /\ got'[d] = got[d] /\ replies'[d] = replies[d]
      BY DEF Kept, Open, Fetched
<1>2. ASSUME Open(d)
      PROVE  LET f == call[d].fd IN
             /\ Holds(file'[f], plan.stored) /\ pos'[f] = AtMost(Fetched(d), plan.stored)
             /\ \E a, b \in Nat : call[d].count = a * ChunkSize /\ call[d].sent = b * ChunkSize
             /\ call[d].pc = "read" => \A k \in DOMAIN replies[d] :
                  Carries(replies[d][k], Len(got[d]) + (k - 1) * ChunkSize, plan.stored)
      BY <1>1, <1>2 DEF FetchInvOf, Kept
<1>3. ASSUME call[d].pc = "open", replies[d] # <<>>
      PROVE  LET f == replies[d][1].count IN Holds(file'[f], plan.stored) /\ pos'[f] = 0
      BY <1>3 DEF FetchInvOf, Kept
<1>4. /\ call[d].pc \in {"idle", "open", "ready", "read"} /\ InOrder(got[d], plan.stored)
      /\ call[d].pc \in {"idle", "open"} => got[d] = <<>>
      BY DEF FetchInvOf
<1> QED BY <1>1, <1>2, <1>3, <1>4 DEF FetchInvOf

LEMMA FetchStep ==
    ASSUME FetchInv, plan' = plan, NEW c \in Client, \A d \in Client : d # c => Kept(d), FetchInvOf(c)'
    PROVE  FetchInv'
<1>1. ASSUME NEW d \in Client PROVE FetchInvOf(d)'
  <2>1. CASE d # c
        BY <2>1, FetchAlike DEF FetchInv
  <2> QED BY <2>1
<1> QED BY <1>1 DEF FetchInv

LEMMA FetchStays ==
    ASSUME FetchInv, UNCHANGED <<plan, call, wrote, got, aq, replies, file, pos, info, cache>>
    PROVE  FetchInv'
<1>1. \A d \in Client : Kept(d)
      BY DEF Kept, Msgs
<1> QED BY <1>1, FetchAlike DEF FetchInv

LEMMA InitFetch ==
    ASSUME Init
    PROVE  FetchInv
<1>1. \A c \in Client : call[c].pc = "idle" /\ got[c] = <<>>
      BY DEF Init, Idle
<1>2. \A n : InOrder(<<>>, n)
      BY DEF InOrder
<1> QED BY <1>1, <1>2 DEF FetchInv, FetchInvOf, Open

LEMMA OpenCallFetch ==
    ASSUME TypeInv, FetchInv, NEW c \in Client, OpenCall(c)
    PROVE  FetchInv'
<1>1. PICK x : x = Msg(c, "OPEN", 0, <<>>)
      OBVIOUS
<1>2. /\ call[c].pc = "idle" /\ aq' = Append(aq, x) /\ call' = [call EXCEPT ![c].pc = "open"]
      /\ UNCHANGED <<wrote, got, replies, server>>
      BY <1>1 DEF OpenCall, Send
<1>3. x \in Request /\ x.src = c
  <2>1. <<>> \in Seq(Nat) /\ 0 \in 0 .. CacheSize
        BY EmptySeq, IbioAssumption
  <2> QED BY <1>1, <2>1 DEF Msg, Request
<1>4. \A d \in Client : d # c => Msgs(d)' = Msgs(d)
      BY <1>2, <1>3, SendStep DEF TypeInv
<1>5. call'[c].pc = "open" /\ \A d \in Client : d # c => call'[d] = call[d]
      BY <1>2 DEF TypeInv, ClientType, CallRecord
<1>6. \A d \in Client : d # c => Kept(d)
      BY <1>2, <1>4, <1>5, ClientKept
<1>7. replies'[c] = <<>> /\ got'[c] = <<>> /\ InOrder(got'[c], plan.stored) /\ plan' = plan
      BY <1>2 DEF TypeInv, OpenInv, OpenInvOf, FetchInv, FetchInvOf, server
<1>8. FetchInvOf(c)'
      BY <1>5, <1>7 DEF FetchInvOf, Open
<1> QED BY <1>6, <1>7, <1>8, FetchStep

LEMMA OpenReturnsFetch ==
    ASSUME TypeInv, FetchInv, NEW c \in Client, OpenReturns(c)
    PROVE  FetchInv'
<1>1. PICK f : f = replies[c][1].count
      OBVIOUS
<1>2. /\ call[c].pc = "open" /\ replies[c] # <<>> /\ replies' = [replies EXCEPT ![c] = Tail(@)]
      /\ UNCHANGED <<wrote, got, aq, server>>
      BY DEF OpenReturns
<1>3. Head(replies[c]) = replies[c][1] /\ \A d \in Client : d # c => replies'[d] = replies[d]
      BY <1>2, TailOfReplies
<1>4. /\ call'[c].pc = "ready" /\ call'[c].fd = f /\ call'[c].count = 0 /\ call'[c].sent = 0
      /\ \A d \in Client : d # c => call'[d] = call[d]
      BY <1>1, <1>3 DEF OpenReturns, Idle, TypeInv, ClientType
<1>5. /\ Holds(file[f], plan.stored) /\ pos[f] = 0 /\ got[c] = <<>> /\ InOrder(got[c], plan.stored)
      BY <1>1, <1>2 DEF FetchInv, FetchInvOf
<1>6. \A d \in Client : d # c => Kept(d)
      BY <1>2, <1>3, <1>4, ClientKept DEF Msgs
<1>7. Fetched(c)' = 0
  <2>1. Len(<<>>) = 0
        BY EmptySeq
  <2> QED BY <1>2, <1>4, <1>5, <2>1 DEF Fetched
<1>8. file' = file /\ pos' = pos /\ plan' = plan
      BY <1>2 DEF server
<1>9. plan.stored \in Nat /\ AtMost(0, plan.stored) = 0 /\ 0 * ChunkSize = 0
  <2>1. plan.stored \in Nat
        BY IbioAssumption DEF TypeInv, ClientType
  <2> QED BY <2>1, Multiples DEF AtMost
<1>10. FetchInvOf(c)'
      BY <1>2, <1>4, <1>5, <1>7, <1>8, <1>9 DEF FetchInvOf
<1> QED BY <1>6, <1>8, <1>10, FetchStep

LEMMA BeginFetch ==
    ASSUME TypeInv, CallInv, ReadOnly, FetchInv, NEW c \in Client, NEW op \in plan.ops,
           NEW n \in plan.counts \cup {0}, Begin(c, op, n)
    PROVE  FetchInv'
<1>1. op = "read"
      BY DEF ReadOnly
<1>2. PICK x : x = Msg(c, "READ", n, <<>>)
      OBVIOUS
<1>3. /\ call[c].pc = "ready" /\ aq' = Append(aq, x)
      /\ call' = [call EXCEPT ![c].pc = op, ![c].count = n, ![c].sent = 0, ![c].ops = @ + 1]
      /\ UNCHANGED <<wrote, got, replies, server>>
      BY <1>1, <1>2 DEF Begin, Send, Header
<1>4. x \in Request /\ x.src = c
  <2>1. <<>> \in Seq(Nat) /\ n \in 0 .. CacheSize
        BY EmptySeq, IbioAssumption DEF TypeInv, ClientType
  <2> QED BY <1>2, <2>1 DEF Msg, Request
<1>5. Msgs(c)' = Msgs(c) \cup {x} /\ \A d \in Client : d # c => Msgs(d)' = Msgs(d)
      BY <1>3, <1>4, SendStep DEF TypeInv
<1>6. /\ call'[c].pc = "read" /\ call'[c].sent = 0 /\ call'[c].fd = call[c].fd /\ call'[c].count = n
      /\ \A d \in Client : d # c => call'[d] = call[d]
      BY <1>1, <1>3 DEF TypeInv, ClientType, CallRecord
<1>7. \A d \in Client : d # c => Kept(d)
      BY <1>3, <1>5, <1>6, ClientKept
<1>8. Fetched(c)' = Fetched(c)
      BY <1>3, <1>5, <1>6 DEF Fetched
<1>9. Open(c) /\ file' = file /\ pos' = pos /\ plan' = plan /\ got' = got /\ replies'[c] = <<>>
      BY <1>3 DEF server, Open, CallInv, CallInvOf
<1>10. FetchInvOf(c)
      BY DEF FetchInv
<1>11. LET f == call[c].fd IN Holds(file'[f], plan.stored) /\ pos'[f] = AtMost(Fetched(c)', plan.stored)
      BY <1>8, <1>9, <1>10 DEF FetchInvOf
<1>12. \E a, b \in Nat : n = a * ChunkSize /\ 0 = b * ChunkSize
  <2>1. 0 = 0 * ChunkSize /\ 0 \in Nat
        BY Multiples
  <2>2. \E a \in Nat : n = a * ChunkSize
        BY <2>1, Zenon DEF ReadOnly
  <2> QED BY <2>1, <2>2, Zenon
<1>13. DOMAIN replies'[c] = {}
      BY <1>9
<1>14. InOrder(got'[c], plan.stored)
      BY <1>9, <1>10 DEF FetchInvOf
<1>15. FetchInvOf(c)'
      BY <1>6, <1>9, <1>11, <1>12, <1>13, <1>14 DEF FetchInvOf
<1> QED BY <1>7, <1>9, <1>15, FetchStep

LEMMA SopenFetch ==
    ASSUME TypeInv, CallInv, FetchInv, Sopen, plan' = plan
    PROVE  FetchInv'
<1>1. PICK c \in Client, f \in Fd : Opens(c, f)
      BY SopenOpens
<1>2. FetchInvOf(c)'
      BY <1>1 DEF Opens, FetchInv, FetchInvOf, Open
<1> QED BY <1>1, <1>2, FetchStep DEF Opens

\* A chunk of data is put after the bytes of the client.
LEMMA InOrderMore ==
    ASSUME NEW q \in Seq(Byte), NEW n \in Nat, InOrder(q, n), NEW x \in Answer,
           Carries(x, Len(q), n)
    PROVE  /\ q \o x.bytes \in Seq(Byte) /\ Len(q \o x.bytes) = Len(q) + ChunkSize
           /\ InOrder(q \o x.bytes, n)
<1>1. PICK b \in Seq(Byte) : b = x.bytes
      BY DEF Answer
<1>2. PICK l \in Nat : l = Len(q)
      BY LenProperties
<1>3. PICK s \in Nat : s = ChunkSize
      BY Multiples
<1>4. Len(b) = s /\ (\A j \in 1 .. s : l + j <= n => b[j] = l + j)
      BY <1>1, <1>2, <1>3 DEF Carries
<1>5. /\ q \o b \in Seq(Byte) /\ Len(q \o b) = l + s
      /\ \A i \in 1 .. l + s : (q \o b)[i] = IF i <= l THEN q[i] ELSE b[i - l]
      BY <1>2, <1>4, ConcatProperties
<1>6. DOMAIN (q \o b) = 1 .. l + s /\ DOMAIN q = 1 .. l
      BY <1>2, <1>5, LenProperties
<1>7. ASSUME NEW i \in 1 .. l + s, i <= n PROVE (q \o b)[i] = i
  <2>1. CASE i <= l
    <3>1. q[i] = i
          BY <1>6, <1>7, <2>1 DEF InOrder
    <3> QED BY <1>5, <2>1, <3>1
  <2>2. CASE ~ (i <= l)
    <3>1. PICK j \in 1 .. s : j = i - l /\ l + j = i
          BY <2>2
    <3>2. b[j] = i
          BY <1>4, <1>7, <3>1
    <3>3. (q \o b)[i] = b[i - l]
          BY <1>5, <2>2
    <3> QED BY <3>1, <3>2, <3>3
  <2> QED BY <2>1, <2>2
<1>8. InOrder(q \o b, n)
      BY <1>6, <1>7 DEF InOrder
<1> QED BY <1>1, <1>2, <1>3, <1>5, <1>8

LEMMA ReadChunkFetch ==
    ASSUME TypeInv, CallInv, FetchInv, NEW c \in Client, ReadChunk(c)
    PROVE  FetchInv'
<1> DEFINE k == NextChunk(call[c].sent, call[c].count)
<1>1. /\ call[c].pc = "read" /\ replies[c] # <<>> /\ replies' = [replies EXCEPT ![c] = Tail(@)]
      /\ call' = [call EXCEPT ![c].sent = @ + k,
                      ![c].pc = IF call[c].sent + k = call[c].count THEN "ready" ELSE "read"]
      /\ got' = [got EXCEPT ![c] = @ \o Head(replies[c]).bytes]
      /\ UNCHANGED <<wrote, aq, server>>
      BY DEF ReadChunk
<1>2. /\ call \in [Client -> CallRecord] /\ call[c] \in CallRecord /\ call[c].sent <= call[c].count
      /\ replies[c] \in Seq(Answer) /\ got \in [Client -> Seq(Byte)] /\ got[c] \in Seq(Byte)
      BY DEF TypeInv, ClientType
<1>3. PICK sent \in Nat, n \in Nat : sent = call[c].sent /\ n = call[c].count /\ sent <= n
      BY <1>2, IbioAssumption DEF CallRecord
<1>4. FetchInvOf(c) /\ Open(c) /\ ReadInv(c)
      BY <1>1 DEF FetchInv, Open, CallInv, CallInvOf
<1>5. PICK l \in Nat, g \in Nat, s \in Nat, size \in Nat :
         l = Len(replies[c]) /\ l > 0 /\ g = Len(got[c]) /\ s = plan.stored /\ size = ChunkSize /\ size > 0
  <2>1. plan.stored \in Nat
        BY IbioAssumption DEF TypeInv, ClientType
  <2>2. Len(got[c]) \in Nat
        BY <1>2, LenProperties
  <2>3. Len(replies[c]) \in Nat \ {0}
        BY <1>1, <1>2, EmptySeq
  <2>4. ChunkSize \in Nat /\ ChunkSize > 0
        BY Multiples
  <2> QED BY <2>1, <2>2, <2>3, <2>4
<1>6. Msgs(c) = {} /\ sent < n
  <2>1. Msgs(c) = {} /\ (l - 1) * ChunkSize < n - sent
        BY <1>1, <1>3, <1>4, <1>5 DEF ReadInv
  <2>2. PICK j \in Nat : j = l - 1 /\ j * ChunkSize \in Nat
        BY <1>5, Multiples
  <2> QED BY <2>1, <2>2
<1>7. PICK a \in Nat, b \in Nat : n = a * ChunkSize /\ sent = b * ChunkSize
      BY <1>3, <1>4 DEF FetchInvOf
<1>8. k = size /\ sent + size <= n /\ sent + size = (b + 1) * ChunkSize
  <2>1. b < a
        BY <1>6, <1>7, Multiples
  <2>2. (b + 1) * ChunkSize <= a * ChunkSize /\ (b + 1) * ChunkSize = b * ChunkSize + ChunkSize
        BY <2>1, Multiples
  <2>3. sent + size <= n /\ sent + size = (b + 1) * ChunkSize
        BY <1>5, <1>7, <2>2
  <2>4. k = size
        BY <1>3, <1>5, <2>3 DEF NextChunk
  <2> QED BY <2>3, <2>4
<1> HIDE DEF k
<1>9. /\ call'[c].pc = IF sent + size = n THEN "ready" ELSE "read"
      /\ call'[c].sent = sent + size /\ call'[c].count = n /\ call'[c].fd = call[c].fd
      /\ \A d \in Client : d # c => call'[d] = call[d] /\ got'[d] = got[d]
      BY <1>1, <1>2, <1>3, <1>8 DEF CallRecord
<1>10. PICK x \in Answer : x = replies[c][1] /\ x = Head(replies[c])
      BY <1>1, TailOfReplies
<1>11. \A j \in 1 .. l : Carries(replies[c][j], g + (j - 1) * ChunkSize, s)
      BY <1>1, <1>2, <1>4, <1>5, LenProperties DEF FetchInvOf
<1>12. Carries(x, g, s)
  <2>1. 1 \in 1 .. l
        BY <1>5
  <2>2. (1 - 1) * ChunkSize = 0
    <3>1. 1 - 1 = 0
          OBVIOUS
    <3> QED BY <3>1, Multiples
  <2>3. Carries(replies[c][1], g + (1 - 1) * ChunkSize, s)
        BY <1>11, <2>1
  <2>4. g + 0 = g
        OBVIOUS
  <2> QED BY <1>10, <2>2, <2>3, <2>4
<1>13. InOrder(got[c], s)
      BY <1>4, <1>5 DEF FetchInvOf
<1>14. Len(got'[c]) = g + size /\ InOrder(got'[c], s)
  <2>1. got'[c] = got[c] \o x.bytes
        BY <1>1, <1>2, <1>10
  <2>2. PICK q \in Seq(Byte) : q = got[c]
        BY <1>2
  <2>3. Len(q \o x.bytes) = Len(q) + ChunkSize /\ InOrder(q \o x.bytes, s)
        BY <1>5, <1>12, <1>13, <2>2, InOrderMore
  <2> QED BY <1>5, <2>1, <2>2, <2>3
<1>15. /\ replies'[c] = Tail(replies[c]) /\ Tail(replies[c]) \in Seq(Answer) /\ Len(Tail(replies[c])) = l - 1
       /\ \A d \in Client : d # c => replies'[d] = replies[d]
      BY <1>1, <1>5, TailOfReplies
<1>16. \A j \in DOMAIN replies'[c] : Carries(replies'[c][j], Len(got'[c]) + (j - 1) * ChunkSize, s)
  <2>1. DOMAIN replies'[c] = 1 .. l - 1
        BY <1>15, LenProperties
  <2> SUFFICES ASSUME NEW j \in 1 .. l - 1
               PROVE  Carries(replies'[c][j], Len(got'[c]) + (j - 1) * ChunkSize, s)
      BY <2>1
  <2>2. Tail(replies[c])[j] = replies[c][j + 1]
        BY <1>1, <1>2, <1>5, HeadTailProperties
  <2>3. PICK i \in Nat : i = j - 1 /\ j = i + 1
        OBVIOUS
  <2>4. (j + 1) - 1 = j /\ j + 1 \in 1 .. l
        BY <1>5
  <2>5. j * ChunkSize = i * ChunkSize + ChunkSize /\ i * ChunkSize \in Nat
        BY <2>3, Multiples
  <2>6. g + j * ChunkSize = Len(got'[c]) + (j - 1) * ChunkSize
    <3>1. PICK p \in Nat : p = i * ChunkSize /\ j * ChunkSize = p + size
          BY <1>5, <2>5
    <3>2. (j - 1) * ChunkSize = p
          BY <2>3, <3>1
    <3> QED BY <1>14, <3>1, <3>2
  <2>7. Carries(replies[c][j + 1], g + ((j + 1) - 1) * ChunkSize, s)
        BY <1>11, <2>4
  <2> QED BY <1>15, <2>2, <2>4, <2>6, <2>7
<1>17. /\ file' = file /\ pos' = pos /\ plan' = plan /\ Msgs(c)' = Msgs(c)
       /\ \A d \in Client : d # c => Kept(d)
  <2>1. file' = file /\ pos' = pos /\ plan' = plan
        BY <1>1 DEF server
  <2>2. \A d \in Client : Msgs(d)' = Msgs(d)
        BY <1>1 DEF Msgs
  <2> QED BY <1>1, <1>9, <1>15, <2>1, <2>2, ClientKept
<1>18. Fetched(c)' = Fetched(c)
  <2>1. Fetched(c) = g + (n - sent)
        BY <1>1, <1>3, <1>5, <1>6 DEF Fetched
  <2>2. CASE sent + size = n
    <3>1. Fetched(c)' = g + size + 0
          BY <1>9, <1>14, <2>2 DEF Fetched
    <3> QED BY <2>1, <2>2, <3>1
  <2>3. CASE sent + size # n
    <3>1. Fetched(c)' = g + size + (n - (sent + size))
          BY <1>6, <1>9, <1>14, <1>17, <2>3 DEF Fetched
    <3> QED BY <2>1, <3>1
  <2> QED BY <2>2, <2>3
<1>19. LET f == call[c].fd IN Holds(file'[f], s) /\ pos'[f] = AtMost(Fetched(c)', s)
      BY <1>4, <1>5, <1>17, <1>18 DEF FetchInvOf
<1>20. \E i, j \in Nat : n = i * ChunkSize /\ sent + size = j * ChunkSize
  <2>1. b + 1 \in Nat
        OBVIOUS
  <2> QED BY <1>7, <1>8, <2>1
<1>21. FetchInvOf(c)'
  <2>1. call'[c].pc \in {"ready", "read"} /\ plan'.stored = s
        BY <1>5, <1>9, <1>17
  <2> QED BY <1>9, <1>14, <1>16, <1>19, <1>20, <2>1 DEF FetchInvOf
<1> QED BY <1>17, <1>21, FetchStep

\* What a read of n bytes, after g bytes of a file of s, puts into the cache, and where it ends.
LEMMA FilledIs ==
    ASSUME TypeInv, NEW f \in Fd, NEW g \in Nat, NEW s \in Nat, NEW n \in Nat, NEW size \in Nat,
           Holds(file[f], s), pos[f] = AtMost(g, s),
           size = IF pos[f] + n > Len(file[f]) THEN Len(file[f]) - pos[f] ELSE n
    PROVE  /\ pos[f] + size = AtMost(g + n, s)
           /\ \A p \in Place : p < n /\ g + p + 1 <= s => Filled(f, size)[p] = g + p + 1
<1>1. file[f] = [i \in 1 .. s |-> i] /\ file[f] \in Seq(Byte)
      BY DEF Holds, TypeInv, ServerType
<1>2. Len(file[f]) = s
  <2>1. DOMAIN file[f] = 1 .. s
        BY <1>1
  <2> QED BY <1>1, <2>1, LenProperties
<1>3. PICK o \in Nat : o = pos[f] /\ o = IF g > s THEN s ELSE g
      BY DEF AtMost
<1>4. size = IF o + n > s THEN s - o ELSE n
      BY <1>2, <1>3
<1>5. pos[f] + size = AtMost(g + n, s)
  <2>1. o + size = IF g + n > s THEN s ELSE g + n
    <3>1. CASE g > s
          BY <1>3, <1>4, <3>1
    <3>2. CASE ~ (g > s)
          BY <1>3, <1>4, <3>2
    <3> QED BY <3>1, <3>2
  <2> QED BY <1>3, <2>1 DEF AtMost
<1>6. ASSUME NEW p \in Place, p < n, g + p + 1 <= s PROVE Filled(f, size)[p] = g + p + 1
  <2>1. p \in Nat
        BY IbioAssumption DEF Place
  <2>2. o = g /\ p < size /\ o + p + 1 \in 1 .. s
    <3>1. PICK q \in Nat : q = p /\ q < n /\ g + q + 1 <= s
          BY <1>6, <2>1
    <3>2. o = g
          BY <1>3, <3>1
    <3>3. q < size
          BY <1>4, <3>1, <3>2
    <3> QED BY <3>1, <3>2, <3>3
  <2>3. Filled(f, size)[p] = file[f][o + p + 1]
        BY <1>3, <1>6, <2>2 DEF Filled
  <2>4. file[f][o + p + 1] = o + p + 1
        BY <1>1, <2>2
  <2> QED BY <2>2, <2>3, <2>4
<1> QED BY <1>5, <1>6

\* The chunks that it sends.
LEMMA DataCarries ==
    ASSUME NEW c \in Client, NEW n \in 0 .. CacheSize, NEW F \in [Place -> Byte], NEW m \in Nat,
           n = m * ChunkSize, NEW g \in Nat, NEW s \in Nat,
           \A p \in Place : p < n /\ g + p + 1 <= s => F[p] = g + p + 1, NEW k \in 1 .. m
    PROVE  Carries(DataOf(c, n, m, F)[k], g + (k - 1) * ChunkSize, s)
<1>1. PICK l \in Nat, size \in Nat : l = n /\ l <= CacheSize /\ CacheSize \in Nat /\ size = ChunkSize /\ size > 0
      BY IbioAssumption
<1>2. PICK i \in Nat : i = k - 1 /\ i < m
      OBVIOUS
<1>3. PICK d \in Nat : d = (k - 1) * ChunkSize /\ d + size <= l
  <2>1. i * ChunkSize \in Nat /\ (i + 1) * ChunkSize = i * ChunkSize + ChunkSize /\ (i + 1) * ChunkSize <= m * ChunkSize
        BY <1>2, Multiples
  <2>2. PICK e \in Nat : e = i * ChunkSize /\ e + ChunkSize <= m * ChunkSize
        BY <2>1
  <2> QED BY <1>1, <1>2, <2>2
<1>4. NextChunk((k - 1) * ChunkSize, n) = size
      BY <1>1, <1>3 DEF NextChunk
<1>5. PICK x : x = DataOf(c, n, m, F)[k] /\ x.bytes = [b \in 1 .. size |-> F[d + b - 1]]
  <2>1. DataOf(c, n, m, F)[k] = Msg(c, "DATA", 0, [b \in 1 .. NextChunk((k - 1) * ChunkSize, n) |->
                                                      F[(k - 1) * ChunkSize + b - 1]])
        BY DEF DataOf
  <2>2. DataOf(c, n, m, F)[k] = Msg(c, "DATA", 0, [b \in 1 .. size |-> F[d + b - 1]])
        BY <1>3, <1>4, <2>1
  <2> QED BY <2>2 DEF Msg
<1>6. ASSUME NEW b \in 1 .. size PROVE F[d + b - 1] \in Byte /\ (g + d + b <= s => F[d + b - 1] = g + d + b)
  <2>1. PICK p \in Nat : p = d + b - 1 /\ p < l /\ g + p + 1 = g + d + b
        BY <1>1, <1>3
  <2>2. p \in Place
        BY <1>1, <2>1 DEF Place
  <2> QED BY <1>1, <2>1, <2>2
<1>7. PICK t \in Seq(Byte) : t = x.bytes /\ t = [b \in 1 .. size |-> F[d + b - 1]]
  <2>1. [b \in 1 .. size |-> F[d + b - 1]] \in [1 .. size -> Byte]
        BY <1>6
  <2>2. [b \in 1 .. size |-> F[d + b - 1]] \in Seq(Byte)
        BY <2>1, SeqDef, ZenonT(60)
  <2> QED BY <1>5, <2>2
<1>8. Len(t) = size
  <2>1. DOMAIN t = 1 .. size
        BY <1>7
  <2> QED BY <2>1, LenProperties
<1>9. \A b \in 1 .. size : g + d + b <= s => t[b] = g + d + b
      BY <1>6, <1>7
<1> QED BY <1>1, <1>3, <1>5, <1>7, <1>8, <1>9 DEF Carries

LEMMA SreadFetch ==
    ASSUME TypeInv, CallInv, FetchInv, NEW c \in Client, Sread(c)
    PROVE  FetchInv'
<1>1. PICK f, i : f = call[c].fd /\ i = FirstFrom(c, "READ")
      OBVIOUS
<1>2. /\ Open(c) /\ f \in Fd /\ i \in DOMAIN aq /\ aq[i].src = c /\ aq' = Without(i)
      /\ aq[i].op = "READ"
      /\ UNCHANGED <<plan, call, wrote, got, file, owner, info, writers, readers, main>>
      BY <1>1, SreadIs
<1>3. PICK n \in 0 .. CacheSize, m \in Nat, size \in Nat : Reads(c, f, i, n, m, size)
      BY <1>1, SreadIs
<1>4. PICK j \in DOMAIN aq, x \in Request : j = i /\ x = aq[j] /\ x \in Msgs(c)
      BY <1>2, MessageOf
<1>5. /\ call[c].pc = "read" /\ Msgs(c) = {x} /\ x.count = call[c].count
      /\ replies[c] = <<>> /\ call[c].sent = 0 /\ call[c].count > 0 /\ OrderedIn(aq, c)
      BY <1>1, <1>2, <1>4, CallOf DEF Header, ChunkOp
<1>6. n = call[c].count /\ m = (n + ChunkSize - 1) \div ChunkSize /\ n \in Nat /\ n > 0
  <2>1. n = x.count /\ n = call[c].count /\ m = (n + ChunkSize - 1) \div ChunkSize
        BY <1>3, <1>4, <1>5 DEF Reads
  <2> QED BY <1>5, <2>1, IbioAssumption
<1>7. FetchInvOf(c)
      BY DEF FetchInv
<1>8. n = m * ChunkSize
  <2>1. PICK a \in Nat : n = a * ChunkSize
        BY <1>2, <1>6, <1>7 DEF FetchInvOf
  <2>2. PICK l \in Nat : l = n
        BY <1>6
  <2>3. /\ l <= m * ChunkSize /\ (l > 0 => m > 0)
        /\ \A k \in 1 .. m : (k - 1) * ChunkSize \in Nat /\ (k - 1) * ChunkSize < l
        BY <1>6, <2>2, ChunksOfRead
  <2>4. PICK h \in Nat : h = m - 1 /\ h * ChunkSize < a * ChunkSize
    <3>1. m \in 1 .. m
          BY <1>6, <2>2, <2>3
    <3>2. m - 1 \in Nat /\ (m - 1) * ChunkSize < l
          BY <2>3, <3>1
    <3> QED BY <2>1, <2>2, <3>2
  <2>5. m <= a
    <3>1. h < a
          BY <2>4, Multiples
    <3> QED BY <2>4, <3>1
  <2>6. m * ChunkSize <= a * ChunkSize /\ m * ChunkSize \in Nat
        BY <2>5, Multiples
  <2>7. PICK p \in Nat : p = m * ChunkSize /\ p <= l /\ l <= p
        BY <2>1, <2>2, <2>3, <2>6
  <2>8. p = l
        BY <2>7
  <2> QED BY <2>2, <2>7, <2>8
<1>9. PICK g \in Nat, s \in Nat : g = Len(got[c]) /\ s = plan.stored
  <2>1. plan.stored \in Nat
        BY IbioAssumption DEF TypeInv, ClientType
  <2>2. Len(got[c]) \in Nat
        BY LenProperties DEF TypeInv, ClientType
  <2> QED BY <2>1, <2>2
<1>10. Fetched(c) = g
  <2>1. Msgs(c) # {}
        BY <1>5
  <2> QED BY <1>9, <2>1 DEF Fetched
<1>11. Holds(file[f], s) /\ pos[f] = AtMost(g, s) /\ InOrder(got[c], s)
      BY <1>1, <1>2, <1>7, <1>9, <1>10 DEF FetchInvOf
<1>12. PICK l \in Nat : l = n /\ size = IF pos[f] + l > Len(file[f]) THEN Len(file[f]) - pos[f] ELSE l
      BY <1>3, <1>6, <1>8 DEF Reads
<1>13. PICK F \in [Place -> Byte] : F = Filled(f, size)
      BY <1>2, <1>3, FilledType DEF Reads
<1>14. /\ pos[f] + size = AtMost(g + l, s)
       /\ \A p \in Place : p < l /\ g + p + 1 <= s => F[p] = g + p + 1
      BY <1>2, <1>11, <1>12, <1>13, FilledIs
<1>15. /\ pos'[f] = AtMost(g + l, s)
       /\ \A h \in Fd : h # f => pos'[h] = pos[h] /\ cache'[h] = cache[h]
      BY <1>2, <1>3, <1>14 DEF TypeInv, ServerType, Reads
<1>16. PICK data : data = DataOf(c, n, m, F) /\ data \in Seq(Answer) /\ Len(data) = m
      BY <1>6, DataType
<1>17. replies'[c] = data /\ \A d \in Client : d # c => replies'[d] = replies[d]
  <2>1. replies \in [Client -> Seq(Answer)] /\ <<>> \o data = data
        BY <1>16, EmptySeq, ConcatProperties DEF TypeInv, ClientType
  <2>2. replies' = [replies EXCEPT ![c] = @ \o data]
        BY <1>3, <1>13, <1>16 DEF Reads
  <2> QED BY <1>5, <1>16, <2>1, <2>2
<1>18. \A k \in DOMAIN replies'[c] : Carries(replies'[c][k], g + (k - 1) * ChunkSize, s)
  <2>1. DOMAIN replies'[c] = 1 .. m
        BY <1>16, <1>17, LenProperties
  <2>2. \A p \in Place : p < n /\ g + p + 1 <= s => F[p] = g + p + 1
        BY <1>12, <1>14
  <2>3. \A k \in 1 .. m : Carries(DataOf(c, n, m, F)[k], g + (k - 1) * ChunkSize, s)
        BY <1>8, <2>2, DataCarries
  <2> QED BY <1>16, <1>17, <2>1, <2>3
<1>19. /\ \A d \in Client : d # c => Msgs(d)' = Msgs(d)
       /\ Msgs(c)' = Msgs(c) \ {x}
      BY <1>2, <1>4, <1>5, TakeStep DEF TypeInv
<1>20. Fetched(c)' = g + l
  <2>1. Msgs(c)' = {} /\ call'[c].pc = "read" /\ got'[c] = got[c]
        BY <1>2, <1>5, <1>19
  <2>2. call'[c].count - call'[c].sent = l
        BY <1>2, <1>5, <1>6, <1>12
  <2> QED BY <1>9, <2>1, <2>2 DEF Fetched
<1>21. Open(c)' /\ call'[c] = call[c] /\ got'[c] = got[c] /\ file' = file /\ plan' = plan
      BY <1>2 DEF Open
<1>22. FetchInvOf(c)'
  <2>1. \E a, b \in Nat : call'[c].count = a * ChunkSize /\ call'[c].sent = b * ChunkSize
        BY <1>2, <1>7, <1>21 DEF FetchInvOf
  <2>2. /\ Holds(file'[f], s) /\ pos'[f] = AtMost(Fetched(c)', s) /\ plan'.stored = s
        /\ InOrder(got'[c], s) /\ Len(got'[c]) = g
        BY <1>9, <1>11, <1>15, <1>20, <1>21
  <2>3. call'[c].pc = "read" /\ call'[c].fd = f
        BY <1>1, <1>5, <1>21
  <2> QED BY <1>18, <2>1, <2>2, <2>3 DEF FetchInvOf
<1>23. ASSUME NEW d \in Client, d # c PROVE Kept(d)
  <2>1. \A h \in Fd : h # call[c].fd => /\ file'[h] = file[h] /\ pos'[h] = pos[h]
                                        /\ info'[h] = info[h] /\ cache'[h] = cache[h]
        BY <1>1, <1>2, <1>15
  <2> QED BY <1>2, <1>17, <1>19, <1>23, <2>1, ServerKept
<1> QED BY <1>21, <1>22, <1>23, FetchStep

\* ibtl_write and ibtl_dwrite are not called.
LEMMA OnlyReads ==
    ASSUME TypeInv, CallInv, FetchInv
    PROVE  /\ ~SwriteBegin /\ ~SwriteChunk /\ ~SwriteAck /\ ~SwriteHeader /\ ~SwriteRecv /\ ~SwriteWrite
           /\ ~SwriteReply
           /\ \A c \in Client : ~SendChunk(c) /\ ~WriteReturns(c)
           /\ \A f \in Fd : ~WriteChunk(f)
<1>1. \A c \in Client : call[c].pc \in {"idle", "open", "ready", "read"}
      BY DEF FetchInv, FetchInvOf
<1>2. ASSUME NEW op \in {"WRITE_BEGIN", "WRITE_CHUNK", "WRITE"}, Probed(op) PROVE FALSE
  <2>1. PICK c : c = Source
        OBVIOUS
  <2>2. c \in Client /\ Open(c) /\ aq[1] \in Msgs(c) /\ aq[1].op = op
        BY <1>2, <2>1, ProbedIs
  <2>3. PICK x : x = aq[1] /\ x \in Msgs(c) /\ x.op = op
        BY <2>2
  <2> QED BY <1>1, <2>2, <2>3, CallOf
<1>3. ~SwriteBegin /\ ~SwriteChunk /\ ~SwriteHeader
      BY <1>2 DEF SwriteBegin, SwriteChunk, SwriteHeader
<1>4. ASSUME main.pc \in {"ack", "swrite"} PROVE FALSE
  <2>1. main.c \in Client /\ call[main.c].pc \in {"write", "dwrite"}
        BY <1>4 DEF TypeInv, OpenInv, MainInv, CallInv, ServeInv
  <2> QED BY <1>1, <2>1
<1>5. ~SwriteAck /\ ~SwriteRecv /\ ~SwriteWrite /\ ~SwriteReply
      BY <1>4 DEF SwriteAck, SwriteRecv, SwriteWrite, SwriteReply
<1>6. \A c \in Client : ~SendChunk(c) /\ ~WriteReturns(c)
      BY <1>1 DEF SendChunk, WriteReturns
<1>7. ASSUME NEW f \in Fd, WriteChunk(f) PROVE FALSE
  <2>1. writers[f] > 0
        BY <1>7 DEF WriteChunk
  <2>2. PICK c \in Client : Open(c) /\ call[c].fd = f
        BY <2>1 DEF CallInv, ServeInv
  <2>3. call[c].pc = "write"
        BY <2>1, <2>2 DEF CallInv, CallInvOf, Receives, WritesOut
  <2> QED BY <1>1, <2>3
<1> QED BY <1>3, <1>5, <1>6, <1>7

LEMMA NextFetch ==
    ASSUME TypeInv, CallInv, CountInv, ReadOnly, FetchInv, [Next]_vars
    PROVE  FetchInv'
<1>0. Plain
      BY DEF ReadOnly, Plain
<1>1. CASE UNCHANGED vars
      BY <1>1, FetchStays DEF vars
<1>2. ASSUME NEW c \in Client, OpenCall(c) PROVE FetchInv'
      BY <1>2, OpenCallFetch
<1>3. ASSUME NEW c \in Client, NEW op \in plan.ops, NEW n \in plan.counts \cup {0},
             op = "close" <=> n = 0, Begin(c, op, n)
      PROVE  FetchInv'
      BY <1>3, BeginFetch
<1>4. ASSUME NEW c \in Client, OpenReturns(c) PROVE FetchInv'
      BY <1>4, OpenReturnsFetch
<1>5. ASSUME NEW c \in Client, ReadChunk(c) PROVE FetchInv'
      BY <1>5, ReadChunkFetch
<1>6. ASSUME NEW c \in Client, SreadLock(c) PROVE FetchInv'
      BY <1>6, FetchStays DEF SreadLock
<1>7. ASSUME NEW c \in Client, Sread(c) PROVE FetchInv'
      BY <1>7, SreadFetch
<1>8. CASE Sopen
      BY <1>8, PlanStays, SopenFetch
<1>9. CASE SreadAsync
      BY <1>9, PlanStays, FetchStays DEF SreadAsync
<1>10. ~Sclose /\ \A c \in Client : ~CloseReturns(c)
      BY <1>0, NoClose
<1> QED BY <1>1, <1>2, <1>3, <1>4, <1>5, <1>6, <1>7, <1>8, <1>9, <1>10, OnlyReads, NextIs

----------------------------------------------------------------------------
(* The theorems *)

LEMMA InitInv ==
    ASSUME Init
    PROVE  Inv
BY InitType, InitCalls, InitStore, InitFetch DEF Inv

LEMMA NextInv ==
    ASSUME Inv, [Next]_vars
    PROVE  Inv'
<1>1. TypeInv'
      BY NextType DEF Inv
<1>2. plan' = plan
      BY PlanStays
<1>3. ASSUME Plain PROVE CallInv' /\ CountInv'
      BY <1>3, NextCalls DEF Inv
<1>4. ASSUME WriteOnly PROVE StoreInv'
      BY <1>4, NextStore DEF Inv, WriteOnly, Plain
<1>5. ASSUME ReadOnly PROVE FetchInv'
      BY <1>5, NextFetch DEF Inv, ReadOnly, Plain
<1> QED BY <1>1, <1>2, <1>3, <1>4, <1>5 DEF Inv, Plain, WriteOnly, ReadOnly

\* When ibtl_write has returned, the file holds all that its client has written, in order,
\* although detached threads write the chunks out and nothing says which thread comes first:
\* for any number of clients, any counts and any sizes of chunk and cache.  (The hypotheses of
\* AckMeansStored hold: the files are new, ibtl_dwrite is not used and nobody closes.)
THEOREM AckStored == Spec => []AckMeansStored
<1>1. Inv => AckMeansStored
  <2> SUFFICES ASSUME Inv, NEW c \in Client, call[c].pc = "ready", plan.ops = {"write"}, plan.stored = 0
               PROVE  file[FdOf(c)] = [i \in 1 .. wrote[c] |-> i]
      BY DEF AckMeansStored
  <2>1. StoreInvOf(c) /\ Open(c)
        BY DEF Inv, WriteOnly, StoreInv, Open
  <2>2. Stored(c) = wrote[c]
        BY DEF Stored
  <2> QED BY <2>1, <2>2 DEF StoreInvOf, Holds, FdOf
<1> QED BY <1>1, InitInv, NextInv, PTL DEF Spec

\* Clients that read whole chunks get the bytes of their file in order, although every
\* request may start several threads of ibvio_sread and those of other clients run at the same
\* time: for any number of clients and any sizes.
THEOREM ReadSequential == Spec => [](ReadOnly => ReadIsSequential)
<1>1. Inv => (ReadOnly => ReadIsSequential)
      BY DEF Inv, FetchInv, FetchInvOf, InOrder, ReadIsSequential
<1> QED BY <1>1, InitInv, NextInv, PTL DEF Spec

=============================================================================
