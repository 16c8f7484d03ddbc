------------------------------ MODULE IbioFile ------------------------------
(***************************************************************************)
(* The remote files of examples/ibio_client.c and examples/ibio_server.c.  *)
(* A client opens one file, writes and reads it with blocking calls and    *)
(* closes it; the server's main loop probes for a message and dispatches   *)
(* on the operation packed into its tag.  A chunk of a write is stored in  *)
(* the cache of the file and a detached thread writes it out; a read is    *)
(* done by a detached thread from its receive on.                          *)
(*                                                                         *)
(* Messages are reliable and in order per client, and a receive takes the  *)
(* oldest message of its source and tag, as FdmiMessaging shows.  File     *)
(* descriptors are numbered from 0: only which is next to which matters.   *)
(* A byte is its number among the bytes that its client has written.       *)
(***************************************************************************)
EXTENDS Integers, Sequences, FiniteSets

CONSTANTS
    Client,
    None,
    Plans,        \* what clients do in a run, records [ops, counts, stored]: the calls they
                  \* make, of "write", "dwrite", "read" and "close", the values of parameter
                  \* count, and the number of bytes in a file when it is opened
    ChunkSize,    \* IBVIO_CHUNK_SIZE
    CacheSize,    \* BUF_SIZE
    MaxOps,       \* bound: calls per client
    MaxReaders    \* bound: reader threads that one request may start

ASSUME IbioAssumption ==
    /\ ChunkSize \in Nat \ {0} /\ CacheSize \in Nat
    /\ MaxOps \in Nat /\ MaxReaders \in Nat \ {0}
    /\ \A p \in Plans : /\ p.counts \subseteq 1 .. CacheSize /\ p.stored \in Nat
                        /\ p.ops \subseteq {"write", "dwrite", "read", "close"}
    /\ None \notin Client /\ IsFiniteSet(Client)

Fd    == 0 .. Cardinality(Client) - 1
Place == 0 .. CacheSize - 1

VARIABLES
    plan,          \* which calls are made (not in the code)
    call,          \* per client: the call it is in, and the file it has
    wrote, got,    \* per client: number of bytes written, the bytes read
    aq,            \* messages the server has not received, in order of arrival
    replies,       \* per client: messages of the server it has not received
    file, pos,     \* per descriptor: contents and offset of the open file
    owner,         \* per descriptor: the client that opened it, or None
    info,          \* open_info: fd, write_count, current_write_count, current_recv_size
    cache,         \* open_info: file_info->cache
    fastmutex,     \* open_info: whether a reader thread holds it
    writers,       \* per descriptor: chunk threads that have not written yet
    readers,       \* per client: reader threads that have not locked fastmutex yet
    reading,       \* per client: reader threads that have, and have not unlocked it
    main           \* what the server's main loop is doing

vars == <<plan, call, wrote, got, aq, replies, file, pos, owner, info, cache, fastmutex,
          writers, readers, reading, main>>

Idle  == [pc |-> "idle", fd |-> None, count |-> 0, sent |-> 0, ops |-> 0]
Probe == [pc |-> "probe", c |-> None, count |-> 0, recv |-> 0, out |-> 0, start |-> 0]
Zero  == [fd |-> None, write_count |-> 0, current_write_count |-> 0, current_recv_size |-> 0]

Init ==
    /\ plan \in Plans
    /\ call = [c \in Client |-> Idle]
    /\ wrote = [c \in Client |-> 0]
    /\ got = [c \in Client |-> <<>>]
    /\ aq = <<>>
    /\ replies = [c \in Client |-> <<>>]
    /\ file = [f \in Fd |-> <<>>]
    /\ pos = [f \in Fd |-> 0]
    /\ owner = [f \in Fd |-> None]
    /\ info = [f \in Fd |-> Zero]
    /\ cache = [f \in Fd |-> [i \in Place |-> None]]
    /\ fastmutex = [f \in Fd |-> FALSE]
    /\ writers = [f \in Fd |-> 0]
    /\ readers = [c \in Client |-> 0]
    /\ reading = [c \in Client |-> 0]
    /\ main = Probe

server  == <<plan, file, pos, owner, info, cache, fastmutex, writers, readers,
             reading, main>>
threads == <<writers, readers, reading>>

----------------------------------------------------------------------------
\* The client.  A message carries its operation, the count of the header and,
\* for a chunk, the bytes.
Msg(c, op, n, bytes) == [src |-> c, op |-> op, count |-> n, bytes |-> bytes]
Send(m)              == aq' = Append(aq, m)

NextChunk(done, n) ==
    IF done + ChunkSize > n THEN n - done ELSE ChunkSize

OpenCall(c) ==
    /\ call[c].pc = "idle"
    /\ Send(Msg(c, "OPEN", 0, <<>>))
    /\ call' = [call EXCEPT ![c].pc = "open"]
    /\ UNCHANGED <<wrote, got, replies, server>>

OpenReturns(c) ==
    /\ call[c].pc = "open" /\ replies[c] # <<>>
    /\ call' = [call EXCEPT ![c] = [Idle EXCEPT !.pc = "ready", !.fd = Head(replies[c]).count]]
    /\ replies' = [replies EXCEPT ![c] = Tail(@)]
    /\ UNCHANGED <<wrote, got, aq, server>>

\* ibtl_write, ibtl_dwrite, ibtl_read and ibtl_close: the header.
Header == [write |-> "WRITE_BEGIN", dwrite |-> "WRITE", read |-> "READ", close |-> "CLOSE"]
Begin(c, op, n) ==
    /\ call[c].pc = "ready" /\ call[c].ops < MaxOps /\ op \in plan.ops
    /\ Send(Msg(c, Header[op], n, <<>>))
    /\ call' = [call EXCEPT ![c].pc = op, ![c].count = n, ![c].sent = 0, ![c].ops = @ + 1]
    /\ UNCHANGED <<wrote, got, replies, server>>

SendChunk(c) ==
    LET k == NextChunk(call[c].sent, call[c].count)
        b == [i \in 1 .. k |-> wrote[c] + i] IN
    /\ call[c].pc \in {"write", "dwrite"} /\ call[c].sent < call[c].count
    /\ Send(Msg(c, IF call[c].pc = "write" THEN "WRITE_CHUNK" ELSE "WRITE", k, b))
    /\ call' = [call EXCEPT ![c].sent = @ + k]
    /\ wrote' = [wrote EXCEPT ![c] = @ + k]
    /\ UNCHANGED <<got, replies, server>>

WriteReturns(c) ==
    /\ call[c].pc \in {"write", "dwrite"} /\ call[c].sent = call[c].count
    /\ replies[c] # <<>>
    /\ call' = [call EXCEPT ![c].pc = "ready"]
    /\ replies' = [replies EXCEPT ![c] = Tail(@)]
    /\ UNCHANGED <<wrote, got, aq, server>>

ReadChunk(c) ==
    LET k == NextChunk(call[c].sent, call[c].count) IN
    /\ call[c].pc = "read" /\ replies[c] # <<>>
    /\ got' = [got EXCEPT ![c] = @ \o Head(replies[c]).bytes]
    /\ call' = [call EXCEPT ![c].sent = @ + k,
                    ![c].pc = IF call[c].sent + k = call[c].count THEN "ready" ELSE "read"]
    /\ replies' = [replies EXCEPT ![c] = Tail(@)]
    /\ UNCHANGED <<wrote, aq, server>>

CloseReturns(c) ==
    /\ call[c].pc = "close" /\ replies[c] # <<>>
    /\ call' = [call EXCEPT ![c].pc = "closed"]
    /\ replies' = [replies EXCEPT ![c] = Tail(@)]
    /\ UNCHANGED <<wrote, got, aq, server>>

----------------------------------------------------------------------------
\* The server's main loop.  iprobe reports the oldest message; the handler
\* receives it, and nobody else can have, but for READ.
Probed(op) == main.pc = "probe" /\ aq # <<>> /\ Head(aq).op = op
Source     == Head(aq).src
FdOf(c)    == call[c].fd
Reply(c, n, b) == replies' = [replies EXCEPT ![c] = Append(@, Msg(c, "REPLY", n, b))]

\* ibvio_sopen: open returns the lowest free descriptor.
Sopen ==
    LET f == CHOOSE x \in Fd : owner[x] = None /\ \A y \in Fd : y < x => owner[y] # None IN
    /\ Probed("OPEN")
    /\ aq' = Tail(aq)
    /\ Reply(Source, f, <<>>)
    /\ owner' = [owner EXCEPT ![f] = Source]
    /\ file' = [file EXCEPT ![f] = [i \in 1 .. plan.stored |-> i]]
    /\ pos' = [pos EXCEPT ![f] = 0]
    /\ info' = [info EXCEPT ![f] = [Zero EXCEPT !.fd = f]]
    /\ cache' = [cache EXCEPT ![f] = [i \in Place |-> None]]
    /\ fastmutex' = [fastmutex EXCEPT ![f] = FALSE]
    /\ UNCHANGED <<call, wrote, got, threads, main>>

\* Faulty: the count of bytes written is left from the write before.
SwriteBeginKeepsWritten ==
    /\ Probed("WRITE_BEGIN")
    /\ aq' = Tail(aq)
    /\ info' = [info EXCEPT ![FdOf(Source)].write_count = Head(aq).count,
                            ![FdOf(Source)].current_recv_size = 0]
    /\ UNCHANGED <<call, wrote, got, replies, file, pos, owner, cache, fastmutex, threads, main>>

\* Faulty: the count of bytes received is left from the write before.
SwriteBeginKeepsReceived ==
    /\ Probed("WRITE_BEGIN")
    /\ aq' = Tail(aq)
    /\ info' = [info EXCEPT ![FdOf(Source)].write_count = Head(aq).count,
                            ![FdOf(Source)].current_write_count = 0]
    /\ UNCHANGED <<call, wrote, got, replies, file, pos, owner, cache, fastmutex, threads, main>>

\* ibvio_swrite_begin
SwriteBegin ==
    /\ Probed("WRITE_BEGIN")
    /\ aq' = Tail(aq)
    /\ info' = [info EXCEPT ![FdOf(Source)].write_count = Head(aq).count,
                            ![FdOf(Source)].current_recv_size = 0,
                            ![FdOf(Source)].current_write_count = 0]
    /\ UNCHANGED <<call, wrote, got, replies, file, pos, owner, cache, fastmutex, threads, main>>

Store(f, at, b) ==
    cache' = [cache EXCEPT ![f] =
                 [i \in Place |-> IF i - at \in 0 .. Len(b) - 1 THEN b[i - at + 1] ELSE @[i]]]

\* ibvio_swrite_chunk, up to the test for the last chunk
SwriteChunk ==
    LET f == FdOf(Source)
        r == info[f].current_recv_size
        k == NextChunk(r, info[f].write_count) IN
    /\ Probed("WRITE_CHUNK")
    /\ aq' = Tail(aq)
    /\ Store(f, r, Head(aq).bytes)
    /\ info' = [info EXCEPT ![f].current_recv_size = r + k]
    /\ writers' = [writers EXCEPT ![f] = @ + 1]
    /\ main' = IF r + k = info[f].write_count
                 THEN [Probe EXCEPT !.pc = "ack", !.c = Source] ELSE main
    /\ UNCHANGED <<call, wrote, got, replies, file, pos, owner, fastmutex, readers, reading>>

\* Faulty: the reply does not wait for the threads.
SwriteAckAtOnce ==
    /\ main.pc = "ack"
    /\ Reply(main.c, 0, <<>>)
    /\ main' = Probe
    /\ UNCHANGED <<call, wrote, got, aq, file, pos, owner, info, cache, fastmutex, threads>>

\* ibvio_swrite_chunk: wait until the threads have written the last chunk, and reply
SwriteAck ==
    LET i == info[FdOf(main.c)] IN
    /\ main.pc = "ack" /\ i.current_write_count = i.write_count
    /\ Reply(main.c, 0, <<>>)
    /\ main' = Probe
    /\ UNCHANGED <<call, wrote, got, aq, file, pos, owner, info, cache, fastmutex, threads>>

\* ibvio_swrite receives all chunks itself, writing each out while it waits for the
\* next.  The offset in the cache where it starts to write from, write_size, is not
\* initialised: it may be the right one or another.
SwriteHeader ==
    /\ Probed("WRITE")
    /\ aq' = Tail(aq)
    /\ \E w \in {0, ChunkSize} :
         main' = [pc |-> "swrite", c |-> Source, count |-> Head(aq).count, recv |-> 0, out |-> 0,
                  start |-> w]
    /\ UNCHANGED <<call, wrote, got, replies, file, pos, owner, info, cache, fastmutex, threads>>

IsFrom(c, op, i) == aq[i].src = c /\ aq[i].op = op
FirstFrom(c, op) == CHOOSE i \in DOMAIN aq : IsFrom(c, op, i) /\ \A j \in 1 .. i - 1 : ~IsFrom(c, op, j)
Without(i)       == SubSeq(aq, 1, i - 1) \o SubSeq(aq, i + 1, Len(aq))

\* A receive completes.  It was posted when all chunks but the one before were written.
SwriteRecv ==
    /\ main.pc = "swrite" /\ main.recv < main.count /\ main.recv <= main.out + ChunkSize
    /\ \E i \in DOMAIN aq : IsFrom(main.c, "WRITE", i)
    /\ LET i == FirstFrom(main.c, "WRITE") IN
         /\ aq' = Without(i)
         /\ Store(FdOf(main.c), main.recv, aq[i].bytes)
    /\ main' = [main EXCEPT !.recv = @ + NextChunk(main.recv, main.count)]
    /\ UNCHANGED <<call, wrote, got, replies, file, pos, owner, info, fastmutex, threads>>

\* n bytes of the cache of f from place a on; a place past its end holds anything.
CacheBytes(f, a, n) == [i \in 1 .. n |-> IF a + i - 1 \in Place THEN cache[f][a + i - 1] ELSE None]

\* write(2), at the offset of the file; it is taken to write all it is given
WriteOut(f, b) ==
    /\ file' = [file EXCEPT ![f] = SubSeq(@, 1, pos[f]) \o b \o SubSeq(@, pos[f] + Len(b) + 1, Len(@))]
    /\ pos' = [pos EXCEPT ![f] = @ + Len(b)]

\* A chunk is written out, before or after the next one has been stored.
SwriteWrite ==
    LET f == FdOf(main.c)
        k == NextChunk(main.out, main.count) IN
    /\ main.pc = "swrite" /\ main.out < main.recv
    /\ WriteOut(f, CacheBytes(f, main.start + main.out, k))
    /\ main' = [main EXCEPT !.out = @ + k]
    /\ UNCHANGED <<call, wrote, got, aq, replies, owner, info, cache, fastmutex, threads>>

\* All chunks are received and written.
SwriteReply ==
    /\ main.pc = "swrite" /\ main.recv = main.count /\ main.out = main.count
    /\ Reply(main.c, 0, <<>>)
    /\ main' = Probe
    /\ UNCHANGED <<call, wrote, got, aq, file, pos, owner, info, cache, fastmutex, threads>>

\* ibvio_sread_async: a thread is started; the message stays until that receives it.
SreadAsync ==
    /\ Probed("READ")
    /\ readers[Source] < MaxReaders
    /\ readers' = [readers EXCEPT ![Source] = @ + 1]
    /\ UNCHANGED <<call, wrote, got, aq, replies, file, pos, owner, info, cache, fastmutex,
                   writers, reading, main>>

\* ibvio_sclose clears sizeof(struct ibvio_open) bytes, more than an entry of
\* open_info has: the counts, the descriptor and the mutex of the next entry too.
Cleared(f) == {f, f + 1} \cap Fd
Sclose ==
    LET f == FdOf(Source) IN
    /\ Probed("CLOSE")
    /\ aq' = Tail(aq)
    /\ Reply(Source, 0, <<>>)
    /\ owner' = [owner EXCEPT ![f] = None]
    /\ cache' = [cache EXCEPT ![f] = [i \in Place |-> None]]
    /\ info' = [g \in Fd |-> IF g \in Cleared(f) THEN Zero ELSE info[g]]
    /\ fastmutex' = [g \in Fd |-> IF g \in Cleared(f) THEN FALSE ELSE fastmutex[g]]
    /\ UNCHANGED <<call, wrote, got, file, pos, threads, main>>

MainLoop ==
    /\ Sopen \/ SwriteBegin \/ SwriteChunk \/ SwriteAck \/ SwriteHeader \/ SwriteRecv
         \/ SwriteWrite \/ SwriteReply \/ SreadAsync \/ Sclose
    /\ UNCHANGED plan

----------------------------------------------------------------------------
\* ibvio_swrite_chunk_thread: the next chunk of the cache, whichever thread comes
\* first.  With a descriptor that has been cleared the bytes go nowhere.
WriteChunk(f) ==
    LET w == info[f].current_write_count
        k == NextChunk(w, info[f].write_count) IN
    /\ writers[f] > 0 /\ ~fastmutex[f]
    /\ IF info[f].fd = f THEN WriteOut(f, CacheBytes(f, w, k)) ELSE UNCHANGED <<file, pos>>
    /\ info' = [info EXCEPT ![f].current_write_count = w + k]
    /\ writers' = [writers EXCEPT ![f] = @ - 1]
    /\ UNCHANGED <<plan, call, wrote, got, aq, replies, owner, cache, fastmutex, readers, reading, main>>

\* ibvio_sread: lock, and then wait for the request ...
SreadLock(c) ==
    /\ readers[c] > 0 /\ ~fastmutex[FdOf(c)]
    /\ fastmutex' = [fastmutex EXCEPT ![FdOf(c)] = TRUE]
    /\ readers' = [readers EXCEPT ![c] = @ - 1]
    /\ reading' = [reading EXCEPT ![c] = @ + 1]
    /\ UNCHANGED <<plan, call, wrote, got, aq, replies, file, pos, owner, info, cache, writers, main>>

\* pthread_mutex_unlock at its end
Unlocked(c) ==
    /\ fastmutex' = [fastmutex EXCEPT ![FdOf(c)] = FALSE]
    /\ reading' = [reading EXCEPT ![c] = @ - 1]

\* Faulty: every read starts at the beginning of the file.
FilledFromStart(f, size) == [p \in Place |-> IF p < size THEN file[f][p + 1] ELSE cache[f][p]]

\* The cache after read(2) has put the next bytes of the file into it.
Filled(f, size) == [p \in Place |-> IF p < size THEN file[f][pos[f] + p + 1] ELSE cache[f][p]]

\* ... fill the cache with whole chunks, send the bytes asked for, and unlock.
Sread(c) ==
    LET f == FdOf(c)
        i == FirstFrom(c, "READ")
        n == aq[i].count
        chunks == (n + ChunkSize - 1) \div ChunkSize
        size == IF pos[f] + chunks * ChunkSize > Len(file[f]) THEN Len(file[f]) - pos[f]
                ELSE chunks * ChunkSize
        filled == Filled(f, size) IN
    /\ reading[c] > 0
    /\ \E j \in DOMAIN aq : IsFrom(c, "READ", j)
    /\ aq' = Without(i)
    /\ cache' = [cache EXCEPT ![f] = filled]
    /\ pos' = [pos EXCEPT ![f] = @ + size]
    /\ replies' = [replies EXCEPT ![c] = @ \o
          [k \in 1 .. chunks |->
             Msg(c, "DATA", 0, [b \in 1 .. NextChunk((k - 1) * ChunkSize, n) |->
                                   filled[(k - 1) * ChunkSize + b - 1]])]]
    /\ Unlocked(c)
    /\ UNCHANGED <<plan, call, wrote, got, file, owner, info, writers, readers, main>>

CallAny(c) ==
    \/ OpenCall(c)
    \/ \E op \in plan.ops, n \in plan.counts \cup {0} : (op = "close" <=> n = 0) /\ Begin(c, op, n)

CallStep(c) == OpenReturns(c) \/ SendChunk(c) \/ WriteReturns(c) \/ ReadChunk(c) \/ CloseReturns(c)

Next ==
    \/ \E c \in Client : CallAny(c) \/ CallStep(c) \/ SreadLock(c) \/ Sread(c)
    \/ \E f \in Fd : WriteChunk(f)
    \/ MainLoop

Spec == Init /\ [][Next]_vars

\* A call in progress, the main loop and every thread that can go on do.
FairSpec ==
    /\ Spec /\ WF_vars(MainLoop)
    /\ \A c \in Client : WF_vars(CallStep(c)) /\ WF_vars(SreadLock(c)) /\ WF_vars(Sread(c))
    /\ \A f \in Fd : WF_vars(WriteChunk(f))

----------------------------------------------------------------------------
\* The chunk threads never write more of the cache than has been received, as long as no
\* file is closed: ibvio_sclose clears the counts of the next descriptor too.
WritesOnlyReceived ==
    "close" \notin plan.ops => \A f \in Fd : info[f].current_write_count <= info[f].current_recv_size

\* Every variable keeps its type.  In particular a chunk thread never finds less
\* than nothing left to write, and the counters stay within the cache.
TypeOK ==
    /\ \A c \in Client : /\ call[c].fd \in Fd \cup {None}
                         /\ call[c].sent \in 0 .. call[c].count
                         /\ wrote[c] \in Nat /\ readers[c] \in 0 .. MaxReaders /\ reading[c] \in Nat
    /\ \A f \in Fd : /\ owner[f] \in Client \cup {None}
                     /\ fastmutex[f] \in BOOLEAN
                     /\ writers[f] \in Nat
                     /\ pos[f] \in 0 .. Len(file[f])
                     /\ info[f].write_count \in 0 .. CacheSize
                     /\ info[f].current_write_count \in 0 .. info[f].write_count
                     /\ info[f].current_recv_size \in 0 .. info[f].write_count
    /\ \A m \in {aq[i] : i \in DOMAIN aq} : m.src \in Client /\ m.count \in Nat
    /\ WritesOnlyReceived

\* src/examples/ibio_server.c:263, "If this is the last chunk, reply completion msg":
\* when a write has returned, the file holds all that its client has written, as long as
\* no file is closed and ibtl_dwrite, with its uninitialised offset, is not used.
AckMeansStored ==
    \A c \in Client : call[c].pc = "ready" /\ plan.ops = {"write"} /\ plan.stored = 0 =>
        file[FdOf(c)] = [i \in 1 .. wrote[c] |-> i]

\* A client has the bytes of its file in order, whatever other clients do.
ReadIsSequential ==
    \A c \in Client : \A i \in DOMAIN got[c] : i <= plan.stored => got[c][i] = i

\* Every call returns.
CallsReturn ==
    \A c \in Client : call[c].pc \in {"open", "write", "dwrite", "read", "close"}
                        ~> call[c].pc \in {"ready", "closed"}
=============================================================================
