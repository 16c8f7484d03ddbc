# A TLA+ verification of libibtl

libibtl is a messaging runtime for clients and servers over InfiniBand verbs
(`src/fdmi.c` and helpers, `include/`), with a remote file service as its example
application (`examples/ibio_*`) and a parallel compressor made from pigz beside it
(`examples/pgz.c`, `examples/yarn.c`). This directory holds TLA+ modules of its core, the TLC
configurations that check them on small instances, and TLAPS proofs of results that hold
for every instance. Paths below are relative to the repository.

## 1. The system

### Processes and threads

Every process runs application threads, one *event thread*
(`fdmi_poll_event_recv_channel`), which turns events of the RDMA connection manager into
connections, and one *completion-queue thread* or *poller* (`fdmi_poll_sendrecv_cq`),
started with the first connection, which handles every completion of the hardware. They
share queues with a mutex each, flags and structures without one, and a pool of queries.
Between processes there are reliable connections (RC queue pairs): work requests execute
and complete in order per connection; all connections of a process report to one
completion queue.

### Components

| component | state | operations | talks to |
|---|---|---|---|
| message protocol, `fdmi.c` | `aq`, `pq` (arrived / posted and unmatched), `send_req_q`, request flags, `fdmi_state` | `fdmi_verbs_isend`, `irecv`, `wait`, `test`, `iprobe`; the handlers of the poller | queue pairs, query pool |
| query pool, `fdmi.c` | `free_query_q`, fields of every query, receives posted per connection | `fdmi_create_query`, `fdmi_destroy_query`, posting of receives, sends and reads | used by both kinds of thread |
| connections, `fdmi.c` | `peers` (connection, `is_connected`, `on_connecting_lock`), `connected_rank`, `domain->dctx`, table of ranks | `fdmi_verbs_connect`, `fdmi_wait_ready`, the cases of the event thread | connection manager, poller |
| remote files, `examples/` | `open_info` (counts, cache, `fastmutex`), files, the client's `host_ids` | open, write, dwrite, read, close; main loop, chunk threads, reader threads | message protocol |
| linked-list queue, `fdmi_queue.c` | list, `ite`, `length`, mutex | enq, deq, iterate, remove, index | everything above |
| hash table, `fdmi_hashtable.c` | buckets | add, update, get, remove | table of ranks |
| ranks, `fdmi_proc_man.c` | rank maps, communicators, states of processes | init, dup, get_vrank, get_prank, update, elect | identity map in this build |
| registration cache, `fdmi.c` | `reg_mr_q`, `reg_mr_cached_size` | `fdmi_reg_mr`, `fdmi_dereg_mr` | query pool, rendezvous |
| datatypes, `fdmi_datatype.c` | type descriptors | `type_vector`, packing in `fdmi_post_send_msg` | message protocol |
| compression, `pgz.c` | job lists `compress_head` and `write_head`, pools of buffers with use counts, dictionary, check values | `parallel_compress`, `compress_thread`, `write_thread`, `finish_jobs`, `compress_write` | yarn |
| decompression, `pgz.c` | two input buffers, window, copy of the output, states of three helper threads | `load`, `load_read`, `get_header`, `infchk`, `outb`, `outb_write`, `outb_check`, `cat` | yarn, zlib |
| threads and locks, `yarn.c` | list of threads, locks with a value | `launch`, `join`, `join_all`, `possess`, `twist`, `wait_for` | pgz |
| failure status, `fdmi.c` | `failed_prank_q` | `get_failure_status`, `accept_failure_status` | event thread |

Helpers (`fdmi_mem`, `fdmi_param`, `fdmi_exec`, `fdmi_err`, `fdmi_util`), the straight-line
examples and the build files have no logic of their own to verify.

### What is hard, and what makes it correct

* Application thread and poller search one queue and insert into the other. Correct: a
  message and a receive that accept each other never both wait; nothing overtakes; data
  that arrive are the data that were sent; every call completes.
* A query changes hands between two threads, the hardware and the pool, and some code
  reads it after it has been freed. Correct: one owner at a time; each connection keeps
  its receive credits; what `wait` reports is what was received.
* A connection is built in steps by the event threads of two processes, in an order the
  connection manager chooses, while other threads look at it. Correct: connected means
  usable; a rank leads to the host it was given for; a message's source leads back to its
  sender; connecting ends.
* The linked list carries its own iterator, and loops remove what they are at; the hash
  table walks it without a lock; the registration cache unlocks between search and
  insertion. Correct: no freed node is followed and the list is a sequence to its users;
  a lookup finds what was added before; a region that is returned covers the buffer.
* Blocks are compressed by several threads and written by one, over a bounded number of
  buffers that several hold at once. Correct: the stream decodes to the input whatever
  the interleaving; a buffer is reused only when nobody holds it, and then it is; nobody
  waits for ever.
* Decompression reads ahead, writes and checks in helper threads over shared buffers.
  Correct: input is parsed in order, output is the data, damage is reported.
* The file server receives into a cache from which detached threads write, and starts
  readers on a message it has only probed. Correct: an acknowledged write is in the file;
  reads are sequential; calls return.

`PROJECT.json` lists the hazards line by line with the properties that cover them.

## 2. Modules

| module | models | abstracts |
|---|---|---|
| `FdmiMessaging` | isend, irecv, wait, all handlers of the poller, queue pairs, loss of a connection, any number of processes | a query is the call it serves; payload is `"orig"` or `"reused"` |
| `MessageTransfer` | the abstract specification: what isend, irecv and wait promise | no queues, threads, hardware |
| `FdmiQueryPool` | every place that takes, fills, posts, passes on, frees or reads a query, in one process with two threads | matching by tag only; the peers are the environment |
| `FdmiConnect` | `fdmi_verbs_connect`, `fdmi_wait_ready`, event threads of all processes, first message of each caller | the connection manager always answers |
| `IbioFile` | clients and server of the remote files with all server threads | messages reliable and in order; a byte is its number |
| `FdmiQueue` | the linked list: nodes, `head`, `tail`, `ite`, and the operations of callers that hold its mutex | an element is a value |
| `ListQueue` | the abstract specification: a sequence with walks | no nodes and pointers |
| `FdmiTables` | `FdmiQueue` as a queue, as a bucket of the table of ranks, as the cache of `fdmi_reg_mr` | one bucket; hashing left out |
| `Yarn`, `PgzPool` | yarn's list of threads; pigz's pools of buffers, get, use and drop | a lock with its value is one variable |
| `PgzCompress` | `compress_write`, `parallel_compress` with the dictionary and the rsync option, compress threads, write thread, `finish_jobs`; extends the two above | a block is a sequence of numbered units; a piece of output records what it was compressed from and with which dictionary |
| `PgzInflate` | input with read-ahead, headers, members, window, write and check threads, trailing junk | a member is header symbols, data units and trailer symbols |
| `QueueLemmas` | lemmas on sequences that the proofs share | |
| `FdmiMessagingProofs`, `FdmiDeliveryProofs` | proofs about `FdmiMessaging`, the second on top of the first: types, matching and order; FINs, data and the refinement of `MessageTransfer` | |
| `FdmiQueryPoolProofs`, `FdmiConnectProofs`, `IbioFileProofs`, `PgzInflateProofs` | proofs about the modules of these names | |
| `FdmiTablesProofs` | proofs about `FdmiQueue` and `FdmiTables`, and the refinement of `ListQueue` | |
| `MC...` | model values, symmetry and call tables for TLC | |

Modules keep the code's names: a variable is the C variable or field of that name, an
action the function or the handler, and `map` in `PROJECT.json` gives the lines. An
operation under the locks of `aq` and `pq` is one step. Where a handler goes on after it
has unlocked, or writes something another thread reads without a lock, it is several
steps, with a program counter in `poller`, `app`, `isend_pc`, `call_pc` or `main`.

**FdmiMessaging.** `IsendEnq` and `IsendPost` are the two halves of `fdmi_verbs_isend`
(the request is registered in `send_req_q` before its flag is cleared and the message
posted). `Irecv` is one critical section. `PollInit` and `Deliver` are
`fdmi_on_recv_cq_wc_recv` inside and after its critical section; `PollRead`, `SendFin`,
`PollSent`, `RemoveSendReq`, `PollFinSent` and `PollFin` are the other handlers. `NicSend`,
`NicRead` and `NicComplete` execute and complete work requests in order; `Break` loses
what is in flight and lets any suffix of the executed requests end in an error completion,
which `fdmi_get_wc` reports as -1 and the poller skips. `Disconnected` is the event
thread's case up to the `break` statement that ends it; the flush and the release of
waiters that follow it in the source are unreachable. `fdmi_msg.op` is not initialised by
isend: `Op` enumerates its values. The epoch is left out: it is 0 in every message.

**FdmiQueryPool.** Queries are numbers; `malloc` hands out the next one when the pool has
none that fits. A query is never given back to `malloc`, so reading it after
`fdmi_destroy_query` yields what the other thread has put there, and the actions that do
so (`IrecvStatus`, `Repost`) are steps of their own.

**FdmiConnect.** `fdmi_create_qp` stores `domain->dctx` before it fills it in, so it is
two steps (`CreateDctx`, `CreateQueryQp`); the loop that posts receives is one step per
receive, because the poller may already consume them. Ids are the two ends of each call.
The branch that rejects a caller whose lock is taken is not an action: `LockIsFree` shows
that it is unreachable. The error events of the connection manager do nothing in the code
and are not generated.

**IbioFile.** `MainLoop` is the server's loop with its waits as steps. `WriteChunk` is the
detached thread of a chunk, `SreadLock` and `Sread` that of a read: one request may start
up to `MaxReaders` threads, because the loop probes the message again until a thread has
received it. `ibvio_swrite` posts the receive of a chunk, writes out the one before, and then
waits for the receive (`SwriteRecv`, `SwriteWrite`): the two may happen in either order, and
no more than one chunk is received ahead of the writing. It writes from an offset in the
cache that is not initialised: the model takes the right one or one that is a chunk too
large. The `memset` of `ibvio_sclose`, which is larger than the entry it clears, clears the next descriptor's
entry too. `plan`, chosen at the start, says which calls the clients make. Left out:
several servers per client, failed opens, counts of 0, return values, reads of part of a
chunk.

**FdmiQueue, FdmiTables.** `next`, `data` and `live` are the heap: `malloc` returns any
node that is not live. `list` and `at` are history variables, the nodes in order and the
place of `ite` among them; no guard reads them, except that `fdmi_reg_mr`, which walks
with the mutex held, finds its buffer in `list`. `fdmi_queue_remove` is one step per
element it passes. In the table of ranks `fdmi_queue_enq` is two steps, linking and moving
the tail, between which a lookup may look; adds come from one thread, as in a process that
only connects or only accepts.

**PgzCompress.** A job, a buffer and a lock are as in the code; `Yarn` and `PgzPool` are
its parts for threads and buffers. The compress thread and the write thread are one step
between two lock operations; blocks of a thread on a lock are guards. The hash of the
rsync option hits at places chosen at the start. Compression of a block yields a record of
the block, the dictionary it was given and the lengths of its parts, so that
`StreamIsInput` can ask whether a decompressor has that dictionary at that place. It asks this
of the stream a call returns, of the buffer the dump thread of `compress_write` has, and of
each file that thread has written, which must be those of the calls in order, none left out.

**PgzInflate.** A file is a list of members, whole, damaged or cut short at any symbol,
with junk behind; the main thread asks for one symbol at a time and calls `load` when a
buffer is used up. The read, write and check threads are actions of their own; zlib's
inflate yields a unit at a time and reports damage where it meets it.

## 3. What TLC checks

Deadlock is not checked (`CHECK_DEADLOCK FALSE`): each run bounds the number of calls, and
when all have been made and answered nothing is left to do. That no one waits for ever is
stated by the liveness properties instead.

| run | instance | properties |
|---|---|---|
| `messaging_matching` | 2 processes, both send, 2 sends that may overlap, 2 receives, 2 tags and the wildcards | `TypeOK`, `NoLostMatch`, `NotOvertaken`, `FinFindsRequest` |
| `messaging_serial` | the same with one tag, one send outstanding per process, and one connection that may break | `KeepsPromises` (implements `MessageTransfer`), `ReceivedDataIntact`, `SendDoneMeansRead` |
| `messaging_liveness` | one sender, 2 sends one after the other, 2 receives, fairness | `CompatibleGetMatched`, `MatchedRecvCompletes`, `SendCompletes` |
| `pool_client` | 1 connection, 1 send, 2 receives, 2 messages, fairness | `TypeOK`, `OneOwner`, `PostedIsRegistered`, `CreditsKept`, `RecvsComplete` |
| `connect_clients` | 2 clients, 2 servers, 3 calls, one connection may be lost | `TypeOK`, `LockIsFree`, `SourceNamesClient`, `ConnectedIsUsable`, `RankNamesHost`, `DisconnectedNamesLost` |
| `connect_again` | 2 clients, 1 server, one client calls twice with one rank, fairness | `ConnectReturns`, `CallerIsHeard` |
| `ibio_calls` | 2 clients with 2 calls each: writes of one and of two chunks; writes and dwrites; writes and closes; reads of 2 and 4 bytes with 2 reader threads per request; fairness | `TypeOK`, `AckMeansStored`, `ReadIsSequential`, `CallsReturn` |
| `tables` | 3 nodes, 2 keys, 2 lengths; 2 threads that look up, 2 that register | `ListInOrder`, `GetFinds`, `MrCacheOK`, `ActsAsList` (implements `ListQueue`) |
| `pgz_compress` | blocks and dictionary of 3 units; 7 units in one call and 0 and 4 units in two, 2 compress threads and the fewest input buffers; 7 units with hash hits and 1 thread, chosen so that pieces are shorter than the dictionary in each way the code tells apart; fairness | `StreamIsInput`, `HitsEndBlocks`, `UseCountsHolders`, `AssertsHold`, `CallReturns` |
| `pgz_inflate` | none, one or two members of 0, 1 or 4 units, input buffers of 3 and a window of 2; whole with junk of 0, 1 or 4, three kinds of damage, or cut at every place; fairness | `InputInOrder`, `OutputIsData`, `DamageIsFound`, `Ends` |

`TypeOK` of `FdmiConnect` includes `RankInBounds`, that of `IbioFile` `WritesOnlyReceived`;
the type invariants of the compression modules are conjuncts of `AssertsHold` and
`InputInOrder`.

Two runs show that the code does not do what the README says; `findings` quotes both.

| run | property violated | what happens |
|---|---|---|
| `messaging_overlap_fin` | `SendDoneMeansRead` | with two sends outstanding a FIN completes the oldest request, not the one it answers: `test` returns 1 for a buffer nobody has read |
| `pool_credits` | `RecvsComplete` | with two connections a handler takes the connection to post a receive on from a query that isend has reused; the first connection is left without receives |

**Why the bounds are enough for what they show.** Matching involves one message and one
receive against what waits before them, so two of each with two tags reach every order of
arrival and posting, and overtaking in both queues. The protocol of a pair of processes
does not depend on a third one except through the shared completion queue and
`send_req_q`; two processes that both send and receive share both. One receive credit per
connection is the tightest case: a credit that is not replaced is missed at the next
message. Two clients of one server are the least for which ranks, locks and descriptors of
different peers can be confused; a second server makes ranks of one client differ. A
write of 3 bytes with chunks of 2 has a whole and a partial chunk; two such calls, or reads
of 4 bytes, fill the cache. Three nodes are the least for which an element between head and
tail is removed, and a node is allocated again while an iterator may point to it. Inputs of
7 units have two full blocks and a short one, and the second pool limit of `parallel_compress`
is the one at which a buffer too few would deadlock; 0 units are the case of a single empty
job. Members of 4 units cross both a buffer of 3 and a window of 2 at different places, and
1 and 0 end on, before and after the boundary. The results for any number of processes are those of section 4.

**Symmetry** is used for calls, tags, processes or clients where the instance treats them
alike, and only in runs without liveness.

**Fairness.** Weak fairness of: a thread inside isend, the poller, the event thread, the
threads of the file server and its main loop (loops that block only on the event they
handle); a spinning `fdmi_verbs_connect` or a client's blocking call, once what it waits
for is there; and the hardware, which executes and completes what is posted, the
connection manager, which reports what it knows, and a peer that answers a rendezvous.
In the compression modules every thread that yarn has launched is fair, and so is a waiter
on a lock once its value is right: `wait_for` is a condition variable that `twist`
broadcasts. Applications are not fair: no call need be made. The liveness properties of
`FdmiMessaging` exempt a lost connection, after which the code releases nobody.

## 4. What TLAPS proves

Every theorem is for all values of the constants that satisfy the named assumptions, which
TLC evaluates in the runs. Where a theorem has a further hypothesis, the statement has it
as `ASSUME ... PROVE`, and it is one under which the code keeps the property and without
which it does not.

### The message protocol

The assumptions are those of `FdmiMessaging` (`ProtocolAssumption`: wildcards are neither
processes nor tags, nobody sends to himself, `None` is no call, no call is both an isend
and an irecv; `NoneAssumption`: `None` is neither a parameter record nor a control message).

| theorem | of | hypothesis |
|---|---|---|
| `TypeCorrect` | `TypeOK` | |
| `NoMatchIsLost` | `NoLostMatch` | |
| `MessagesStayInOrder` | `NotOvertaken` | |
| `FinsFindRequests` | `FinFindsRequest` | |
| `DataArrivesIntact` | `ReceivedDataIntact` | one send outstanding per process |
| `FinMeansRead` | `SendDoneMeansRead` | one send outstanding per process |
| `ProtocolKeepsPromises` | `KeepsPromises`: the protocol implements `MessageTransfer` | one send outstanding per process |

The hypothesis `SerialSends` is needed: with two sends outstanding a FIN completes the
wrong request (run `messaging_overlap_fin`).

*Types and matching* (`FdmiMessagingProofs`). `TypeOK` is not inductive: an action looks up
the control message of a send named in a queue, a work request or the poller. The inductive
invariant is `TypeInv == TypeOK /\ PollerOK /\ Known`: every send named in `aq`, `sq`,
`done`, `cq` or by the poller has been started and so has a control message, every receive
named in `pq` has its parameters, and the poller's fields fit its program counter.
`NoLostMatch` is then inductive relative to `TypeInv`: parameters of a call never change,
a step that only shortens the queues keeps it, and the two steps that lengthen one, `Irecv`
and `PollInit`, do so only after a search of the other has found nothing.

*Order.* A message goes from the send queue of its queue pair to the
completion queue and then to `aq` or to a receive. `OrderInv` says: the log of a pair holds
each of its sends once (`LogInv`); messages are in the queues of their receiver
(`RouteInv`); every queue on the way is in the order of the log, and a later stage is ahead
of an earlier one (`AheadInv`); a send that has come, or waits in the completion queue, has all
earlier ones of its pair come or waiting before it (`PrefixInv`), since a connection that is lost loses a
suffix, and nothing is posted on it afterwards (`LiveInv`); and the receives that wait are
in the order of the calls (`RecvOrderInv`). The proof uses `NoLostMatch`, and that
`Discarded` is never true.

*FINs* (`FdmiDeliveryProofs`). A send is a token: in `sq` as INIT, READ or FIN, executed but
unreported as READ, in a completion queue, in `aq` or in the hands of the poller.
`TokenInv` says that it is at one place (`OnePlace`), once (`OnceEach`), only after it was
posted (`PostedFirst`), and that the entries name the right processes (`EntriesOK`).
`CountInv` then compares two sets: the rendezvous sends of a process that are still to be
answered (`Expected`) are never more than the requests of rendezvous sends in `send_req_q`
(`Requests`). A FIN takes one of each, though perhaps of different sends, so counting and
not naming is what makes the invariant inductive.

*Data.* Under `SerialSends`, `DeliveryInv` adds: entries of the queues carry the data of
their send and belong to the receive that took it (`DataInv`); a SEND that is reported has
been executed and its request was not complete before (`SentOnce`); a process has at most
one send outstanding, `send_req_q` holds no request that is complete except the one the
poller is about to remove (`RequestsOK`), and a rendezvous send that is under way is not
complete (`SerialInv`). So the head of `send_req_q` is the send that the FIN answers, and no
buffer is reused before it has been read.

*The refinement.* Each action has a lemma that it is one action of `MessageTransfer` under the
mapping of `FdmiMessaging` or leaves the mapped variables alone (`IsendEnqMaps` ...
`PollFinMaps`, collected in `NextMaps`). That a receive takes the first message it accepts
follows from `SendsNotOvertaken` in the state after the step (`TakesFirst`); `PromiseInv`
supplies that what is in `aq` has not been taken and what is posted is in the log.

### The query pool

`FdmiQueryPoolProofs`, from `PoolAssumption`: `PoolTypeCorrect` (`TypeOK`),
`QueryHasOneOwner` (`OneOwner`), `PostedRegistered` (`PostedIsRegistered`), and, for a
process with one connection, `OneConnectionKeepsCredits` (`CreditsKept`). With two or more
connections credits are lost (run `pool_credits`). The inductive invariant `PoolInv` gives
every query that has been allocated a location and an index there; lists without repetition
whose entries have that location (`NoRepeats`, `Entries`) make the location unique, and the
fields of a query fit its location and the program counter of the thread that holds it
(`Fields`, `Threads`).

### Connections

`FdmiConnectProofs`, from `ConnectAssumption` (sizes are positive, ranks that callers choose
are indices of `peers`, nobody calls himself) and `NoneIsNoId`:

| theorem | of | hypothesis |
|---|---|---|
| `NoCallerIsRejected` | `LockIsFree` | |
| `SourceLeadsBack` | `SourceNamesClient` | |
| `ConnectedUsable` | `ConnectedIsUsable` | `OneRole` |
| `LostNamed` | `DisconnectedNamesLost` | `OneRole` |
| `RankLeadsToHost` | `RankNamesHost` | `OneRole`, `OneHost` |
| `ConnectTypeCorrect` | `TypeOK` | `FewCalls` |

`OneRole`: no process both accepts and connects, since ranks a caller chooses and ranks
that are given out index the same `peers`. `OneHost`: the calls of a process with one rank
name one host, since a second call is answered by the first connection. `FewCalls`: a
process is called less often than `peers` has entries (entry 0 is never given out), since
`connected_rank` is used as an index unchecked. The model stops short of accepting a caller for whom `peers` has no entry,
so the first two results are about the callers that fit.

`LockIsFree` follows from `LocksInv`: a lock that is held belongs to a rank below
`connected_rank`. `SourceNamesClient` needs `SourceInv`, which adds `EventsInv`: every event
is in the channel of the owner of its id, only passive ids ask to connect, only active ones
resolve an address; and `RanksInv`: the rank in the table for a passive id is below
`connected_rank` and leads back to the id; a passive id that is stored, or has a receive
posted, is in the table. The next three results
share `UseInv`: whose ids `peers` may hold (`PeersInv`), what must have happened before an
event is pending (`CausesInv`), how far the loop that posts receives has come (`LoopInv`),
and that a call returns only on a connection that is up (`ReturnInv`); most of it is kept
because connections, ranks and receives are only ever added (`Grows`). `TypeOK` needs
`CallsInv`: a call has at most one of its three events pending and no rank until they have
been handled (`OnceInv`, `StageInv`), so that `connected_rank` is one more than the number of
calls that have a rank (`CountInv`).

### The linked list, the table of ranks, the registration cache

`FdmiTablesProofs`, from `QueueAssumption` (`NULL` is neither node nor
element) and `TablesAssumption` (elements are pairs of key and value, values are naturals,
there are finitely many threads):

* `ListStaysInOrder` (`ListInOrder`): the pointers of the list are in order whenever no
  insertion is in progress, and a walk with the mutex is never at a freed node. `ListInv`
  adds to `ListOK` and `WalkOK`: the types; `Ends`, that tail and length lag by one node
  while `fdmi_hashtable_add` is between its two steps, and `AddingInv`, that this node is
  the last; `RemoveInv`, that a removal in progress is at entry `k` and the element a walk
  removes is before the iterator, so that the removal never meets the node the iterator is
  at; `UseInv`, that only the callers of one use are active.
* `LookupsFind` (`GetFinds`): `TableInv` says that a key that was added is in the list, and
  that a lookup nobody disturbs has it at the iterator or still to come (`LookupInv`).
* `CacheIsRight` (`MrCacheOK`): `CacheInv` says that what a call returns covers its buffer,
  that each entry was inserted by a call that missed, so that copies of a region and calls
  about to insert one are together no more than the threads (`CountInv`), and that
  `reg_mr_cached_size` is the sum over the list (`SumInv`, by the least prefix at which the
  sums would differ).
* `QueueActsAsList` (`ActsAsList`): every step of the linked list is a step of `ListQueue`
  or a stutter; `SearchInv` adds to `ListInv` that a removal in progress has passed over
  nothing it looks for.

### Remote files

`IbioFileProofs`, from `IbioAssumption` (a chunk is not empty, counts are not 0 and fit into
the cache, there are finitely many clients and `None` is none of them). The theorems hold for
any number of clients, calls and reader threads per request and any sizes of chunk and cache:

* `TypeCorrect` (`TypeOK`): the counters of `open_info` stay within the cache whatever calls
  are made, and as long as nobody closes, no thread writes out what was not received;
* `AckStored` (`AckMeansStored`): when a write has returned, the file is what its client has
  written, in order;
* `ReadSequential`: clients that only read, whole chunks, get their file in order
  (`ReadIsSequential`). `ReadOnly` says *whole chunks* because `ibvio_sread` reads whole chunks
  into the cache and sends only what was asked for: the next read would go on behind a gap.

The inductive invariant is `TypeInv /\ (Plain => CallInv /\ CountInv) /\ (WriteOnly =>
StoreInv) /\ (ReadOnly => FetchInv)`. `TypeInv` contains `OpenInv`, by which every client
that has a descriptor has one of its own, so that there is a free one for each client that
opens. `CallInv` says of a write that its messages in `aq` are its header, if the server has
not taken it, and the chunks from `current_recv_size` to what was sent, each once; the server
takes the first of them, and `Sooner` orders them by their bytes. `CountInv` ties the chunk
threads, which are interchangeable, to the counters: those that have not run are as many as
the chunks between `current_write_count` and `current_recv_size` (`Upto` gives the ends of
chunks, of which the last may be short). `StoreInv` then says that the file is the bytes up
to `current_write_count` and the cache those up to `current_recv_size`; `FetchInv` that the
position of the file is what the server has sent, and that the replies under way carry what
follows the bytes the client has.

### Decompression

`PgzInflateProofs`, from `InflateAssumption` (buffers are not empty; at most one member of a
file is cut or damaged, the last one, and not both; what is cut is part of that member; bad
data is in a member that has data). For every file and every size of the buffers:

* `InputSequential` (`InputInOrder`): what is parsed is the file in order, and the end is seen
  only there;
* `OutputRight` (`OutputIsData`): what is written is at any time a beginning of the data of
  the members, and at the end all of it, with the junk behind it if that was asked for;
* `DamageFound` (`DamageIsFound`): the program ends with an error exactly when a member is
  damaged or cut in its data or its trailer.

For the first, `Inv` relates three places in the file: what was consumed, the end of the
buffer that is being parsed (`Taking`), and `fd`, which is ahead of it by the buffer that the
read thread fills or has filled (`Loading`), the other one (`OtherBuffer`).

For the others `ParseInv` says where in the file the main thread is: in the header of member
`i`, in its data after unit `d`, at its end with the output threads at work (`InFlush`) or
ending (`InJoin`), in its trailer, or in `cat`, each with the number of symbols consumed
before it. In the data, `Piped` says that what was written, the copy if it is still to be
written, and the window together are the data up to that unit, and the same for the check
value, with its own thread: the two threads may each be ahead of the other. That the copy is
filled again only when both are done keeps both sums. At the end `Ended` has the two results
themselves.

The symbols of a file are a concatenation over its members (`FlattenSeq`), and so are the
data. What such a concatenation has at a given place is proved by the least number of members
for which it would be wrong (`LeastPlace`, from the least-number principle for a particular
set), since induction with an operator as a parameter is not available.

### Only model-checked

All liveness properties (fairness is out of the prover's reach): `CompatibleGetMatched`,
`MatchedRecvCompletes`, `SendCompletes`, `RecvsComplete`, `ConnectReturns`, `CallerIsHeard`,
`CallsReturn`, `CallReturns` and `Ends`. And the four invariants of `PgzCompress`:
`StreamIsInput` and `HitsEndBlocks` need what the folds, sorted sequences and filters in them
(`FoldLeft`, `SetToSortSeq`, `SelectSeq`) yield for every input, and `UseCountsHolders`, from
which most of `AssertsHold` follows, counts holders in sums of cardinalities over all threads
and jobs, which each of some thirty actions changes.

## 5. Known limits

Not modelled are the components marked so in `PROJECT.json`, with reasons there. Besides,
these behaviours are in the modules as the code has them, and no property is claimed
where they strike: after a disconnection pending requests stay pending, and no message
with `FDMI_ABORT` is discarded since `op | FDMI_FORCE` is never 0; a
process that accepts and connects may give one rank to two peers, and a server gives out
ranks from 1, so that `fdmi_size` callers do not fit into `peers`; a file server that
reads and writes one descriptor may stop, since a surplus reader waits with `fastmutex`
locked, a close disturbs the next descriptor, and `dwrite` writes from an uninitialised
offset; `fdmi_create_qp` stores `domain->dctx` (`fdmi.c:619`) before it fills it in, so that
`fdmi_wait_ready` may go on with a `query_qp` that was never written; a connect after a
`DISCONNECTED` event of its rank returns the lost connection at once; a read of part of a
chunk makes the next one skip the rest; `irecv` and the eager handler set the flag that releases `wait` before they write
the status, and `irecv` copies it from a query it has freed, so that `StatusNamesSender` of
`FdmiQueryPool` does not hold; two lookups in one bucket of the table of ranks may miss a
key that is there; `get_header` returns -1, "immediate EOF", also for a file that ends
inside the fixed part of a header, where its comment promises -3, so that such a file is
skipped without a message. The runs keep to the traffic for which the properties are meant:
in `ibio_calls` no client reads and writes one file, and `AckMeansStored` is about plans
without close and dwrite; `connect_*` with processes in one role and
`fdmi_size` one larger than the number of callers.

Two hazards of the compression code lie outside its modules. `pcompress` allocates as many
bytes for the stream as the input has (`pgz.c:3892`), and `writen2` copies into them without
a check (`pgz.c:388-392`): header, trailer or data that does not shrink can run past the end.
Lengths of compressed data are not modelled, `out` in `PgzCompress` has no bound, and
`StreamIsInput` says what the stream is, not that it fits. `in_init` forgets a read thread that
is still at work when a file was not read to its end; a run decompresses one file.

The modules take these things as simpler than they are. `fdmi_queue_iterate` tests `q->ite`
and then follows it (`fdmi_queue.c:163-168`); `GetNext` does both in one step, so that the
NULL pointer a lookup follows when another one has moved `ite` in between is not in the
model (lookups that another disturbs are exempt from `GetFinds` either way). `write(2)` is
taken to write all it is given; the server ignores a short write
(`ibio_server.c:204-209`), and then an acknowledged write would not be in the file. A gzip
header with reserved flags or another method than deflate, for which `get_header` returns -4
or that method (`pgz.c:2088-2093`), is in no file of `PgzInflate`.

Not modelled in `pgz.c`: `single_compress` (sequential), `unlzw` (a decoder without
concurrency), the zip and zlib containers, listing, file names and options, and the bits of
deflate, which zlib produces. The rank maps of `fdmi_proc_man.c` are the identity in this
build and their elections have no callers.

## 6. Plan

Done, in this order: `FdmiMessaging` with `MessageTransfer` and the first proofs;
`FdmiQueryPool`; `FdmiConnect` and its proofs; `IbioFile`; `Yarn`, `PgzPool`, `PgzCompress`;
`PgzInflate`; `FdmiQueue`, `ListQueue`, `FdmiTables` and their proofs; the proofs about
`FdmiQueryPool`, the rest of `FdmiConnect` and `FdmiTables`, order and delivery in
`FdmiMessaging` and the refinement of `MessageTransfer`; the proofs about `IbioFile` and
`PgzInflate`.

Worth proving next is `UseCountsHolders` of `PgzCompress`, with a function from holders to
spaces in place of the sums of `Holders`, and then what it gives for `AssertsHold`. It needs
first that a job is at one place: in one of the two lists, once, or with one thread.

Worth modelling after that: `IbioFile` with several servers, failed opens and several files
per client; the rank maps, should a caller of the elections appear; `single_compress`.
