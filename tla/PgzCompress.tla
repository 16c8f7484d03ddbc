---------------------------- MODULE PgzCompress ----------------------------
(***************************************************************************)
(* Parallel compression in examples/pgz.c (parallel_compress and its        *)
(* on-memory copy parallel_compress2, called by pcompress), and the caller  *)
(* in examples/ibio_server.c that hands the result to a dump thread.        *)
(*                                                                         *)
(* The calling thread cuts the input into jobs, compress threads compress   *)
(* them and compute their check values, and one write thread per call       *)
(* collects the results in order.  Buffers come from the pools of PgzPool,  *)
(* threads from Yarn.                                                       *)
(*                                                                         *)
(* Data: a unit of input is <<call, position>>; a compressed block is the   *)
(* record of what was compressed, with which dictionary; a check value is   *)
(* the data it was computed over, so that crc32_comb is concatenation.      *)
(* Under opts.rsync the rolling hash hits after the units at opts.hits.     *)
(***************************************************************************)
EXTENDS PgzPool, Yarn, FiniteSetsExt

CONSTANTS
  CThreads,     \* names for the compress threads
  Size,         \* units in an input buffer
  Dict,         \* units in a full dictionary (DICT)
  Options       \* records [rsync, setdict, procs, inbufs, hits, inputs]: options of the
                \* program and INBUFS; where the hash hits, and the lengths of the
                \* inputs of the calls that are made (a bound)
\* INBUFS(procs) is 2 * procs + 3.  Less suffices: curr and next, under rsync also
\* hold, with the calling thread, and a dictionary with a job.
ASSUME PgzAssumption ==
  /\ Threads = {"main", "write"} \cup CThreads
  /\ Pools = {"in", "out", "dict", "lens"}
  /\ \A o \in Options : /\ o.procs \in 1..Cardinality(CThreads)
                         /\ o.inbufs >= (IF o.rsync THEN 4 ELSE 3)
  /\ Dict \in Nat \ {0} /\ Size \in Nat /\ Size >= Dict   \* option -b refuses less

VARIABLES
  opts,         \* the options in force
  text,         \* the input of the current call
  calls,        \* calls made so far
  ready,        \* compress_have # NULL: the job lists are set up
  m,            \* the calling thread: its location and the locals of the loop
  job,          \* the jobs not freed, by sequence number
  compressList, \* compress_head: sequence numbers, -1 for the job that ends threads
  compressHave, \* value of compress_have
  writeList,    \* write_head
  writeFirst,   \* value of write_first
  cthreads,     \* compress threads running
  caught,       \* threads joined by join_all
  c,            \* the compress threads
  w,            \* the write thread
  out,          \* what was written to gckptbuf_c
  dump,         \* what the dump thread is writing, dump_mutex held
  files         \* what the dump threads have written, one entry per call

lists == <<compressList, compressHave, writeList, writeFirst>>
vars == <<opts, text, calls, ready, m, job, lists, cthreads, caught, c, w, out,
          dump, files, poolVars, yarnVars>>

Header == [kind |-> "header"]
Junk == <<0, 0>>                      \* what memory outside of a buffer holds

Buf(s) == space[s].buf

\* the last n units of s; reading before its start gives junk
LastUnits(s, n) ==
  IF n <= Len(s) THEN SubSeq(s, Len(s) - n + 1, Len(s))
  ELSE [i \in 1..(n - Len(s)) |-> Junk] \o s

\* readn2: the next units of the input, at most a buffer full
Readn2(offset) == SubSeq(text, offset + 1, Min({offset + Size, Len(text)}))

MainIdle == [pc |-> "idle", offset |-> 0, seq |-> 0, curr |-> None, next |-> None,
             hold |-> None, dict |-> None, old |-> None, lens |-> None,
             scan |-> 0, left |-> 0]
WriteIdle == [pc |-> "off", seq |-> 0, len |-> 0, more |-> TRUE, ulen |-> 0, check |-> <<>>]
CompressIdle == [pc |-> "off", seq |-> 0, check |-> <<>>]

Init ==
  /\ opts \in Options
  /\ text = <<>> /\ calls = 0 /\ ready = FALSE
  /\ m = MainIdle /\ w = WriteIdle /\ c = [t \in CThreads |-> CompressIdle]
  /\ job = <<>>
  /\ compressList = <<>> /\ compressHave = 0 /\ writeList = <<>> /\ writeFirst = -1
  /\ cthreads = 0 /\ caught = 0
  /\ out = <<>> /\ dump = None /\ files = <<>>
  /\ PoolInit /\ YarnInit

-----------------------------------------------------------------------------
(* The calling thread *)

At(pc) == m.pc = pc /\ call["main"] = Idle

mainRest == <<opts, text, calls, ready, job, lists, cthreads, caught, c, w, out,
              dump, files, yarnVars>>

\* setup_jobs: lists and pools, unless a call before has set them up
SetupJobs ==
  /\ ready' = TRUE
  /\ IF ready THEN UNCHANGED <<lists, pool>>
     ELSE /\ compressList' = <<>> /\ compressHave' = 0
          /\ writeList' = <<>> /\ writeFirst' = -1
          /\ pool' = [p \in Pools |-> NewPool(IF p = "in" THEN opts.inbufs ELSE -1)]

\* the input of call i
InputOf(i) == [k \in 1..opts.inputs[i] |-> <<i, k>>]

\* pcompress and parallel_compress2 up to the loop: the output buffer of the call, the
\* job lists, the write thread
CallPcompress ==
  /\ At("idle") /\ calls < Len(opts.inputs)
  /\ calls' = calls + 1
  /\ text' = InputOf(calls + 1)
  /\ out' = <<>>
  /\ SetupJobs
  /\ Launch("write") /\ w' = [WriteIdle EXCEPT !.pc = "head"]
  /\ m' = [MainIdle EXCEPT !.pc = "get"]
  /\ UNCHANGED <<opts, job, cthreads, caught, c, dump, files, space, call, got>>

GetFirst ==
  /\ At("get") /\ GetSpace("main", "in")
  /\ m' = [m EXCEPT !.pc = "first"] /\ UNCHANGED mainRest

\* where the loop goes on once curr and next are there
Scanned(curr) == IF opts.rsync /\ Buf(curr) # <<>> THEN "rsync" ELSE "job"

\* the space got becomes next and is filled from the input
ReadInto(pc) ==
  /\ m' = [m EXCEPT !.pc = pc, !.next = got["main"],
                    !.offset = @ + Len(Readn2(m.offset))]
  /\ space' = [space EXCEPT ![got["main"]].buf = Readn2(m.offset)]
  /\ UNCHANGED <<pool, call, got, mainRest>>

FirstRead == At("first") /\ ReadInto("loop")

NextRead == At("read") /\ ReadInto(Scanned(m.curr))

\* top of the loop: what was next is compressed now
Advance ==
  /\ At("loop")
  /\ m' = [m EXCEPT !.curr = m.next, !.next = m.hold, !.hold = None, !.lens = None,
                    !.pc = IF m.hold = None THEN "read" ELSE Scanned(m.next)]
  /\ IF m.hold = None THEN GetSpace("main", "in") ELSE UNCHANGED poolVars
  /\ UNCHANGED mainRest

\* with the rsync option append_len needs a buffer for the block lengths
GetLens ==
  /\ At("rsync") /\ GetSpace("main", "lens")
  /\ m' = [m EXCEPT !.pc = "split"]
  /\ UNCHANGED mainRest

\* places in buf, after position from and up to position to, where the hash hits
HitsIn(buf, from, to) == {i \in (from + 1)..to : buf[i][2] \in opts.hits}

\* faulty variant: the units of curr since its last hit are not counted
BlockLensNoLeft(places, extra) ==
  LET ends == SetToSortSeq(places, <)
  IN  [k \in DOMAIN ends |-> IF k = 1 THEN ends[1] ELSE ends[k] - ends[k - 1]]

\* lengths of the blocks that end at these places, the first one longer by extra
BlockLens(places, extra) ==
  LET ends == SetToSortSeq(places, <)
  IN  [k \in DOMAIN ends |-> IF k = 1 THEN ends[1] + extra ELSE ends[k] - ends[k - 1]]

\* scan curr and then next for hash hits, and move the end of curr to a hit: take
\* units over from next, give units back through hold, or leave curr as it is
Split ==
  LET curr == Buf(m.curr)
      next == Buf(m.next)
      fresh == m.left = 0             \* the scan is in curr
      hitsC == IF fresh THEN HitsIn(curr, m.scan, Len(curr)) ELSE {}
      leftC == IF fresh THEN Len(curr) - Max(hitsC \cup {0}) ELSE m.left
      scanN == IF fresh THEN 0 ELSE m.scan
      end == Min({Size - Len(curr), Len(next)})
      hitsN == HitsIn(next, scanN, end)
      scan == Max({scanN, end})
      left == IF hitsN = {} THEN leftC ELSE 0
      lens == BlockLens(hitsC, 0) \o BlockLens(hitsN, leftC)
      take == IF lens = <<>> THEN scan ELSE Max(hitsN \cup {0})
      after == [m EXCEPT !.lens = got["main"], !.scan = scan, !.left = left]
  IN  /\ At("split")
      /\ \/ /\ take > 0
            /\ m' = [after EXCEPT !.pc = "job", !.scan = scan - take, !.left = 0]
            /\ space' = [space EXCEPT ![got["main"]].buf = lens,
                           ![m.curr].buf = curr \o SubSeq(next, 1, take),
                           ![m.next].buf = SubSeq(next, take + 1, Len(next))]
            /\ UNCHANGED <<pool, call, got>>
         \/ /\ take = 0 /\ lens # <<>> /\ left # 0 /\ next # <<>>
            /\ m' = [after EXCEPT !.pc = "hold"]
            /\ space' = [space EXCEPT ![got["main"]].buf = lens]
            /\ UNCHANGED <<pool, call, got>>
         \/ /\ take = 0 /\ (lens = <<>> \/ left = 0 \/ next = <<>>)
            /\ m' = [after EXCEPT !.pc = "job", !.left = 0]
            /\ space' = [space EXCEPT ![got["main"]].buf = lens]
            /\ UNCHANGED <<pool, call, got>>
      /\ UNCHANGED mainRest

GetHold ==
  /\ At("hold") /\ GetSpace("main", "in")
  /\ m' = [m EXCEPT !.pc = "held"] /\ UNCHANGED mainRest

\* next moves to hold, the end of curr to a new next
Hold ==
  /\ At("held")
  /\ m' = [m EXCEPT !.pc = "job", !.hold = m.next, !.next = got["main"]]
  /\ LET n == Len(Buf(m.curr)) - m.left
     IN  space' = [space EXCEPT ![got["main"]].buf = LastUnits(Buf(m.curr), m.left),
                                ![m.curr].buf = SubSeq(Buf(m.curr), 1, n)]
  /\ UNCHANGED <<pool, call, got, mainRest>>

More == Buf(m.next) # <<>>

\* the dictionary of this job is the one prepared before; prepare that of the next:
\* curr itself with one more user, or the ends of both in a buffer of its own
PrepareDict ==
  /\ At("job")
  /\ \/ /\ ~More \/ ~opts.setdict
        /\ m' = [m EXCEPT !.pc = "launch", !.old = m.dict]
        /\ UNCHANGED poolVars
     \/ /\ More /\ opts.setdict
        /\ Len(Buf(m.curr)) >= Dict \/ m.dict = None
        /\ m' = [m EXCEPT !.pc = "launch", !.old = m.dict, !.dict = m.curr]
        /\ UseSpace("main", m.curr)
     \/ /\ More /\ opts.setdict
        /\ Len(Buf(m.curr)) < Dict /\ m.dict # None
        /\ m' = [m EXCEPT !.pc = "dict", !.old = m.dict]
        /\ GetSpace("main", "dict")
  /\ UNCHANGED mainRest

CopyDict ==
  /\ At("dict")
  /\ m' = [m EXCEPT !.pc = "launch", !.dict = got["main"]]
  /\ space' = [space EXCEPT ![got["main"]].buf =
                 LastUnits(Buf(m.old), Dict - Len(Buf(m.curr))) \o Buf(m.curr)]
  /\ UNCHANGED <<pool, call, got, mainRest>>

\* one more compress thread while there are fewer than jobs and than procs
LaunchCompress ==
  /\ At("launch")
  /\ m' = [m EXCEPT !.pc = "put", !.seq = @ + 1]
  /\ IF cthreads < m.seq + 1 /\ cthreads < opts.procs
     THEN LET t == CHOOSE x \in CThreads : c[x].pc = "off"
          IN  /\ Launch(t) /\ cthreads' = cthreads + 1
              /\ c' = [c EXCEPT ![t].pc = "get"]
     ELSE UNCHANGED <<yarnVars, cthreads, c>>
  /\ UNCHANGED <<opts, text, calls, ready, job, lists, caught, w, out, dump, files,
                 poolVars>>

\* the job goes to the end of the compress list
PutJob ==
  /\ At("put")
  /\ job' = [k \in DOMAIN job \cup {m.seq - 1} |->
               IF k = m.seq - 1
               THEN [in |-> m.curr, out |-> m.old, lens |-> m.lens, more |-> More,
                     window |-> <<>>, check |-> <<>>, calc |-> 0]
               ELSE job[k]]
  /\ compressList' = Append(compressList, m.seq - 1)
  /\ compressHave' = compressHave + 1
  /\ m' = [m EXCEPT !.pc = IF More THEN "loop" ELSE "last"]
  /\ UNCHANGED <<opts, text, calls, ready, writeList, writeFirst, cthreads, caught, c,
                 w, out, dump, files, poolVars, yarnVars>>

\* faulty variant: the last, empty buffer is forgotten
ForgetNext ==
  /\ At("last") /\ UNCHANGED poolVars
  /\ m' = [MainIdle EXCEPT !.pc = "join"] /\ UNCHANGED mainRest

\* after the loop: next, which is empty, goes back to its pool
DropNext ==
  /\ At("last") /\ DropSpace("main", m.next)
  /\ m' = [MainIdle EXCEPT !.pc = "join"] /\ UNCHANGED mainRest

JoinWriter ==
  /\ At("join") /\ Join("write")
  /\ m' = [m EXCEPT !.pc = "returned"] /\ w' = WriteIdle
  /\ UNCHANGED <<opts, text, calls, ready, job, lists, cthreads, caught, c, out, dump,
                 files, poolVars>>

\* compress_write after pcompress: takes dump_mutex, which the last dump releases,
\* and starts a dump thread
CompressWrite ==
  /\ At("returned") /\ dump = None
  /\ dump' = out /\ m' = MainIdle
  /\ UNCHANGED <<opts, text, calls, ready, job, lists, cthreads, caught, c, w, out,
                 files, poolVars, yarnVars>>

\* dump_ckpt: writes its buffer, frees it and unlocks dump_mutex
DumpCkpt ==
  /\ dump # None
  /\ files' = Append(files, dump) /\ dump' = None
  /\ UNCHANGED <<opts, text, calls, ready, m, job, lists, cthreads, caught, c, w, out,
                 poolVars, yarnVars>>

\* finish_jobs, called when options change: a job with seq -1 for every thread ...
FinishJobs ==
  /\ At("idle") /\ ready
  /\ compressList' = <<-1>> /\ compressHave' = compressHave + 1
  /\ caught' = 0
  /\ m' = [m EXCEPT !.pc = "finish"]
  /\ UNCHANGED <<opts, text, calls, ready, job, writeList, writeFirst, cthreads, c, w,
                 out, dump, files, poolVars, yarnVars>>

JoinAll ==
  /\ At("finish") /\ JoinNext
  /\ caught' = caught + 1
  /\ UNCHANGED <<opts, text, calls, ready, m, job, lists, cthreads, c, w, out, dump,
                 files, poolVars>>

\* ... and when all are joined, the pools and the lists are freed
FinishEnds ==
  /\ At("finish") /\ threads = <<>>
  /\ FreePools
  /\ cthreads' = 0 /\ ready' = FALSE
  /\ c' = [t \in CThreads |-> CompressIdle]
  /\ m' = MainIdle
  /\ UNCHANGED <<opts, text, calls, job, lists, caught, w, out, dump, files, yarnVars>>

MainStep ==
  \/ GetFirst \/ FirstRead \/ NextRead \/ Advance \/ GetLens \/ Split \/ GetHold \/ Hold
  \/ PrepareDict \/ CopyDict \/ LaunchCompress \/ PutJob \/ DropNext \/ JoinWriter
  \/ CompressWrite \/ JoinAll \/ FinishEnds

-----------------------------------------------------------------------------
(* Compress threads *)

CAt(t, pc) == c[t].pc = pc /\ call[t] = Idle

CMove(t, pc) == c' = [c EXCEPT ![t].pc = pc]

compressRest == <<opts, text, calls, ready, m, cthreads, caught, w, out, dump, files,
                  yarnVars>>

Job(t) == job[c[t].seq]

\* the next job of the list; the job with seq -1 stays there for the others
GetJob(t) ==
  /\ CAt(t, "get") /\ compressHave # 0
  /\ IF Head(compressList) = -1
     THEN CMove(t, "end") /\ UNCHANGED <<compressList, compressHave>>
     ELSE /\ c' = [c EXCEPT ![t].seq = Head(compressList), ![t].pc =
                         IF job[Head(compressList)].out = None THEN "room" ELSE "window"]
          /\ compressList' = Tail(compressList) /\ compressHave' = compressHave - 1
  /\ UNCHANGED <<compressRest, job, writeList, writeFirst, poolVars>>

\* set the dictionary if there is one, and drop its buffer
SetDictionary(t) ==
  /\ CAt(t, "window") /\ CMove(t, "room")
  /\ job' = [job EXCEPT ![c[t].seq].window =
               LastUnits(Buf(Job(t).out), Min({Len(Buf(Job(t).out)), Dict}))]
  /\ DropSpace(t, Job(t).out)
  /\ UNCHANGED <<compressRest, lists>>

GetRoom(t) ==
  /\ CAt(t, "room") /\ GetSpace(t, "out") /\ CMove(t, "deflate")
  /\ UNCHANGED <<compressRest, job, lists>>

\* block lengths as compress_thread decodes them: those in the list, then the rest
Blocks(lens, len) ==
  LET sum == FoldLeft(+, 0, lens)
  IN  IF sum = len /\ lens # <<>> THEN lens ELSE Append(lens, len - sum)

\* compress the input block by block; finish the stream in the last one
Deflate(t) ==
  LET j == Job(t)
      data == Buf(j.in)
      lens == IF j.lens = None THEN <<>> ELSE Buf(j.lens)
  IN  /\ CAt(t, "deflate")
      /\ space' = [space EXCEPT ![got[t]].buf =
                     <<[kind |-> "data", data |-> data, window |-> j.window,
                        blocks |-> Blocks(lens, Len(data)), finish |-> ~j.more]>>]
      /\ job' = [job EXCEPT ![c[t].seq].out = got[t]]
      /\ CMove(t, IF j.lens = None THEN "reserve" ELSE "lens")
      /\ UNCHANGED <<pool, call, got, compressRest, lists>>

\* faulty variant: the pointer is cleared, the space is not dropped
ForgetLens(t) ==
  /\ CAt(t, "lens") /\ CMove(t, "reserve") /\ UNCHANGED poolVars
  /\ job' = [job EXCEPT ![c[t].seq].lens = None]
  /\ UNCHANGED <<compressRest, lists>>

DropLens(t) ==
  /\ CAt(t, "lens") /\ CMove(t, "reserve") /\ DropSpace(t, Job(t).lens)
  /\ job' = [job EXCEPT ![c[t].seq].lens = None]
  /\ UNCHANGED <<compressRest, lists>>

\* faulty variant: the write thread's use of the input is the only one
ReserveNothing(t) ==
  /\ CAt(t, "reserve") /\ CMove(t, "insert")
  /\ UNCHANGED <<compressRest, job, lists, poolVars>>

\* the input is still needed for the check value
Reserve(t) ==
  /\ CAt(t, "reserve") /\ UseSpace(t, Job(t).in) /\ CMove(t, "insert")
  /\ UNCHANGED <<compressRest, job, lists>>

\* insert the job in the write list, in the order of sequence numbers
InsertWrite(t) ==
  LET before == SelectSeq(writeList, LAMBDA k : k <= c[t].seq)
      after == SelectSeq(writeList, LAMBDA k : k > c[t].seq)
  IN  /\ CAt(t, "insert") /\ CMove(t, "check")
      /\ writeList' = Append(before, c[t].seq) \o after
      /\ writeFirst' = Head(writeList')
      /\ UNCHANGED <<compressRest, job, compressList, compressHave, poolVars>>

\* the check value, computed while the job is being written
Check(t) ==
  /\ CAt(t, "check")
  /\ c' = [c EXCEPT ![t].pc = "calc", ![t].check = Buf(Job(t).in)]
  /\ DropSpace(t, Job(t).in)
  /\ UNCHANGED <<compressRest, job, lists>>

\* faulty variant: nobody is told that the check value is there
CalculatedSilently(t) ==
  /\ CAt(t, "calc")
  /\ job' = [job EXCEPT ![c[t].seq].check = c[t].check]
  /\ c' = [c EXCEPT ![t] = [CompressIdle EXCEPT !.pc = "get"]]
  /\ UNCHANGED <<compressRest, lists, poolVars>>

Calculated(t) ==
  /\ CAt(t, "calc")
  /\ job' = [job EXCEPT ![c[t].seq].check = c[t].check, ![c[t].seq].calc = 1]
  /\ c' = [c EXCEPT ![t] = [CompressIdle EXCEPT !.pc = "get"]]
  /\ UNCHANGED <<compressRest, lists, poolVars>>

CompressEnds(t) ==
  /\ CAt(t, "end") /\ Reenter(t) /\ CMove(t, "gone")
  /\ UNCHANGED <<opts, text, calls, ready, m, job, lists, cthreads, caught, w, out,
                 dump, files, poolVars>>

CompressStep(t) ==
  \/ GetJob(t) \/ SetDictionary(t) \/ GetRoom(t) \/ Deflate(t) \/ DropLens(t)
  \/ Reserve(t) \/ InsertWrite(t) \/ Check(t) \/ Calculated(t) \/ CompressEnds(t)

-----------------------------------------------------------------------------
(* The write thread *)

WAt(pc) == w.pc = pc /\ call["write"] = Idle

writeRest == <<opts, text, calls, ready, m, cthreads, caught, c, dump, files, yarnVars>>

PutHeader ==
  /\ WAt("head")
  /\ out' = Append(out, Header) /\ w' = [w EXCEPT !.pc = "take"]
  /\ UNCHANGED <<writeRest, job, lists, poolVars>>

\* the next job in sequence, once it is the first of the list
TakeWrite ==
  /\ WAt("take") /\ writeFirst = w.seq
  /\ writeList' = Tail(writeList)
  /\ writeFirst' = IF writeList' = <<>> THEN -1 ELSE Head(writeList')
  /\ w' = [w EXCEPT !.pc = "drop", !.more = job[w.seq].more]
  /\ UNCHANGED <<writeRest, job, compressList, compressHave, out, poolVars>>

DropInput ==
  /\ WAt("drop")
  /\ w' = [w EXCEPT !.pc = "write", !.len = Len(Buf(job[w.seq].in)),
                    !.ulen = @ + Len(Buf(job[w.seq].in))]
  /\ DropSpace("write", job[w.seq].in)
  /\ UNCHANGED <<writeRest, job, lists, out>>

\* writen2 appends to the buffer of the call
Write ==
  /\ WAt("write")
  /\ out' = out \o Buf(job[w.seq].out)
  /\ DropSpace("write", job[w.seq].out)
  /\ w' = [w EXCEPT !.pc = "comb"]
  /\ UNCHANGED <<writeRest, job, lists>>

\* wait for the check value, combine it and free the job
Combine ==
  /\ WAt("comb") /\ job[w.seq].calc = 1
  /\ w' = [w EXCEPT !.pc = IF w.more THEN "take" ELSE "tail", !.seq = @ + 1,
                    !.check = @ \o job[w.seq].check]
  /\ job' = [k \in DOMAIN job \ {w.seq} |-> job[k]]
  /\ UNCHANGED <<writeRest, lists, out, poolVars>>

PutTrailer ==
  /\ WAt("tail")
  /\ out' = Append(out, [kind |-> "trailer", check |-> w.check, ulen |-> w.ulen])
  /\ w' = [w EXCEPT !.pc = "verify"]
  /\ UNCHANGED <<writeRest, job, lists, poolVars>>

\* verify that no jobs are left, prepare the list for the next call
Verify ==
  /\ WAt("verify")
  /\ writeFirst' = -1 /\ w' = [w EXCEPT !.pc = "end"]
  /\ UNCHANGED <<writeRest, job, compressList, compressHave, writeList, out, poolVars>>

WriteEnds ==
  /\ WAt("end") /\ Reenter("write") /\ w' = [w EXCEPT !.pc = "gone"]
  /\ UNCHANGED <<opts, text, calls, ready, m, job, lists, cthreads, caught, c, out,
                 dump, files, poolVars>>

WriteStep ==
  \/ PutHeader \/ TakeWrite \/ DropInput \/ Write \/ Combine \/ PutTrailer \/ Verify
  \/ WriteEnds

-----------------------------------------------------------------------------
poolRest == <<opts, text, calls, ready, m, job, lists, cthreads, caught, c, w, out,
              dump, files>>

\* the rest of a pool operation, and the end of a system thread
ServiceStep(t) ==
  \/ PoolStep(t) /\ UNCHANGED <<poolRest, yarnVars>>
  \/ ThreadExit(t) /\ UNCHANGED <<poolRest, poolVars>>

Next ==
  \/ CallPcompress
  \/ FinishJobs
  \/ MainStep
  \/ \E t \in CThreads : CompressStep(t)
  \/ WriteStep
  \/ DumpCkpt
  \/ \E t \in Threads : ServiceStep(t)

Spec == Init /\ [][Next]_vars

\* A thread that can take a step takes one (the mutexes and conditions of the system
\* are not assumed to be fair); nobody has to call pcompress or finish_jobs.
FairSpec ==
  /\ Spec
  /\ WF_vars(MainStep) /\ WF_vars(WriteStep) /\ WF_vars(DumpCkpt)
  /\ \A t \in CThreads : WF_vars(CompressStep(t))
  /\ \A t \in Threads : WF_vars(ServiceStep(t))

-----------------------------------------------------------------------------
(* Properties *)

\* The variables have their types; use counts are never negative, as the assertion
\* in drop_space demands.
TypeOK ==
  /\ PoolTypeOK
  /\ opts \in Options /\ calls \in 0..Len(opts.inputs) /\ ready \in BOOLEAN
  /\ DOMAIN m = DOMAIN MainIdle /\ m.left >= 0 /\ m.scan >= 0
  /\ \A t \in CThreads : DOMAIN c[t] = DOMAIN CompressIdle
  /\ DOMAIN w = DOMAIN WriteIdle
  /\ \A s \in DOMAIN space : PoolOf(s) = "in" => Len(space[s].buf) <= Size
  /\ Range(compressList) \subseteq DOMAIN job \cup {-1}
  /\ Range(writeList) \subseteq DOMAIN job
  /\ cthreads \in 0..Cardinality(CThreads) /\ reentered \in Nat

\* The pieces of compressed data in a stream, and the input they stand for.
Pieces(stream) == SelectSeq(stream, LAMBDA e : e.kind = "data")
DataOf(pieces) == FlattenSeq([i \in DOMAIN pieces |-> pieces[i].data])

\* A decompressor can follow the stream: it starts with the header, each piece was
\* compressed with the dictionary that the data before it provides, only the last
\* one ends the deflate stream, and the data is the input in order.
Follows(stream, input) ==
  LET pieces == Pieces(stream)
  IN  /\ stream # <<>> => Head(stream) = Header
      /\ IsPrefix(DataOf(pieces), input)
      /\ \A i \in DOMAIN pieces :
           LET history == DataOf(SubSeq(pieces, 1, i - 1))
           IN  /\ pieces[i].window =
                    IF opts.setdict THEN LastUnits(history, Min({Len(history), Dict}))
                                    ELSE <<>>
               /\ pieces[i].finish => DataOf(SubSeq(pieces, 1, i)) = input

\* The stream ends with a trailer that has the check value and the length of the input.
Complete(stream, input) ==
  LET pieces == Pieces(stream)
  IN  /\ Follows(stream, input) /\ DataOf(pieces) = input
      /\ pieces # <<>> /\ Last(pieces).finish
      /\ Last(stream) = [kind |-> "trailer", check |-> input, ulen |-> Len(input)]

\* compress_thread and write_thread: whatever the threads do, what was written so far
\* can be followed, and a trailer comes only at the end of a complete stream.  Buffers
\* that are reused too early or results out of order break it.  compress_write and
\* dump_ckpt: the files are the complete streams of the calls in their order, although
\* the next call is compressing while one is being dumped.
StreamIsInput ==
  /\ Follows(out, text)
  /\ \A i \in DOMAIN out :
       out[i].kind = "trailer" => i = Len(out) /\ Complete(out, text)
  /\ m.pc = "returned" => Complete(out, text)
  /\ LET dumped == IF dump = None THEN files ELSE Append(files, dump)
     IN  /\ \A i \in DOMAIN dumped : Complete(dumped[i], InputOf(i))
         /\ m.pc = "idle" => Len(dumped) = calls

\* The rsync option: the hash is computed once over every unit, in order, and the
\* lengths that append_len stores are the ones compress_thread reads: each hit in what
\* was written ends a block, and where there are hits in a piece, its blocks end at
\* them or at the end of the input.
HitsEndBlocks ==
  LET pieces == Pieces(out)
      start(i) == Len(DataOf(SubSeq(pieces, 1, i - 1)))
      end(i) == start(i) + Len(pieces[i].data)
      blockEnds(i) == {start(i) + FoldLeft(+, 0, SubSeq(pieces[i].blocks, 1, k)) :
                         k \in DOMAIN pieces[i].blocks}
      hits(i) == opts.hits \cap (start(i) + 1)..end(i)
  IN  opts.rsync => \A i \in DOMAIN pieces :
                      /\ hits(i) \subseteq blockEnds(i)
                      /\ hits(i) # {} => blockEnds(i) \subseteq hits(i) \cup {Len(text)}

\* Who holds a pointer to space s that it will still use: locals of the calling
\* thread, jobs in the lists, the threads at work.
Holders(s) ==
  LET mine == {x \in {<<"curr", {"read", "rsync", "split", "hold", "held", "job", "dict",
                                 "launch", "put"}>>,
                      <<"next", {"loop", "rsync", "split", "hold", "held", "job", "dict",
                                 "launch", "put", "last"}>>,
                      <<"hold", {"loop", "job", "dict", "launch", "put"}>>,
                      <<"lens", {"hold", "held", "job", "dict", "launch", "put"}>>,
                      <<"old", {"dict", "launch", "put"}>>,
                      <<"dict", {"loop", "read", "rsync", "split", "hold", "held", "job"}
                                \cup IF At("launch") \/ At("put")
                                     THEN IF More THEN {"launch", "put"} ELSE {}
                                     ELSE {}>>} :
                 m.pc \in x[2] /\ m[x[1]] = s}
      fetched == {t \in Threads : /\ call[t] = Idle /\ got[t] = s
                                  /\ \/ t = "main" /\ m.pc \in {"first", "read", "split", "held", "dict"}
                                     \/ t \in CThreads /\ c[t].pc = "deflate"}
      ofJob(k, fields) == {<<k, f>> : f \in {x \in fields : job[k][x] = s}}
      waiting == UNION {ofJob(k, {"in", "out", "lens"}) : k \in Range(compressList) \ {-1}}
      written == UNION {ofJob(k, {"in", "out"}) : k \in Range(writeList)}
      atWork(t) ==
        CASE c[t].pc = "window" -> ofJob(c[t].seq, {"in", "out", "lens"})
          [] c[t].pc \in {"room", "deflate"} -> ofJob(c[t].seq, {"in", "lens"})
          [] c[t].pc \in {"lens", "reserve"} -> ofJob(c[t].seq, {"in", "out", "lens"})
          [] c[t].pc = "insert" -> ofJob(c[t].seq, {"in", "out"})
          [] OTHER -> {}
      checking == {t \in CThreads : c[t].pc \in {"insert", "check"} /\ Job(t).in = s}
      writing == IF w.pc = "drop" THEN ofJob(w.seq, {"in", "out"})
                 ELSE IF w.pc = "write" THEN ofJob(w.seq, {"out"}) ELSE {}
  IN  Cardinality(mine) + Cardinality(fetched) + Cardinality(waiting)
        + Cardinality(written) + Cardinality(UNION {atWork(t) : t \in CThreads})
        + Cardinality(checking) + Cardinality(writing)

\* get_space, use_space, drop_space: the use count of a space is the number of its
\* holders, plus the one that is just dropping it; a space in the list of its pool
\* has no holder.  So no buffer is reused while a thread still reads it, and none is
\* lost.
UseCountsHolders ==
  \A s \in DOMAIN space :
    /\ space[s].use = Holders(s) + (IF space[s].lock = None THEN 0 ELSE 1)
    /\ s \in Range(pool[PoolOf(s)].head) => Holders(s) = 0

\* The assertions of the code: a pool's lock counts the spaces in its list and a
\* space is made only within the limit; when the write thread ends, both job lists
\* are empty; finish_jobs joins the compress threads and nothing else, and finds
\* every space in its pool.
AssertsHold ==
  /\ TypeOK
  /\ \A p \in Pools : pool[p].have = Len(pool[p].head)
  /\ w.pc = "verify" => compressList = <<>> /\ compressHave = 0 /\ writeList = <<>>
  /\ m.pc = "finish" /\ threads = <<>> =>
       caught = cthreads /\ \A p \in Pools : Counted(p) = pool[p].made

\* pcompress and finish_jobs return: no thread waits for ever for a buffer, a job, a
\* check value or another thread.
CallReturns == (m.pc # "idle") ~> (m.pc = "idle")

=============================================================================
