----------------------------- MODULE PgzInflate -----------------------------
(***************************************************************************)
(* Decompression of a gzip file in examples/pgz.c: get_header, infchk, cat  *)
(* and the three helper threads.  load_read fills one of two input buffers  *)
(* while the other is consumed; outb hands a copy of the output window to   *)
(* outb_write and outb_check.  procs > 1, decode == 1, list == 0.           *)
(*                                                                         *)
(* The file is a sequence of symbols [k, v]: a member starts with two magic *)
(* symbols, the rest of the fixed header and the optional fields, then come *)
(* its data, the end of the deflate data, its check value and its length.   *)
(* v is what the symbol is worth as output or as a check value; a check     *)
(* value is the data it was computed over.  inflateBack is external: it     *)
(* takes symbols through inb and gives full windows to outb.                *)
(***************************************************************************)
EXTENDS Yarn, FiniteSetsExt

CONSTANTS
  BufSize,      \* symbols in an input buffer (BUF)
  OutSize,      \* units in the output window (OUTSIZE)
  Contents      \* records [members, fault, cut, junk] of the files that are read: the
                \* lengths of the members, what is wrong in the last one, how many
                \* symbols of it are missing, and the junk symbols that follow it

ASSUME InflateAssumption ==
  /\ BufSize \in Nat \ {0} /\ OutSize \in Nat \ {0}
  /\ \A ct \in Contents : /\ ct.members \in Seq(Nat) /\ ct.cut \in Nat /\ ct.junk \in Nat
                          /\ ct.fault \in {"none", "data", "check", "len"}
                          /\ ct.cut = 0 \/ (ct.junk = 0 /\ ct.fault = "none")
                          /\ ct.members = <<>> => ct.cut = 0 /\ ct.fault = "none"
                          /\ ct.members # <<>> => ct.cut <= 7 + Last(ct.members)
                          /\ ct.fault = "data" => Last(ct.members) > 0

VARIABLES
  content,      \* the file's contents, from Contents
  force,        \* options -c and -f: copy what is not compressed
  fd,           \* symbols of the file read so far
  buf,          \* buf[1]: in_buf, buf[0]: in_buf2
  in_len,       \* symbols that load_read put in its buffer
  in_which,     \* -1: no read thread, else the buffer that load_read fills
  load_state,   \* value of the lock: 1 to read a buffer, 0 to wait
  in,           \* what load gives its callers: [cur, next, left, short, eof]
  consumed,     \* symbols taken from the input so far (not in the code)
  m,            \* the main thread: its location, its call of load and its locals
  helper,       \* where the helper threads are: "off", "wait" or "end"
  out_buf,      \* the window of inflateBack
  out_copy,     \* the copy for the output threads; its length is out_len
  more,         \* values of outb_write_more and outb_check_more, -1 when freed
  out_check,    \* check value of the output of this member
  out_tot,      \* length of the output of this member
  output,       \* what was written
  result        \* "none", and at the end "ok", "warned", "skipped" or "bail"

loadVars == <<fd, buf, in_len, in_which, load_state>>
outVars == <<out_copy, more, out_check, output>>
vars == <<content, force, loadVars, in, consumed, m, helper, out_buf, outVars, out_tot,
          result, yarnVars>>

Sym(k, v) == [k |-> k, v |-> v]
Units(i, n) == [j \in 1..n |-> <<i, j>>]

\* the symbols of member i with n units of data
Member(i, n, fault) ==
  <<Sym("magic1", <<<<i, 0>>>>), Sym("magic2", <<>>), Sym("head", <<>>), Sym("name", <<>>)>>
  \o [j \in 1..n |-> Sym(IF fault = "data" THEN "bad" ELSE "data", <<<<i, j>>>>)]
  \o <<Sym("end", <<>>),
       Sym("check", IF fault = "check" THEN <<<<0, 0>>>> ELSE Units(i, n)),
       Sym("len", IF fault = "len" THEN <<n + 1>> ELSE <<n>>)>>
FileOf(ct) ==
  LET n == Len(ct.members)
      all == FlattenSeq([i \in 1..n |->
               Member(i, ct.members[i], IF i = n THEN ct.fault ELSE "none")])
  IN  SubSeq(all, 1, Len(all) - ct.cut)
      \o [j \in 1..ct.junk |-> Sym("junk", <<<<n + 1, j>>>>)]
file == FileOf(content)

HelperIds == {"read", "write", "check"}

InInit == [cur |-> 1, next |-> 1, left |-> 0, short |-> FALSE, eof |-> FALSE]

Init ==
  /\ content \in Contents /\ force \in BOOLEAN
  /\ fd = 0 /\ buf = [b \in {0, 1} |-> <<>>] /\ in_len = 0 /\ in_which = -1
  /\ load_state = 0 /\ in = InInit /\ consumed = 0
  /\ m = [pc |-> "magic1", load |-> "no", ret |-> 0, first |-> TRUE,
          magic1 |-> Sym("none", <<>>), check |-> <<>>]
  /\ helper = [t \in HelperIds |-> "off"]
  /\ out_buf = <<>> /\ out_copy = <<>> /\ more = [write |-> -1, check |-> -1]
  /\ out_check = <<>> /\ out_tot = 0 /\ output = <<>>
  /\ result = "none" /\ YarnInit

-----------------------------------------------------------------------------
(* Reading: load and the thread load_read *)

mainOut == <<content, force, consumed, out_buf, outVars, out_tot, result>>

\* the locations that get a symbol when one is there
Gets == {"magic1", "magic2", "head", "name", "inflate", "check", "len"}

\* load is called because the input is used up: start the read thread, the first time
LoadCall ==
  /\ result = "none"
  /\ \/ m.load = "call"
     \/ m.load = "no" /\ m.pc \in Gets /\ in.left = 0 /\ ~in.eof
  /\ \/ /\ in.short
        /\ in' = [in EXCEPT !.eof = TRUE, !.left = 0]
        /\ m' = [m EXCEPT !.load = "no"]
        /\ UNCHANGED <<loadVars, helper, yarnVars>>
     \/ /\ ~in.short /\ in_which = -1
        /\ in_which' = 1 /\ load_state' = 1
        /\ Launch("read") /\ helper' = [helper EXCEPT !["read"] = "wait"]
        /\ m' = [m EXCEPT !.load = "wait"]
        /\ UNCHANGED <<fd, buf, in_len, in>>
     \/ /\ ~in.short /\ in_which # -1
        /\ m' = [m EXCEPT !.load = "wait"]
        /\ UNCHANGED <<loadVars, in, helper, yarnVars>>
  /\ UNCHANGED mainOut

\* faulty variant: the read thread fills the buffer that is being consumed
LoadTakeSame ==
  /\ result = "none" /\ m.load = "wait" /\ load_state = 0
  /\ in' = [in EXCEPT !.cur = in_which, !.next = 1, !.left = in_len]
  /\ load_state' = IF in_len = BufSize THEN 1 ELSE 0
  /\ m' = [m EXCEPT !.load = IF in_len = BufSize THEN "no" ELSE "join"]
  /\ UNCHANGED <<fd, buf, in_len, in_which, helper, yarnVars, mainOut>>

\* the buffer that was asked for is there; ask for the other one unless this was short
LoadTake ==
  /\ result = "none" /\ m.load = "wait" /\ load_state = 0
  /\ in' = [in EXCEPT !.cur = in_which, !.next = 1, !.left = in_len]
  /\ \/ /\ in_len = BufSize
        /\ in_which' = 1 - in_which /\ load_state' = 1
        /\ m' = [m EXCEPT !.load = "no"]
     \/ /\ in_len < BufSize
        /\ m' = [m EXCEPT !.load = "join"]
        /\ UNCHANGED <<in_which, load_state>>
  /\ UNCHANGED <<fd, buf, in_len, helper, yarnVars, mainOut>>

\* the last buffer: the read thread is joined
LoadJoin ==
  /\ result = "none" /\ m.load = "join" /\ Join("read")
  /\ in_which' = -1
  /\ in' = [in EXCEPT !.short = TRUE, !.eof = (in.left = 0)]
  /\ m' = [m EXCEPT !.load = "no"]
  /\ UNCHANGED <<fd, buf, in_len, load_state, helper, mainOut>>

\* faulty variant: the thread ends after a full buffer too
LoadReadOnce ==
  LET got == SubSeq(file, fd + 1, Min({fd + BufSize, Len(file)}))
  IN  /\ result # "bail" /\ helper["read"] = "wait" /\ load_state = 1
      /\ buf' = [buf EXCEPT ![in_which] = got]
      /\ in_len' = Len(got) /\ fd' = fd + Len(got) /\ load_state' = 0
      /\ helper' = [helper EXCEPT !["read"] = "end"]
      /\ UNCHANGED <<in_which, in, m, yarnVars, mainOut>>

\* load_read: one turn of its loop; it goes on after a full buffer
LoadRead ==
  LET got == SubSeq(file, fd + 1, Min({fd + BufSize, Len(file)}))
  IN  /\ result # "bail" /\ helper["read"] = "wait" /\ load_state = 1
      /\ buf' = [buf EXCEPT ![in_which] = got]
      /\ in_len' = Len(got) /\ fd' = fd + Len(got) /\ load_state' = 0
      /\ helper' = [helper EXCEPT !["read"] = IF Len(got) = BufSize THEN "wait" ELSE "end"]
      /\ UNCHANGED <<in_which, in, m, yarnVars, mainOut>>

\* a helper thread's function returned
HelperEnds(t) ==
  /\ result # "bail" /\ helper[t] = "end" /\ Reenter(t)
  /\ helper' = [helper EXCEPT ![t] = "off"]
  /\ UNCHANGED <<loadVars, in, m, mainOut>>

-----------------------------------------------------------------------------
(* The main thread: headers *)

\* the main thread is at pc and a symbol or the end of the file is there
AtGet(pc) ==
  /\ result = "none" /\ m.pc = pc /\ m.load = "no"
  /\ in.left > 0 \/ in.eof

\* GET: the next symbol, taken from the input
Next1 == IF in.eof THEN Sym("eof", <<>>) ELSE buf[in.cur][in.next]
Get ==
  IF in.eof THEN UNCHANGED <<in, consumed>>
  ELSE /\ in' = [in EXCEPT !.next = @ + 1, !.left = @ - 1]
       /\ consumed' = consumed + 1

mainRest == <<content, force, loadVars, helper, yarnVars>>

\* get_header returned less than 0 to process (the first header) or to infchk: copy
\* the input as it is, skip the file, or ignore what follows the last member
NoHeader(ret) ==
  LET copy == ret = -2 /\ force
  IN  /\ m' = [m EXCEPT !.ret = ret, !.pc = IF copy THEN "cat" ELSE "done"]
      /\ result' = IF copy THEN "none"
                   ELSE IF m.first THEN "skipped"
                   ELSE IF ret = -1 THEN "ok" ELSE "warned"

GetMagic1 ==
  /\ AtGet("magic1") /\ Get
  /\ IF in.eof THEN NoHeader(-1)
     ELSE m' = [m EXCEPT !.pc = "magic2", !.magic1 = Next1] /\ UNCHANGED result
  /\ UNCHANGED <<mainRest, out_buf, outVars, out_tot>>

\* not a gzip header: the second symbol stays in the input
GetMagic2 ==
  /\ AtGet("magic2")
  /\ IF m.magic1.k = "magic1" /\ Next1.k = "magic2"
     THEN Get /\ m' = [m EXCEPT !.pc = "head"] /\ UNCHANGED result
     ELSE NoHeader(-2) /\ UNCHANGED <<in, consumed>>
  /\ UNCHANGED <<mainRest, out_buf, outVars, out_tot>>

\* method and flags; files with reserved flags or another method than deflate, for which
\* get_header returns -4 or that method, are left out
GetHead ==
  /\ AtGet("head") /\ Get
  /\ IF in.eof THEN NoHeader(-1)
     ELSE m' = [m EXCEPT !.pc = "name"] /\ UNCHANGED result
  /\ UNCHANGED <<mainRest, out_buf, outVars, out_tot>>

\* the optional fields; then infchk sets up for this member
GetName ==
  /\ AtGet("name") /\ Get
  /\ IF in.eof THEN NoHeader(-3) /\ UNCHANGED <<out_tot, out_check>>
     ELSE /\ m' = [m EXCEPT !.pc = "inflate", !.ret = 8] /\ out_tot' = 0 /\ out_check' = <<>>
          /\ UNCHANGED result
  /\ UNCHANGED <<mainRest, out_buf, out_copy, more, output>>

\* cat: the first magic symbol, which was taken, and then what is left
Cat ==
  /\ result = "none" /\ m.pc = "cat"
  /\ output' = output \o m.magic1.v /\ out_tot' = 1
  /\ m' = [m EXCEPT !.pc = "copy"]
  /\ UNCHANGED <<mainRest, in, consumed, out_buf, out_copy, more, out_check, result>>

CatRest ==
  /\ result = "none" /\ m.pc = "copy" /\ m.load = "no"
  /\ \/ /\ in.left = 0
        /\ m' = [m EXCEPT !.pc = "done"] /\ result' = "ok"
        /\ UNCHANGED <<in, consumed, output, out_tot>>
     \/ /\ in.left > 0
        /\ output' = output \o FlattenSeq([i \in 1..in.left |-> buf[in.cur][in.next + i - 1].v])
        /\ out_tot' = out_tot + in.left /\ consumed' = consumed + in.left
        /\ in' = [in EXCEPT !.left = 0]
        /\ m' = [m EXCEPT !.load = "call"]
        /\ UNCHANGED result
  /\ UNCHANGED <<mainRest, out_buf, out_copy, more, out_check>>

-----------------------------------------------------------------------------
(* The main thread: infchk *)

Bail == result' = "bail" /\ m' = [m EXCEPT !.pc = "done"]

WindowFull == Len(out_buf) = OutSize

\* inflateBack: a symbol goes to the window; a full window, or what is in it at the
\* end of the data, goes to outb
Inflate ==
  /\ AtGet("inflate")
  /\ \/ /\ Next1.k = "data" /\ ~WindowFull
        /\ Get /\ out_buf' = out_buf \o Next1.v /\ UNCHANGED <<m, result>>
     \/ /\ Next1.k = "data" /\ WindowFull
        /\ m' = [m EXCEPT !.pc = "outb"] /\ UNCHANGED <<in, consumed, out_buf, result>>
     \/ /\ Next1.k = "end"
        /\ Get /\ m' = [m EXCEPT !.pc = IF out_buf = <<>> THEN "finish" ELSE "flush"]
        /\ UNCHANGED <<out_buf, result>>
     \/ /\ Next1.k \notin {"data", "end"}
        /\ Bail /\ UNCHANGED <<in, consumed, out_buf>>
  /\ UNCHANGED <<mainRest, outVars, out_tot>>

OutThreads == {"write", "check"}

\* outb the first time for this member: new locks, and the two threads one by one
OutbLaunch(t) ==
  /\ result = "none" /\ m.pc \in {"outb", "flush", "finish"} /\ t \notin Ids
  /\ IF t = "write" THEN more' = [write |-> 0, check |-> 0]
     ELSE "write" \in Ids /\ UNCHANGED more
  /\ Launch(t) /\ helper' = [helper EXCEPT ![t] = "wait"]
  /\ UNCHANGED <<content, force, loadVars, in, consumed, m, out_buf, out_copy, out_check,
                 output, out_tot, result>>

\* faulty variant: outb waits for the check thread only
OutbIdleChecked == OutThreads \subseteq Ids /\ more.check = 0

\* faulty variant: outb waits for the write thread only
OutbIdleWritten == OutThreads \subseteq Ids /\ more.write = 0

\* outb: the write and the check of the copy before are done
OutbIdle == OutThreads \subseteq Ids /\ \A t \in OutThreads : more[t] = 0

\* outb: copy the window and alert both threads; with length 0 they end
Outb ==
  /\ result = "none" /\ m.pc \in {"outb", "flush", "finish"} /\ OutbIdle
  /\ out_copy' = out_buf /\ out_tot' = out_tot + Len(out_buf) /\ out_buf' = <<>>
  /\ more' = [write |-> 1, check |-> 1]
  /\ m' = [m EXCEPT !.pc = CASE m.pc = "outb" -> "inflate"
                             [] m.pc = "flush" -> "finish"
                             [] m.pc = "finish" -> "joincheck"]
  /\ UNCHANGED <<mainRest, in, consumed, out_check, output, result>>

JoinCheck ==
  /\ result = "none" /\ m.pc = "joincheck" /\ Join("check")
  /\ m' = [m EXCEPT !.pc = "joinwrite"]
  /\ UNCHANGED <<content, force, loadVars, helper, in, consumed, out_buf, outVars, out_tot,
                 result>>

\* the locks are freed
JoinWrite ==
  /\ result = "none" /\ m.pc = "joinwrite" /\ Join("write")
  /\ m' = [m EXCEPT !.pc = "check"] /\ more' = [write |-> -1, check |-> -1]
  /\ UNCHANGED <<content, force, loadVars, helper, in, consumed, out_buf, out_copy,
                 out_check, output, out_tot, result>>

\* the gzip trailer; the end of the file is noticed after both values
GetCheck ==
  /\ AtGet("check") /\ Get
  /\ m' = [m EXCEPT !.pc = "len", !.check = Next1.v]
  /\ UNCHANGED <<mainRest, out_buf, outVars, out_tot, result>>

\* compare with the output, and look for another member
GetLen ==
  /\ AtGet("len") /\ Get
  /\ IF in.eof \/ m.check # out_check \/ Next1.v # <<out_tot>> THEN Bail
     ELSE m' = [m EXCEPT !.pc = "magic1", !.first = FALSE] /\ UNCHANGED result
  /\ UNCHANGED <<mainRest, out_buf, outVars, out_tot>>

MainStep ==
  \/ LoadCall \/ LoadTake \/ LoadJoin
  \/ GetMagic1 \/ GetMagic2 \/ GetHead \/ GetName \/ Cat \/ CatRest
  \/ Inflate \/ (\E t \in OutThreads : OutbLaunch(t)) \/ Outb \/ JoinCheck \/ JoinWrite
  \/ GetCheck \/ GetLen

-----------------------------------------------------------------------------
(* outb_write and outb_check: one turn of the loop each *)

OutThread(t) ==
  /\ result # "bail" /\ helper[t] = "wait" /\ more[t] = 1
  /\ more' = [more EXCEPT ![t] = 0]
  /\ helper' = [helper EXCEPT ![t] = IF out_copy = <<>> THEN "end" ELSE "wait"]
  /\ UNCHANGED <<content, force, loadVars, in, consumed, m, out_buf, out_copy, out_tot,
                 result, yarnVars>>

OutbWrite == OutThread("write") /\ output' = output \o out_copy /\ UNCHANGED out_check

OutbCheck == OutThread("check") /\ out_check' = out_check \o out_copy /\ UNCHANGED output

\* the end of a helper thread, in two steps (Yarn)
ThreadEnds(t) ==
  \/ HelperEnds(t)
  \/ /\ result # "bail" /\ ThreadExit(t)
     /\ UNCHANGED <<loadVars, in, m, helper, mainOut>>

Next == MainStep \/ LoadRead \/ OutbWrite \/ OutbCheck \/ \E t \in HelperIds : ThreadEnds(t)

Spec == Init /\ [][Next]_vars

\* every thread that can take a step takes one
FairSpec ==
  /\ Spec
  /\ WF_vars(MainStep) /\ WF_vars(LoadRead) /\ WF_vars(OutbWrite) /\ WF_vars(OutbCheck)
  /\ \A t \in HelperIds : WF_vars(ThreadEnds(t))

-----------------------------------------------------------------------------
(* Properties *)

\* The variables have their types; a buffer that was handed over is never longer than
\* a buffer.
TypeOK ==
  /\ fd \in 0..Len(file) /\ in_which \in {-1, 0, 1} /\ load_state \in {0, 1}
  /\ in_len \in 0..BufSize /\ consumed \in 0..Len(file)
  /\ in.left \in 0..BufSize /\ in.next \in 1..(BufSize + 1) /\ in.left + in.next <= BufSize + 1
  /\ Len(out_buf) <= OutSize /\ Len(out_copy) <= OutSize
  /\ \A t \in OutThreads : more[t] \in {-1, 0, 1}
  /\ result \in {"none", "ok", "warned", "skipped", "bail"}

\* load and load_read: what is left in the buffer of the main thread is what follows in
\* the file, whatever the read thread does meanwhile, and the end of the file is seen
\* only when all of it was consumed.
InputInOrder ==
  /\ TypeOK
  /\ in.next + in.left <= Len(buf[in.cur]) + 1 /\ consumed + in.left <= Len(file)
  /\ SubSeq(buf[in.cur], in.next, in.next + in.left - 1)
       = SubSeq(file, consumed + 1, consumed + in.left)
  /\ in.eof => consumed = Len(file)

\* The data of the members that are complete, and what follows them in the file.
Whole == IF content.cut = 0 THEN Len(content.members) ELSE Len(content.members) - 1
DataUpTo(n) == FlattenSeq([i \in 1..n |-> Units(i, content.members[i])])
Missing == content.cut > 0 /\ content.cut = Len(Member(1, Last(content.members), "none")) - 1
Rest == IF Missing THEN <<<<Len(content.members), 0>>>>   \* a magic symbol and no more
        ELSE Units(Len(content.members) + 1, content.junk)

\* infchk, cat, outb and the output threads: what is written is at any time a beginning of
\* the data of the members in order, and at the end it is the data of every complete
\* member, with the junk behind them only if that was asked for.
OutputIsData ==
  /\ \/ IsPrefix(output, DataUpTo(Len(content.members)))
     \/ force /\ IsPrefix(output, DataUpTo(Whole) \o Rest)
  /\ result = "ok" => output = DataUpTo(Whole) \o (IF force THEN Rest ELSE <<>>)
  /\ result = "warned" => output = DataUpTo(Whole)
  /\ result = "skipped" => output = <<>>

\* The trailer is compared with values that are complete: a damaged member or one cut
\* in its data or trailer ends the program with an error, and nothing else does.
DamageIsFound ==
  LET header == Len(Member(1, Last(content.members), "none")) - content.cut < 4
      damaged == content.fault # "none" \/ (content.cut > 0 /\ ~header)
  IN  result # "none" => (result = "bail" <=> damaged)

\* Decompression ends: nobody waits for ever for a buffer or for another thread.
Ends == <>(result # "none")

=============================================================================
