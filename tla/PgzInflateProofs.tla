-------------------------- MODULE PgzInflateProofs --------------------------
(***************************************************************************)
(* Proofs about PgzInflate for any file and any sizes of the buffers: what *)
(* the main thread takes from its buffer is the file in order, while the   *)
(* thread load_read fills the other one.                                   *)
(***************************************************************************)
EXTENDS PgzInflate, QueueLemmas

----------------------------------------------------------------------------
(* Sequences put one after the other *)

\* f[i] holds the first i sequences of ss.
PartFlat(f, n, ss) == f = [i \in 1 .. n |-> IF i = 1 THEN ss[i] ELSE f[i - 1] \o ss[i]]

LEMMA FlatExists ==
    ASSUME NEW ss, NEW n \in Nat
    PROVE  \E f : PartFlat(f, n, ss)
<1> DEFINE bad == {b \in Nat : ~ \E f : PartFlat(f, b, ss)}
<1> SUFFICES ASSUME bad # {} PROVE FALSE
    OBVIOUS
<1>1. PICK b \in bad : \A j \in bad : b <= j
  <2>1. bad \subseteq Nat
        OBVIOUS
  <2> HIDE DEF bad
  <2>2. Min(bad) \in bad /\ \A y \in bad : Min(bad) <= y
        BY <2>1, LeastPlace
  <2> QED BY <2>2
<1>2. CASE b = 0
  <2>1. PICK f : f = [i \in 1 .. 0 |-> 0]
        OBVIOUS
  <2>2. 1 .. 0 = {}
        OBVIOUS
  <2>3. PartFlat(f, 0, ss)
        BY <2>1, <2>2 DEF PartFlat
  <2> QED BY <1>2, <2>3
<1>3. CASE b # 0
  <2>1. b \in Nat /\ b - 1 \in Nat /\ b - 1 \notin bad
        BY <1>1, <1>3
  <2>2. PICK f : PartFlat(f, b - 1, ss)
        BY <2>1
  <2>3. \A i \in 1 .. b - 1 : f[i] = IF i = 1 THEN ss[i] ELSE f[i - 1] \o ss[i]
        BY <2>2 DEF PartFlat
  <2>4. PICK g : g = [i \in 1 .. b |-> IF i < b THEN f[i] ELSE IF b = 1 THEN ss[b] ELSE f[b - 1] \o ss[b]]
        OBVIOUS
  <2>5. \A i \in 1 .. b : g[i] = IF i = 1 THEN ss[i] ELSE g[i - 1] \o ss[i]
    <3> TAKE i \in 1 .. b
    <3>1. CASE i = b /\ b = 1
          BY <2>4, <3>1
    <3>2. CASE i = b /\ b # 1
      <4>0. ~ (b < b) /\ b \in 1 .. b
            BY <2>1, <1>3
      <4>1. g[i] = f[b - 1] \o ss[b]
            BY <2>4, <3>2, <4>0
      <4>2. b - 1 \in 1 .. b /\ b - 1 < b
            BY <2>1, <3>2
      <4>3. g[b - 1] = f[b - 1]
            BY <2>4, <4>2
      <4> QED BY <3>2, <4>1, <4>3
    <3>3. CASE i # b
      <4>1. i < b /\ i \in 1 .. b - 1
            BY <2>1, <3>3
      <4>2. g[i] = f[i]
            BY <2>4, <4>1
      <4>3. i # 1 => g[i - 1] = f[i - 1]
        <5>1. i # 1 => i - 1 \in 1 .. b /\ i - 1 < b
              BY <2>1, <4>1
        <5> QED BY <2>4, <5>1
      <4> QED BY <2>3, <4>1, <4>2, <4>3
    <3> QED BY <3>1, <3>2, <3>3
  <2>6. PartFlat(g, b, ss)
    <3>1. PICK h : h = [i \in 1 .. b |-> IF i = 1 THEN ss[i] ELSE g[i - 1] \o ss[i]]
          OBVIOUS
    <3>2. \A i \in 1 .. b : h[i] = g[i]
          BY <2>5, <3>1
    <3>3. g = [i \in 1 .. b |-> g[i]] /\ h = [i \in 1 .. b |-> h[i]]
          BY <2>4, <3>1
    <3>4. g = h
          BY <3>2, <3>3
    <3> QED BY <3>1, <3>4 DEF PartFlat
  <2> QED BY <2>6
<1> QED BY <1>2, <1>3

LEMMA FlattenType ==
    ASSUME NEW S, NEW ss \in Seq(Seq(S))
    PROVE  FlattenSeq(ss) \in Seq(S)
<1>1. PICK n \in Nat : n = Len(ss)
      BY LenProperties
<1>2. CASE n = 0
  <2>1. FlattenSeq(ss) = ss /\ ss = <<>>
        BY <1>1, <1>2, EmptySeq DEF FlattenSeq
  <2> QED BY <2>1, EmptySeq
<1>3. CASE n # 0
  <2>1. PICK f : f = CHOOSE h : PartFlat(h, Len(ss), ss)
        OBVIOUS
  <2>2. FlattenSeq(ss) = f[Len(ss)]
        BY <1>1, <1>3, <2>1, Zenon DEF FlattenSeq, PartFlat
  <2>3. PartFlat(f, n, ss)
    <3>1. \E h : PartFlat(h, n, ss)
          BY FlatExists
    <3> HIDE DEF PartFlat
    <3> QED BY <1>1, <2>1, <3>1
  <2>4. \A i \in 1 .. n : f[i] = IF i = 1 THEN ss[i] ELSE f[i - 1] \o ss[i]
        BY <2>3 DEF PartFlat
  <2>5. \A i \in 1 .. n : ss[i] \in Seq(S)
        BY <1>1, ElementOfSeq
  <2> DEFINE bad == {i \in 1 .. n : f[i] \notin Seq(S)}
  <2>6. bad = {}
    <3> SUFFICES ASSUME bad # {} PROVE FALSE
        OBVIOUS
    <3>1. PICK i \in bad : \A j \in bad : i <= j
      <4>1. bad \subseteq Nat
            OBVIOUS
      <4> HIDE DEF bad
      <4>2. Min(bad) \in bad /\ \A y \in bad : Min(bad) <= y
            BY <4>1, LeastPlace
      <4> QED BY <4>2
    <3>2. i # 1
          BY <2>4, <2>5, <3>1
    <3>3. i - 1 \in 1 .. n /\ i - 1 \notin bad
          BY <3>1, <3>2
    <3>4. f[i - 1] \in Seq(S) /\ ss[i] \in Seq(S)
          BY <2>5, <3>3
    <3>5. f[i] = f[i - 1] \o ss[i]
          BY <2>4, <3>2
    <3>6. f[i - 1] \o ss[i] \in Seq(S)
          BY <3>4, ConcatProperties
    <3> QED BY <3>5, <3>6
  <2>7. n \in 1 .. n
        BY <1>3
  <2> QED BY <1>1, <2>2, <2>6, <2>7
<1> QED BY <1>2, <1>3

\* What FlattenSeq computes, step by step.
LEMMA FlattenIs ==
    ASSUME NEW S, NEW ss \in Seq(Seq(S)), Len(ss) # 0
    PROVE  \E f : PartFlat(f, Len(ss), ss) /\ FlattenSeq(ss) = f[Len(ss)]
<1>1. PICK n \in Nat : n = Len(ss)
      BY LenProperties
<1>2. PICK f : f = CHOOSE h : PartFlat(h, Len(ss), ss)
      OBVIOUS
<1>3. FlattenSeq(ss) = f[Len(ss)]
      BY <1>2, Zenon DEF FlattenSeq, PartFlat
<1>4. PartFlat(f, Len(ss), ss)
  <2>1. \E h : PartFlat(h, n, ss)
        BY FlatExists
  <2> HIDE DEF PartFlat
  <2> QED BY <1>1, <1>2, <2>1
<1> QED BY <1>3, <1>4

\* One more sequence is put at the end.
LEMMA FlattenStep ==
    ASSUME NEW S, NEW ss \in Seq(Seq(S)), NEW tt \in Seq(Seq(S)), Len(tt) = Len(ss) + 1,
           \A i \in 1 .. Len(ss) : tt[i] = ss[i]
    PROVE  FlattenSeq(tt) = FlattenSeq(ss) \o tt[Len(tt)]
<1>1. PICK n \in Nat : n = Len(ss) /\ Len(tt) = n + 1 /\ n + 1 # 0
      BY LenProperties
<1>2. PICK g : PartFlat(g, n + 1, tt) /\ FlattenSeq(tt) = g[n + 1]
      BY <1>1, FlattenIs
<1>3. \A i \in 1 .. n + 1 : g[i] = IF i = 1 THEN tt[i] ELSE g[i - 1] \o tt[i]
      BY <1>2 DEF PartFlat
<1>4. n + 1 \in 1 .. n + 1 /\ (n + 1) - 1 = n
      BY <1>1
<1>5. CASE n = 0
  <2>1. FlattenSeq(ss) = <<>>
        BY <1>1, <1>5, EmptySeq DEF FlattenSeq
  <2>2. tt[n + 1] \in Seq(S)
        BY <1>1, <1>4, ElementOfSeq
  <2>3. g[n + 1] = tt[n + 1]
        BY <1>3, <1>4, <1>5
  <2>4. <<>> \o tt[n + 1] = tt[n + 1]
        BY <2>2, ConcatEmptySeq
  <2> QED BY <1>1, <1>2, <2>1, <2>3, <2>4
<1>6. CASE n # 0
  <2>1. PICK f : PartFlat(f, n, ss) /\ FlattenSeq(ss) = f[n]
        BY <1>1, <1>6, FlattenIs
  <2>2. \A i \in 1 .. n : f[i] = IF i = 1 THEN ss[i] ELSE f[i - 1] \o ss[i]
        BY <2>1 DEF PartFlat
  <2> DEFINE bad == {i \in 1 .. n : f[i] # g[i]}
  <2>3. bad = {}
    <3> SUFFICES ASSUME bad # {} PROVE FALSE
        OBVIOUS
    <3>1. PICK i \in bad : \A j \in bad : i <= j
      <4>1. bad \subseteq Nat
            OBVIOUS
      <4> HIDE DEF bad
      <4>2. Min(bad) \in bad /\ \A y \in bad : Min(bad) <= y
            BY <4>1, LeastPlace
      <4> QED BY <4>2
    <3>2. i \in 1 .. n /\ i \in 1 .. n + 1 /\ tt[i] = ss[i] /\ f[i] # g[i]
          BY <1>1, <3>1
    <3>3. CASE i = 1
          BY <1>3, <2>2, <3>2, <3>3
    <3>4. CASE i # 1
      <4>1. i - 1 \in 1 .. n /\ ~ (i <= i - 1)
            BY <3>2, <3>4
      <4>2. f[i - 1] = g[i - 1]
            BY <3>1, <4>1
      <4> QED BY <1>3, <2>2, <3>2, <3>4, <4>2
    <3> QED BY <3>3, <3>4
  <2>4. n \in 1 .. n /\ n \notin bad
        BY <1>6, <2>3
  <2>5. f[n] = g[n]
        BY <2>4
  <2>6. g[n + 1] = g[n] \o tt[n + 1]
    <3>1. n + 1 # 1
          BY <1>6
    <3> QED BY <1>3, <1>4, <3>1
  <2> QED BY <1>1, <1>2, <2>1, <2>5, <2>6
<1> QED BY <1>5, <1>6

----------------------------------------------------------------------------
(* The symbols of the file *)

Val    == Nat \cup (Nat \X Nat)
Kinds  == {"magic1", "magic2", "head", "name", "data", "bad", "end", "check", "len", "junk", "eof", "none"}
Symbol == {x \in [k : Kinds, v : Seq(Val)] : x.k = "data" => Len(x.v) = 1}

LEMMA SymType ==
    ASSUME NEW k \in Kinds, NEW v \in Seq(Val), k = "data" => Len(v) = 1
    PROVE  Sym(k, v) \in Symbol
BY DEF Sym, Symbol

\* A sequence of one unit or number, and of none.
LEMMA OneVal ==
    ASSUME NEW x \in Val
    PROVE  <<x>> \in Seq(Val) /\ Len(<<x>>) = 1 /\ <<>> \in Seq(Val)
<1>1. <<x>> \in Seq(Val) /\ Len(<<x>>) = 1
      OBVIOUS
<1>2. <<>> \in Seq(Val)
      BY EmptySeq
<1> QED BY <1>1, <1>2

LEMMA MemberType ==
    ASSUME NEW i \in Nat, NEW n \in Nat, NEW fault
    PROVE  Member(i, n, fault) \in Seq(Symbol)
<1>1. /\ Sym("magic1", <<<<i, 0>>>>) \in Symbol /\ Sym("magic2", <<>>) \in Symbol
      /\ Sym("head", <<>>) \in Symbol /\ Sym("name", <<>>) \in Symbol /\ Sym("end", <<>>) \in Symbol
  <2>1. <<i, 0>> \in Val
        BY DEF Val
  <2>2. <<<<i, 0>>>> \in Seq(Val) /\ <<>> \in Seq(Val)
        BY <2>1, OneVal
  <2> QED BY <2>2, SymType DEF Kinds
<1>2. PICK a : a = <<Sym("magic1", <<<<i, 0>>>>), Sym("magic2", <<>>), Sym("head", <<>>), Sym("name", <<>>)>>
      OBVIOUS
<1>3. a \in Seq(Symbol)
      BY <1>1, <1>2
<1>4. PICK b : b = [j \in 1 .. n |-> Sym(IF fault = "data" THEN "bad" ELSE "data", <<<<i, j>>>>)]
      OBVIOUS
<1>5. b \in Seq(Symbol)
  <2>1. ASSUME NEW j \in 1 .. n PROVE Sym(IF fault = "data" THEN "bad" ELSE "data", <<<<i, j>>>>) \in Symbol
    <3>1. <<i, j>> \in Val
          BY DEF Val
    <3>2. <<<<i, j>>>> \in Seq(Val) /\ Len(<<<<i, j>>>>) = 1
          BY <3>1, OneVal
    <3> QED BY <3>2, SymType DEF Kinds
  <2>2. b \in [1 .. n -> Symbol]
        BY <1>4, <2>1
  <2> QED BY <2>2, SeqDef
<1>6. Sym("check", IF fault = "check" THEN <<<<0, 0>>>> ELSE Units(i, n)) \in Symbol
  <2>1. <<<<0, 0>>>> \in Seq(Val)
    <3>1. <<0, 0>> \in Val
          BY DEF Val
    <3> QED BY <3>1, OneVal
  <2>2. Units(i, n) \in Seq(Val)
    <3>1. \A j \in 1 .. n : <<i, j>> \in Val
          BY DEF Val
    <3>2. Units(i, n) \in [1 .. n -> Val]
          BY <3>1 DEF Units
    <3> QED BY <3>2, SeqDef
  <2> QED BY <2>1, <2>2, SymType DEF Kinds
<1>7. Sym("len", IF fault = "len" THEN <<n + 1>> ELSE <<n>>) \in Symbol
  <2>1. n \in Val /\ n + 1 \in Val
        BY DEF Val
  <2>2. <<n>> \in Seq(Val) /\ <<n + 1>> \in Seq(Val)
        BY <2>1, OneVal
  <2> QED BY <2>2, SymType DEF Kinds
<1>8. PICK e : e = <<Sym("end", <<>>), Sym("check", IF fault = "check" THEN <<<<0, 0>>>> ELSE Units(i, n)),
                     Sym("len", IF fault = "len" THEN <<n + 1>> ELSE <<n>>)>>
      OBVIOUS
<1>9. e \in Seq(Symbol)
      BY <1>1, <1>6, <1>7, <1>8
<1>10. Member(i, n, fault) = a \o b \o e
      BY <1>2, <1>4, <1>8 DEF Member
<1>11. a \o b \in Seq(Symbol)
      BY <1>3, <1>5, ConcatProperties
<1> QED BY <1>9, <1>10, <1>11, ConcatProperties

LEMMA FileType ==
    ASSUME NEW ct \in Contents
    PROVE  FileOf(ct) \in Seq(Symbol)
<1>1. ct.members \in Seq(Nat) /\ ct.cut \in Nat /\ ct.junk \in Nat
      BY InflateAssumption
<1>2. PICK n \in Nat : n = Len(ct.members)
      BY <1>1, LenProperties
<1> DEFINE ms == [i \in 1 .. n |-> Member(i, ct.members[i], IF i = n THEN ct.fault ELSE "none")]
<1>3. ms \in Seq(Seq(Symbol))
  <2>1. ASSUME NEW i \in 1 .. n
        PROVE  Member(i, ct.members[i], IF i = n THEN ct.fault ELSE "none") \in Seq(Symbol)
    <3>1. i \in Nat /\ ct.members[i] \in Nat
          BY <1>1, <1>2, ElementOfSeq
    <3> QED BY <3>1, MemberType
  <2>2. ms \in [1 .. n -> Seq(Symbol)]
        BY <2>1
  <2> QED BY <2>2, SeqDef
<1>4. PICK all \in Seq(Symbol) : all = FlattenSeq(ms)
      BY <1>3, FlattenType
<1>5. PICK l \in Nat : l = Len(all)
      BY LenProperties
<1>6. SubSeq(all, 1, l - ct.cut) \in Seq(Symbol)
  <2>1. PICK z \in Int : z = l - ct.cut /\ z <= l
        BY <1>1
  <2>2. \A i \in 1 .. z : all[i] \in Symbol
    <3>1. \A i \in 1 .. z : i \in 1 .. l
          BY <2>1
    <3> QED BY <1>5, <3>1, ElementOfSeq
  <2>3. SubSeq(all, 1, z) \in Seq(Symbol)
        BY <2>2, SubSeqProperties
  <2> QED BY <2>1, <2>3
<1>0. PICK u \in Nat : u = ct.junk
      BY <1>1
<1>7. PICK junk : junk = [j \in 1 .. u |-> Sym("junk", <<<<n + 1, j>>>>)]
      OBVIOUS
<1>8. junk \in Seq(Symbol)
  <2>1. ASSUME NEW j \in 1 .. u PROVE Sym("junk", <<<<n + 1, j>>>>) \in Symbol
    <3>1. <<n + 1, j>> \in Val
          BY DEF Val
    <3>2. <<<<n + 1, j>>>> \in Seq(Val)
          BY <3>1, OneVal
    <3> QED BY <3>2, SymType DEF Kinds
  <2>2. junk \in [1 .. u -> Symbol]
        BY <1>7, <2>1
  <2> QED BY <2>2, SeqDef
<1>9. FileOf(ct) = SubSeq(all, 1, l - ct.cut) \o junk
      BY <1>0, <1>2, <1>4, <1>5, <1>7 DEF FileOf
<1> QED BY <1>6, <1>8, <1>9, ConcatProperties

----------------------------------------------------------------------------
(* The invariant *)

InRecord   == [cur : {0, 1}, next : Nat, left : Nat, short : BOOLEAN, eof : BOOLEAN]
MainRecord == [pc : Gets \cup {"cat", "copy", "outb", "flush", "finish", "joincheck", "joinwrite", "done"},
               load : {"no", "call", "wait", "join"}, ret : Int, first : BOOLEAN,
               magic1 : Symbol, check : Seq(Val)]

LoadType ==
    /\ content \in Contents
    /\ fd \in Nat /\ buf \in [{0, 1} -> Seq(Symbol)] /\ (\A b \in {0, 1} : Len(buf[b]) <= BufSize)
    /\ in_len \in 0 .. BufSize /\ in_which \in {-1, 0, 1} /\ load_state \in {0, 1}
    /\ in \in InRecord /\ consumed \in Nat /\ m \in MainRecord
    /\ result \in {"none", "ok", "warned", "skipped", "bail"}

OutType ==
    /\ out_buf \in Seq(Val) /\ Len(out_buf) <= OutSize
    /\ out_copy \in Seq(Val) /\ Len(out_copy) <= OutSize
    /\ more \in [write : {-1, 0, 1}, check : {-1, 0, 1}]

\* Where in the file the buffer of the main thread ends.
Ahead == consumed + in.left

\* What is left in the buffer of the main thread is what follows in the file.
Taking ==
    /\ in.next > 0 /\ in.next + in.left <= Len(buf[in.cur]) + 1
    /\ Ahead <= Len(file)
    /\ \A j \in 1 .. in.left : buf[in.cur][in.next + j - 1] = file[consumed + j]

\* The buffer of load_read is not the one that is being consumed.
OtherBuffer == in.cur # in_which \/ (in.left = 0 /\ in.next = 1)

\* No read yet; load_read fills its buffer; it has filled it; the last buffer was taken, and
\* load_read is to be joined; there is nothing more to read.
Unread == in_which = -1 /\ ~in.short /\ ~in.eof /\ load_state = 0 /\ fd = 0 /\ Ahead = 0
          /\ in.next = 1 /\ m.load \in {"no", "call"}
Fills  == in_which # -1 /\ ~in.short /\ ~in.eof /\ load_state = 1 /\ fd = Ahead
          /\ m.load # "join" /\ OtherBuffer
Full   == /\ in_which # -1 /\ ~in.short /\ ~in.eof /\ load_state = 0 /\ m.load # "join" /\ OtherBuffer
          /\ in_len = Len(buf[in_which]) /\ fd = Ahead + in_len
          /\ in_len < BufSize => fd = Len(file)
          /\ \A j \in 1 .. in_len : buf[in_which][j] = file[Ahead + j]
Joins  == in_which # -1 /\ ~in.short /\ ~in.eof /\ load_state = 0 /\ m.load = "join"
          /\ fd = Len(file) /\ Ahead = Len(file)
Over   == in_which = -1 /\ in.short /\ (in.eof => in.left = 0) /\ load_state = 0
          /\ m.load \in {"no", "call"} /\ fd = Len(file) /\ Ahead = Len(file)

Loading ==
    /\ fd <= Len(file)
    /\ m.load \in {"call", "wait"} => in.left = 0
    /\ Unread \/ Fills \/ Full \/ Joins \/ Over

Inv == LoadType /\ OutType /\ Taking /\ Loading

LEMMA FileIs ==
    ASSUME LoadType
    PROVE  file \in Seq(Symbol) /\ Len(file) \in Nat
<1>1. file \in Seq(Symbol)
      BY FileType DEF LoadType, file
<1> QED BY <1>1, LenProperties

\* The input is as before.
loaded == <<content, fd, buf, in_len, in_which, load_state, in, consumed>>

LEMMA InputStays ==
    ASSUME LoadType, Taking, Loading, UNCHANGED loaded, m' \in MainRecord, m'.load = m.load,
           result' \in {"none", "ok", "warned", "skipped", "bail"}
    PROVE  LoadType' /\ Taking' /\ Loading'
<1>1. LoadType'
      BY DEF LoadType, loaded
<1>2. file' = file /\ Ahead' = Ahead
      BY DEF loaded, file, Ahead
<1>3. Taking'
      BY <1>2 DEF Taking, loaded
<1>4. OtherBuffer' = OtherBuffer
      BY DEF OtherBuffer, loaded
<1>5. Unread' = Unread /\ Fills' = Fills /\ Full' = Full /\ Joins' = Joins /\ Over' = Over
      BY <1>2, <1>4 DEF Unread, Fills, Full, Joins, Over, loaded
<1>6. Loading'
      BY <1>2, <1>5 DEF Loading, loaded
<1> QED BY <1>1, <1>3, <1>6

\* A symbol is taken, or the end of the file was seen.
LEMMA GetStep ==
    ASSUME LoadType, Taking, Loading, in.left > 0 \/ in.eof, m.load = "no", Get,
           UNCHANGED <<content, loadVars>>, m' \in MainRecord, m'.load = "no",
           result' \in {"none", "ok", "warned", "skipped", "bail"}
    PROVE  LoadType' /\ Taking' /\ Loading'
<1>1. CASE in.eof
      BY <1>1, InputStays DEF Get, loaded, loadVars
<1>2. CASE ~in.eof
  <2>1. /\ in' = [in EXCEPT !.next = @ + 1, !.left = @ - 1] /\ consumed' = consumed + 1
        /\ in.left > 0
        /\ content' = content /\ fd' = fd /\ buf' = buf /\ in_len' = in_len
        /\ in_which' = in_which /\ load_state' = load_state
        BY <1>2 DEF Get, loadVars
  <2>2. PICK l \in Nat, p \in Nat, c \in Nat : l = in.left /\ p = in.next /\ c = consumed /\ l > 0
        BY <2>1 DEF LoadType, InRecord
  <2>3. /\ in'.left = l - 1 /\ in'.next = p + 1 /\ in'.cur = in.cur /\ in'.short = in.short
        /\ in'.eof = in.eof /\ in' \in InRecord
    <3>1. in \in InRecord /\ l - 1 \in Nat /\ p + 1 \in Nat
          BY <2>2 DEF LoadType
    <3> QED BY <2>1, <2>2, <3>1 DEF InRecord
  <2>4. LoadType'
        BY <2>1, <2>2, <2>3 DEF LoadType
  <2>5. file' = file /\ Ahead' = Ahead
    <3>1. file' = file
          BY <2>1 DEF file
    <3>2. Ahead = c + l /\ Ahead' = (c + 1) + (l - 1)
          BY <2>1, <2>2, <2>3 DEF Ahead
    <3> QED BY <3>1, <3>2
  <2>6. Taking'
    <3>1. /\ p + l <= Len(buf[in.cur]) + 1
          /\ \A j \in 1 .. l : buf[in.cur][p + j - 1] = file[c + j]
          BY <2>2 DEF Taking
    <3>2. ASSUME NEW j \in 1 .. l - 1 PROVE buf[in.cur][(p + 1) + j - 1] = file[(c + 1) + j]
      <4>1. PICK i \in 1 .. l : i = j + 1 /\ (p + 1) + j - 1 = p + i - 1 /\ (c + 1) + j = c + i
        <5>1. j + 1 \in 1 .. l /\ (p + 1) + j - 1 = p + (j + 1) - 1 /\ (c + 1) + j = c + (j + 1)
              BY <2>2
        <5> QED BY <5>1
      <4> QED BY <3>1, <4>1
    <3>3. in'.next > 0 /\ in'.next + in'.left = p + l
          BY <2>2, <2>3
    <3> QED BY <2>1, <2>2, <2>3, <2>5, <3>1, <3>2, <3>3 DEF Taking
  <2>7. OtherBuffer => OtherBuffer'
        BY <2>1, <2>3 DEF OtherBuffer
  <2>8. Unread \/ Fills \/ Full \/ Joins \/ Over
        BY DEF Loading
  <2>9. ~Unread
    <3>1. Ahead = c + l
          BY <2>2 DEF Ahead
    <3> QED BY <2>2, <3>1 DEF Unread
  <2>10. Fills' \/ Full' \/ Over'
        BY <1>2, <2>1, <2>3, <2>5, <2>7, <2>8, <2>9 DEF Fills, Full, Joins, Over
  <2> QED BY <2>1, <2>4, <2>5, <2>6, <2>10 DEF Loading
<1> QED BY <1>1, <1>2

LEMMA LoadCallLoads ==
    ASSUME LoadType, Taking, Loading, LoadCall
    PROVE  LoadType' /\ Taking' /\ Loading'
<1>1. /\ m.load = "call" \/ (m.load = "no" /\ in.left = 0 /\ ~in.eof)
      /\ content' = content /\ consumed' = consumed /\ result' = result
      BY DEF LoadCall, mainOut
<1>2. in.left = 0
      BY <1>1 DEF Loading
<1>3. file' = file
      BY <1>1 DEF file
<1>4. in \in InRecord /\ m \in MainRecord
      BY DEF LoadType
<1>5. CASE in.short /\ in' = [in EXCEPT !.eof = TRUE, !.left = 0] /\ m' = [m EXCEPT !.load = "no"]
           /\ UNCHANGED loadVars
  <2>1. /\ in'.left = 0 /\ in'.eof /\ in'.short = in.short /\ in'.cur = in.cur /\ in'.next = in.next
        /\ in' \in InRecord /\ m'.load = "no" /\ m' \in MainRecord
        BY <1>4, <1>5 DEF InRecord, MainRecord
  <2>2. /\ fd' = fd /\ buf' = buf /\ in_len' = in_len /\ in_which' = in_which /\ load_state' = load_state
        BY <1>5 DEF loadVars
  <2>3. LoadType'
        BY <1>1, <2>1, <2>2 DEF LoadType
  <2>4. Ahead' = Ahead
        BY <1>1, <1>2, <2>1 DEF Ahead
  <2>5. Taking'
        BY <1>2, <1>3, <2>1, <2>2, <2>4, <1>1 DEF Taking
  <2>6. Over
        BY <1>5 DEF Loading, Unread, Fills, Full, Joins
  <2>7. Over'
        BY <1>3, <1>5, <2>1, <2>2, <2>4, <2>6 DEF Over
  <2> QED BY <1>3, <2>1, <2>2, <2>3, <2>5, <2>7 DEF Loading
<1>6. CASE ~in.short /\ in_which = -1 /\ in_which' = 1 /\ load_state' = 1
           /\ m' = [m EXCEPT !.load = "wait"] /\ UNCHANGED <<fd, buf, in_len, in>>
  <2>1. m'.load = "wait" /\ m' \in MainRecord
        BY <1>4, <1>6 DEF MainRecord
  <2>2. LoadType'
        BY <1>1, <1>6, <2>1 DEF LoadType
  <2>3. Ahead' = Ahead
        BY <1>1, <1>6 DEF Ahead
  <2>4. Taking'
        BY <1>1, <1>3, <1>6, <2>3 DEF Taking
  <2>5. Unread
        BY <1>6 DEF Loading, Fills, Full, Joins, Over
  <2>6. in.next = 1
        BY <2>5 DEF Unread
  <2>7. Fills'
        BY <1>2, <1>6, <2>1, <2>3, <2>5, <2>6 DEF Unread, Fills, OtherBuffer
  <2> QED BY <1>2, <1>3, <1>6, <2>1, <2>2, <2>4, <2>7 DEF Loading
<1>7. CASE ~in.short /\ in_which # -1 /\ m' = [m EXCEPT !.load = "wait"] /\ UNCHANGED <<loadVars, in>>
  <2>1. m'.load = "wait" /\ m' \in MainRecord
        BY <1>4, <1>7 DEF MainRecord
  <2>2. /\ fd' = fd /\ buf' = buf /\ in_len' = in_len /\ in_which' = in_which /\ load_state' = load_state
        /\ in' = in
        BY <1>7 DEF loadVars
  <2>3. LoadType'
        BY <1>1, <2>1, <2>2 DEF LoadType
  <2>4. Ahead' = Ahead /\ OtherBuffer' = OtherBuffer
        BY <1>1, <2>2 DEF Ahead, OtherBuffer
  <2>5. Taking'
        BY <1>1, <1>3, <2>2, <2>4 DEF Taking
  <2>6. Fills \/ Full
        BY <1>1, <1>7 DEF Loading, Unread, Joins, Over
  <2>7. Fills' \/ Full'
        BY <1>3, <2>1, <2>2, <2>4, <2>6 DEF Fills, Full
  <2> QED BY <1>2, <1>3, <2>1, <2>2, <2>3, <2>5, <2>7 DEF Loading
<1> QED BY <1>5, <1>6, <1>7 DEF LoadCall

LEMMA LoadTakeLoads ==
    ASSUME LoadType, Taking, Loading, LoadTake
    PROVE  LoadType' /\ Taking' /\ Loading'
<1>1. /\ m.load = "wait" /\ load_state = 0
      /\ in' = [in EXCEPT !.cur = in_which, !.next = 1, !.left = in_len]
      /\ \/ /\ in_len = BufSize
            /\ in_which' = 1 - in_which /\ load_state' = 1
            /\ m' = [m EXCEPT !.load = "no"]
         \/ /\ in_len < BufSize
            /\ m' = [m EXCEPT !.load = "join"]
            /\ in_which' = in_which /\ load_state' = load_state
      /\ fd' = fd /\ buf' = buf /\ in_len' = in_len
      /\ content' = content /\ consumed' = consumed /\ result' = result
      BY DEF LoadTake, mainOut
<1>2. in.left = 0 /\ Full
      BY <1>1 DEF Loading, Unread, Fills, Joins, Over
<1>3. file' = file
      BY <1>1 DEF file
<1>4. in \in InRecord /\ m \in MainRecord /\ in_which \in {0, 1} /\ BufSize \in Nat
      BY <1>2, InflateAssumption DEF LoadType, Full
<1>5. PICK l \in Nat, c \in Nat, w \in {0, 1} : l = in_len /\ l <= BufSize /\ c = consumed /\ w = in_which
  <2>1. in_len \in 0 .. BufSize /\ consumed \in Nat
        BY DEF LoadType
  <2>2. in_len \in Nat /\ in_len <= BufSize
        BY <1>4, <2>1
  <2> QED BY <1>4, <2>1, <2>2
<1>6. /\ in'.cur = w /\ in'.next = 1 /\ in'.left = l /\ in'.short = in.short /\ in'.eof = in.eof
      /\ in' \in InRecord
      BY <1>1, <1>4, <1>5 DEF InRecord
<1>7. m' \in MainRecord /\ m'.load = (IF in_len = BufSize THEN "no" ELSE "join")
      BY <1>1, <1>4, <1>5 DEF MainRecord
<1>8. in_which' \in {0, 1} /\ (in_len = BufSize => in_which' # w) /\ in_which' # -1
      BY <1>1, <1>4, <1>5
<1>9. LoadType'
      BY <1>1, <1>6, <1>7, <1>8 DEF LoadType
<1>10. Ahead = c /\ Ahead' = c + l /\ fd = c + l
      BY <1>1, <1>2, <1>5, <1>6 DEF Ahead, Full
<1>11. Len(file) \in Nat /\ fd <= Len(file)
      BY FileIs DEF Loading
<1>12. Taking'
  <2>1. Len(buf[w]) = l /\ \A j \in 1 .. l : buf[w][j] = file[c + j]
        BY <1>2, <1>5, <1>10 DEF Full
  <2>2. \A j \in 1 .. l : 1 + j - 1 = j
        OBVIOUS
  <2>3. \A j \in 1 .. l : buf[w][1 + j - 1] = file[c + j]
        BY <2>1, <2>2
  <2>4. in'.next > 0 /\ in'.next + in'.left <= Len(buf[w]) + 1
        BY <1>6, <2>1
  <2> QED BY <1>1, <1>3, <1>5, <1>6, <1>10, <1>11, <2>3, <2>4 DEF Taking
<1>13. ~in.short /\ ~in.eof /\ (in_len < BufSize => fd = Len(file))
      BY <1>2 DEF Full
<1>14. CASE in_len = BufSize
  <2>1. load_state' = 1 /\ m'.load = "no"
        BY <1>1, <1>4, <1>7, <1>14
  <2>2. Fills'
        BY <1>1, <1>6, <1>8, <1>10, <1>13, <1>14, <2>1 DEF Fills, OtherBuffer
  <2> QED BY <1>1, <1>3, <1>9, <1>11, <1>12, <2>1, <2>2 DEF Loading
<1>15. CASE in_len < BufSize
  <2>1. load_state' = 0 /\ m'.load = "join"
        BY <1>1, <1>4, <1>5, <1>7, <1>15
  <2>2. Joins'
        BY <1>1, <1>3, <1>6, <1>8, <1>10, <1>13, <1>15, <2>1 DEF Joins
  <2> QED BY <1>1, <1>3, <1>9, <1>11, <1>12, <2>1, <2>2 DEF Loading
<1> QED BY <1>4, <1>5, <1>14, <1>15

LEMMA LoadJoinLoads ==
    ASSUME LoadType, Taking, Loading, LoadJoin
    PROVE  LoadType' /\ Taking' /\ Loading'
<1>1. /\ m.load = "join" /\ in_which' = -1
      /\ in' = [in EXCEPT !.short = TRUE, !.eof = (in.left = 0)]
      /\ m' = [m EXCEPT !.load = "no"]
      /\ fd' = fd /\ buf' = buf /\ in_len' = in_len /\ load_state' = load_state
      /\ content' = content /\ consumed' = consumed /\ result' = result
      BY DEF LoadJoin, mainOut
<1>2. file' = file
      BY <1>1 DEF file
<1>3. in \in InRecord /\ m \in MainRecord
      BY DEF LoadType
<1>4. /\ in'.cur = in.cur /\ in'.next = in.next /\ in'.left = in.left /\ in'.short /\ in'.eof = (in.left = 0)
      /\ in' \in InRecord
  <2>1. (in.left = 0) \in BOOLEAN
        OBVIOUS
  <2> QED BY <1>1, <1>3, <2>1 DEF InRecord
<1>5. m' \in MainRecord /\ m'.load = "no"
      BY <1>1, <1>3 DEF MainRecord
<1>6. LoadType'
      BY <1>1, <1>4, <1>5 DEF LoadType
<1>7. Ahead' = Ahead
      BY <1>1, <1>4 DEF Ahead
<1>8. Taking'
      BY <1>1, <1>2, <1>4, <1>7 DEF Taking
<1>9. Joins
      BY <1>1 DEF Loading, Unread, Fills, Full, Over
<1>10. Over'
      BY <1>1, <1>2, <1>4, <1>5, <1>7, <1>9 DEF Joins, Over
<1> QED BY <1>1, <1>2, <1>5, <1>6, <1>8, <1>10 DEF Loading

LEMMA LoadReadLoads ==
    ASSUME LoadType, Taking, Loading, LoadRead
    PROVE  LoadType' /\ Taking' /\ Loading'
<1> DEFINE got == SubSeq(file, fd + 1, Min({fd + BufSize, Len(file)}))
<1>1. /\ load_state = 1 /\ buf' = [buf EXCEPT ![in_which] = got]
      /\ in_len' = Len(got) /\ fd' = fd + Len(got) /\ load_state' = 0
      /\ in_which' = in_which /\ in' = in /\ m' = m
      /\ content' = content /\ consumed' = consumed /\ result' = result
      BY DEF LoadRead, mainOut
<1>2. Fills
      BY <1>1 DEF Loading, Unread, Full, Joins, Over
<1>3. file' = file /\ file \in Seq(Symbol) /\ Len(file) \in Nat
      BY <1>1, FileIs DEF file
<1>4. PICK o \in Nat, s \in Nat, z \in Nat, w \in {0, 1} :
         o = fd /\ s = BufSize /\ z = Len(file) /\ w = in_which /\ o <= z
      BY <1>2, <1>3, InflateAssumption DEF LoadType, Loading, Fills
<1>5. PICK e \in Nat : e = Min({fd + BufSize, Len(file)}) /\ e = IF o + s <= z THEN o + s ELSE z
  <2>1. {o + s, z} \subseteq Nat /\ {o + s, z} # {}
        OBVIOUS
  <2>2. Min({o + s, z}) \in {o + s, z} /\ \A y \in {o + s, z} : Min({o + s, z}) <= y
        BY <2>1, LeastPlace
  <2>3. PICK e \in Nat : e = Min({o + s, z}) /\ e \in {o + s, z} /\ e <= o + s /\ e <= z
        BY <2>2
  <2>4. e = IF o + s <= z THEN o + s ELSE z
        BY <2>3
  <2> QED BY <1>4, <2>3, <2>4
<1>6. /\ got \in Seq(Symbol) /\ Len(got) = e - o /\ e - o \in Nat
      /\ \A j \in 1 .. e - o : got[j] = file[o + j]
  <2>1. \A i \in o + 1 .. e : i \in 1 .. z
        BY <1>4, <1>5
  <2>2. \A i \in o + 1 .. e : file[i] \in Symbol
        BY <1>3, <1>4, <2>1, ElementOfSeq
  <2>3. o + 1 \in Int /\ e \in Int
        OBVIOUS
  <2>4. /\ SubSeq(file, o + 1, e) \in Seq(Symbol)
        /\ Len(SubSeq(file, o + 1, e)) = IF o + 1 <= e THEN e - (o + 1) + 1 ELSE 0
        /\ \A i \in 1 .. e - (o + 1) + 1 : SubSeq(file, o + 1, e)[i] = file[o + 1 + i - 1]
        BY <2>2, <2>3, SubSeqProperties
  <2>5. got = SubSeq(file, o + 1, e)
        BY <1>4, <1>5
  <2>6. e - o \in Nat /\ e - (o + 1) + 1 = e - o
        BY <1>4, <1>5
  <2>7. \A j \in 1 .. e - o : o + 1 + j - 1 = o + j
        BY <2>6
  <2>8. Len(got) = e - o
    <3>1. CASE o + 1 <= e
          BY <2>4, <2>5, <2>6, <3>1
    <3>2. CASE ~ (o + 1 <= e)
      <4>1. e - o = 0
            BY <2>6, <3>2
      <4> QED BY <2>4, <2>5, <3>2, <4>1
    <3> QED BY <3>1, <3>2
  <2> QED BY <2>4, <2>5, <2>6, <2>7, <2>8
<1> HIDE DEF got
<1>7. PICK l \in Nat : l = Len(got) /\ l = e - o
      BY <1>6
<1>8. l <= s /\ (l < s => o + l = z) /\ o + l <= z
      BY <1>4, <1>5, <1>7
<1>9. buf'[w] = got /\ (\A b \in {0, 1} : b # w => buf'[b] = buf[b]) /\ buf' \in [{0, 1} -> Seq(Symbol)]
      BY <1>1, <1>4, <1>6 DEF LoadType
<1>10. LoadType'
  <2>1. \A b \in {0, 1} : Len(buf'[b]) <= BufSize
        BY <1>4, <1>7, <1>8, <1>9 DEF LoadType
  <2>2. in_len' \in 0 .. BufSize /\ fd' \in Nat
        BY <1>1, <1>4, <1>7, <1>8
  <2> QED BY <1>1, <1>9, <2>1, <2>2 DEF LoadType
<1>11. Ahead' = Ahead /\ Ahead = o
      BY <1>1, <1>2, <1>4 DEF Ahead, Fills
<1>12. Taking'
  <2>1. CASE in.cur # in_which
    <3>1. in.cur \in {0, 1}
          BY DEF LoadType, InRecord
    <3>2. buf'[in.cur] = buf[in.cur]
          BY <1>4, <1>9, <2>1, <3>1
    <3> QED BY <1>1, <1>3, <1>11, <3>2 DEF Taking
  <2>2. CASE in.cur = in_which
    <3>1. in.left = 0 /\ in.next = 1
          BY <1>2, <2>2 DEF Fills, OtherBuffer
    <3>2. buf'[in.cur] = got
          BY <1>4, <1>9, <2>2
    <3>3. in'.next > 0 /\ in'.next + in'.left <= Len(buf'[in.cur]) + 1
          BY <1>1, <1>7, <3>1, <3>2
    <3>4. 1 .. in'.left = {}
          BY <1>1, <3>1
    <3> QED BY <1>1, <1>3, <1>11, <3>3, <3>4 DEF Taking
  <2> QED BY <2>1, <2>2
<1>13. Full'
  <2>1. OtherBuffer'
        BY <1>1, <1>2 DEF Fills, OtherBuffer
  <2>2. in_len' = Len(buf'[in_which']) /\ fd' = Ahead' + in_len' /\ (in_len' < BufSize => fd' = Len(file'))
        BY <1>1, <1>3, <1>4, <1>7, <1>8, <1>9, <1>11
  <2>3. \A j \in 1 .. in_len' : buf'[in_which'][j] = file'[Ahead' + j]
        BY <1>1, <1>3, <1>4, <1>6, <1>7, <1>9, <1>11
  <2> QED BY <1>1, <1>2, <2>1, <2>2, <2>3 DEF Full, Fills
<1>14. fd' <= Len(file')
      BY <1>1, <1>3, <1>4, <1>7, <1>8
<1> QED BY <1>1, <1>10, <1>12, <1>13, <1>14 DEF Loading

----------------------------------------------------------------------------
(* The steps of the main thread *)

Input == LoadType /\ Taking /\ Loading

Results == {"none", "ok", "warned", "skipped", "bail"}

LEMMA NextSymbol ==
    ASSUME Input, in.left > 0 \/ in.eof
    PROVE  Next1 \in Symbol
<1>1. CASE in.eof
  <2>1. <<>> \in Seq(Val)
        BY EmptySeq
  <2> QED BY <1>1, <2>1, SymType DEF Next1, Kinds
<1>2. CASE ~in.eof
  <2>1. in \in InRecord /\ buf[in.cur] \in Seq(Symbol)
        BY DEF Input, LoadType, InRecord
  <2>2. Len(buf[in.cur]) \in Nat
        BY <2>1, LenProperties
  <2>3. in.next \in Nat /\ in.left \in Nat /\ in.left > 0 /\ in.next > 0 /\ in.next + in.left <= Len(buf[in.cur]) + 1
        BY <1>2, <2>1 DEF InRecord, Input, Taking
  <2>4. in.next \in 1 .. Len(buf[in.cur])
        BY <2>2, <2>3
  <2> QED BY <1>2, <2>1, <2>4, ElementOfSeq DEF Next1
<1> QED BY <1>1, <1>2

\* The ways out of get_header.
LEMMA NoHeaderType ==
    ASSUME LoadType, NEW r \in Int, NoHeader(r)
    PROVE  m' \in MainRecord /\ m'.load = m.load /\ result' \in Results
<1>1. /\ \E pc \in {"cat", "done"} : m' = [m EXCEPT !.ret = r, !.pc = pc]
      /\ result' \in Results
      BY DEF NoHeader, Results
<1>2. PICK pc \in {"cat", "done"} : m' = [m EXCEPT !.ret = r, !.pc = pc]
      BY <1>1
<1>3. m \in MainRecord
      BY DEF LoadType
<1>4. m' \in MainRecord /\ m'.load = m.load
      BY <1>2, <1>3 DEF MainRecord
<1> QED BY <1>1, <1>4

\* A step that gets a symbol.
LEMMA GetInput ==
    ASSUME Input, NEW pc, AtGet(pc), Get, UNCHANGED <<content, loadVars>>,
           m' \in MainRecord, m'.load = m.load, result' \in Results
    PROVE  Input'
<1>1. (in.left > 0 \/ in.eof) /\ m.load = "no"
      BY DEF AtGet
<1> QED BY <1>1, GetStep DEF Input, Results

\* A step that leaves the input alone.
LEMMA KeepInput ==
    ASSUME Input, UNCHANGED <<content, loadVars, in, consumed>>,
           m' \in MainRecord, m'.load = m.load, result' \in Results
    PROVE  Input'
BY InputStays DEF Input, loaded, loadVars, Results

LEMMA OutStays ==
    ASSUME OutType, UNCHANGED <<out_buf, out_copy, more>>
    PROVE  OutType'
BY DEF OutType

LEMMA GetMagic1Keeps ==
    ASSUME Inv, GetMagic1
    PROVE  Inv'
<1>1. Input /\ OutType /\ LoadType
      BY DEF Inv, Input
<1>2. AtGet("magic1") /\ Get /\ UNCHANGED <<content, loadVars, out_buf, out_copy, more>>
      BY DEF GetMagic1, mainRest, outVars
<1>3. m' \in MainRecord /\ m'.load = m.load /\ result' \in Results
  <2>1. CASE in.eof
    <3>1. NoHeader(-1)
          BY <2>1 DEF GetMagic1
    <3>2. -1 \in Int
          OBVIOUS
    <3> QED BY <1>1, <3>1, <3>2, NoHeaderType
  <2>2. CASE ~in.eof
    <3>1. m' = [m EXCEPT !.pc = "magic2", !.magic1 = Next1] /\ result' = result
          BY <2>2 DEF GetMagic1
    <3>2. Next1 \in Symbol
          BY <1>1, <1>2, NextSymbol DEF AtGet
    <3>3. m \in MainRecord /\ result \in Results
          BY <1>1 DEF LoadType, Results
    <3> QED BY <3>1, <3>2, <3>3 DEF MainRecord, Gets
  <2> QED BY <2>1, <2>2
<1> QED BY <1>1, <1>2, <1>3, GetInput, OutStays DEF Inv, Input

LEMMA GetMagic2Keeps ==
    ASSUME Inv, GetMagic2
    PROVE  Inv'
<1>1. Input /\ OutType /\ LoadType
      BY DEF Inv, Input
<1>2. AtGet("magic2") /\ UNCHANGED <<content, loadVars, out_buf, out_copy, more>>
      BY DEF GetMagic2, mainRest, outVars
<1>3. CASE Get /\ m' = [m EXCEPT !.pc = "head"] /\ UNCHANGED result
  <2>1. m \in MainRecord /\ result \in Results
        BY <1>1 DEF LoadType, Results
  <2>2. m' \in MainRecord /\ m'.load = m.load /\ result' \in Results
        BY <1>3, <2>1 DEF MainRecord, Gets
  <2> QED BY <1>1, <1>2, <1>3, <2>2, GetInput, OutStays DEF Inv, Input
<1>4. CASE NoHeader(-2) /\ UNCHANGED <<in, consumed>>
  <2>1. -2 \in Int
        OBVIOUS
  <2>2. m' \in MainRecord /\ m'.load = m.load /\ result' \in Results
        BY <1>1, <1>4, <2>1, NoHeaderType
  <2> QED BY <1>1, <1>2, <1>4, <2>2, KeepInput, OutStays DEF Inv, Input
<1> QED BY <1>3, <1>4 DEF GetMagic2

LEMMA GetHeadKeeps ==
    ASSUME Inv, GetHead
    PROVE  Inv'
<1>1. Input /\ OutType /\ LoadType
      BY DEF Inv, Input
<1>2. AtGet("head") /\ Get /\ UNCHANGED <<content, loadVars, out_buf, out_copy, more>>
      BY DEF GetHead, mainRest, outVars
<1>3. m' \in MainRecord /\ m'.load = m.load /\ result' \in Results
  <2>1. CASE in.eof
    <3>1. NoHeader(-1)
          BY <2>1 DEF GetHead
    <3>2. -1 \in Int
          OBVIOUS
    <3> QED BY <1>1, <3>1, <3>2, NoHeaderType
  <2>2. CASE ~in.eof
    <3>1. m' = [m EXCEPT !.pc = "name"] /\ result' = result
          BY <2>2 DEF GetHead
    <3>2. m \in MainRecord /\ result \in Results
          BY <1>1 DEF LoadType, Results
    <3> QED BY <3>1, <3>2 DEF MainRecord, Gets
  <2> QED BY <2>1, <2>2
<1> QED BY <1>1, <1>2, <1>3, GetInput, OutStays DEF Inv, Input

LEMMA GetNameKeeps ==
    ASSUME Inv, GetName
    PROVE  Inv'
<1>1. Input /\ OutType /\ LoadType
      BY DEF Inv, Input
<1>2. AtGet("name") /\ Get /\ UNCHANGED <<content, loadVars, out_buf, out_copy, more>>
      BY DEF GetName, mainRest
<1>3. m' \in MainRecord /\ m'.load = m.load /\ result' \in Results
  <2>1. CASE in.eof
    <3>1. NoHeader(-3)
          BY <2>1 DEF GetName
    <3>2. -3 \in Int
          OBVIOUS
    <3> QED BY <1>1, <3>1, <3>2, NoHeaderType
  <2>2. CASE ~in.eof
    <3>1. m' = [m EXCEPT !.pc = "inflate", !.ret = 8] /\ result' = result
          BY <2>2 DEF GetName
    <3>2. m \in MainRecord /\ result \in Results
          BY <1>1 DEF LoadType, Results
    <3>3. PICK r \in Int : r = 8
          OBVIOUS
    <3>4. m' = [m EXCEPT !.pc = "inflate", !.ret = r]
          BY <3>1, <3>3
    <3>5. m' \in MainRecord /\ m'.load = m.load
          BY <3>2, <3>4 DEF MainRecord, Gets
    <3> QED BY <3>1, <3>2, <3>5
  <2> QED BY <2>1, <2>2
<1> QED BY <1>1, <1>2, <1>3, GetInput, OutStays DEF Inv, Input

LEMMA TrailerKeeps ==
    ASSUME Inv, GetCheck \/ GetLen
    PROVE  Inv'
<1>1. Input /\ OutType /\ LoadType
      BY DEF Inv, Input
<1>2. m \in MainRecord /\ result \in Results
      BY <1>1 DEF LoadType, Results
<1>3. PICK pc : AtGet(pc) /\ Get /\ UNCHANGED <<content, loadVars, out_buf, out_copy, more>>
      BY DEF GetCheck, GetLen, mainRest, outVars
<1>4. m' \in MainRecord /\ m'.load = m.load /\ result' \in Results
  <2>1. CASE GetCheck
    <3>1. m' = [m EXCEPT !.pc = "len", !.check = Next1.v] /\ result' = result
          BY <2>1 DEF GetCheck
    <3>2. Next1 \in Symbol
          BY <1>1, <1>3, NextSymbol DEF AtGet
    <3>3. Next1.v \in Seq(Val)
          BY <3>2 DEF Symbol
    <3> QED BY <1>2, <3>1, <3>3 DEF MainRecord, Gets
  <2>2. CASE GetLen
    <3>1. \/ result' = "bail" /\ m' = [m EXCEPT !.pc = "done"]
          \/ m' = [m EXCEPT !.pc = "magic1", !.first = FALSE] /\ result' = result
          BY <2>2 DEF GetLen, Bail
    <3> QED BY <1>2, <3>1 DEF MainRecord, Gets, Results
  <2> QED BY <2>1, <2>2
<1> QED BY <1>1, <1>3, <1>4, GetInput, OutStays DEF Inv, Input

LEMMA CatRestKeeps ==
    ASSUME Inv, CatRest
    PROVE  Inv'
<1>1. Input /\ OutType /\ LoadType /\ Taking /\ Loading
      BY DEF Inv, Input
<1>2. m.load = "no" /\ UNCHANGED <<content, loadVars, out_buf, out_copy, more>>
      BY DEF CatRest, mainRest
<1>3. in \in InRecord /\ m \in MainRecord /\ result \in Results
      BY <1>1 DEF LoadType, Results
<1>4. CASE m' = [m EXCEPT !.pc = "done"] /\ result' = "ok" /\ UNCHANGED <<in, consumed>>
  <2>1. m' \in MainRecord /\ m'.load = m.load /\ result' \in Results
        BY <1>3, <1>4 DEF MainRecord, Results
  <2> QED BY <1>1, <1>2, <1>4, <2>1, KeepInput, OutStays DEF Inv, Input
<1>5. CASE /\ in.left > 0 /\ consumed' = consumed + in.left /\ in' = [in EXCEPT !.left = 0]
           /\ m' = [m EXCEPT !.load = "call"] /\ result' = result
  <2>1. PICK l \in Nat, p \in Nat, c \in Nat : l = in.left /\ p = in.next /\ c = consumed /\ l > 0
        BY <1>1, <1>3, <1>5 DEF InRecord, LoadType
  <2>2. /\ in'.left = 0 /\ in'.next = p /\ in'.cur = in.cur /\ in'.short = in.short /\ in'.eof = in.eof
        /\ in' \in InRecord /\ m'.load = "call" /\ m' \in MainRecord
        BY <1>3, <1>5, <2>1 DEF InRecord, MainRecord
  <2>3. /\ content' = content /\ fd' = fd /\ buf' = buf /\ in_len' = in_len
        /\ in_which' = in_which /\ load_state' = load_state
        BY <1>2 DEF loadVars
  <2>4. LoadType'
        BY <1>1, <1>5, <2>1, <2>2, <2>3 DEF LoadType
  <2>5. file' = file /\ Ahead' = Ahead /\ Ahead = c + l
        BY <1>5, <2>1, <2>2, <2>3 DEF file, Ahead
  <2>6. Taking'
    <3>1. p > 0 /\ p + l <= Len(buf[in.cur]) + 1 /\ Ahead <= Len(file)
          BY <1>1, <2>1 DEF Taking
    <3>2. Len(buf[in.cur]) \in Nat
      <4>1. buf[in.cur] \in Seq(Symbol)
            BY <1>1, <1>3 DEF LoadType, InRecord
      <4> QED BY <4>1, LenProperties
    <3>3. in'.next > 0 /\ in'.next + in'.left <= Len(buf[in.cur]) + 1 /\ 1 .. in'.left = {}
          BY <2>1, <2>2, <3>1, <3>2
    <3> QED BY <2>2, <2>3, <2>5, <3>1, <3>3 DEF Taking
  <2>7. OtherBuffer => OtherBuffer'
        BY <2>1, <2>2, <2>3 DEF OtherBuffer
  <2>8. Fills \/ Full \/ Over
    <3>1. ~Unread
          BY <2>1, <2>5 DEF Unread
    <3> QED BY <1>1, <1>2, <3>1 DEF Loading, Joins
  <2>9. Fills' \/ Full' \/ Over'
        BY <2>2, <2>3, <2>5, <2>7, <2>8 DEF Fills, Full, Over
  <2>10. Loading'
        BY <1>1, <2>2, <2>3, <2>5, <2>9 DEF Loading
  <2> QED BY <1>1, <1>2, <2>4, <2>6, <2>10, OutStays DEF Inv
<1> QED BY <1>4, <1>5 DEF CatRest

\* Cat, JoinCheck, JoinWrite and the launch of the output threads
LEMMA OtherKeeps ==
    ASSUME Inv, \/ Cat \/ JoinCheck \/ JoinWrite
                \/ \E t \in OutThreads : OutbLaunch(t)
    PROVE  Inv'
<1>1. Input /\ OutType /\ LoadType
      BY DEF Inv, Input
<1>2. m \in MainRecord /\ result \in Results
      BY <1>1 DEF LoadType, Results
<1>3. /\ UNCHANGED <<content, loadVars, in, consumed, out_buf, out_copy>> /\ result' = result
      /\ \/ m' = m
         \/ \E pc \in {"copy", "joinwrite", "check"} : m' = [m EXCEPT !.pc = pc]
      /\ \/ more' = more \/ more' = [write |-> 0, check |-> 0]
         \/ more' = [write |-> -1, check |-> -1]
      BY DEF Cat, JoinCheck, JoinWrite, OutbLaunch, mainRest, outVars
<1>4. m' \in MainRecord /\ m'.load = m.load
      BY <1>2, <1>3 DEF MainRecord, Gets
<1>5. Input'
      BY <1>1, <1>2, <1>3, <1>4, KeepInput
<1>6. OutType'
      BY <1>1, <1>3 DEF OutType
<1> QED BY <1>5, <1>6 DEF Inv, Input

LEMMA OutbKeeps ==
    ASSUME Inv, Outb
    PROVE  Inv'
<1>1. Input /\ OutType /\ LoadType
      BY DEF Inv, Input
<1>2. m \in MainRecord /\ result \in Results
      BY <1>1 DEF LoadType, Results
<1>3. /\ m.pc \in {"outb", "flush", "finish"} /\ UNCHANGED <<content, loadVars, in, consumed>>
      /\ out_copy' = out_buf /\ out_buf' = <<>> /\ more' = [write |-> 1, check |-> 1] /\ result' = result
      /\ m' = [m EXCEPT !.pc = CASE m.pc = "outb" -> "inflate"
                                 [] m.pc = "flush" -> "finish"
                                 [] m.pc = "finish" -> "joincheck"]
      BY DEF Outb, mainRest
<1>4. PICK pc \in {"inflate", "finish", "joincheck"} : m' = [m EXCEPT !.pc = pc]
      BY <1>3
<1>5. m' \in MainRecord /\ m'.load = m.load
      BY <1>2, <1>4 DEF MainRecord, Gets
<1>6. Input'
      BY <1>1, <1>2, <1>3, <1>5, KeepInput
<1>7. OutType'
  <2>1. <<>> \in Seq(Val) /\ Len(<<>>) <= OutSize
        BY EmptySeq, InflateAssumption
  <2> QED BY <1>1, <1>3, <2>1 DEF OutType
<1> QED BY <1>6, <1>7 DEF Inv, Input

LEMMA InflateKeeps ==
    ASSUME Inv, Inflate
    PROVE  Inv'
<1>1. Input /\ OutType /\ LoadType
      BY DEF Inv, Input
<1>2. m \in MainRecord /\ result \in Results
      BY <1>1 DEF LoadType, Results
<1>3. AtGet("inflate") /\ UNCHANGED <<content, loadVars, out_copy, more>>
      BY DEF Inflate, mainRest, outVars
<1>4. CASE Next1.k = "data" /\ ~WindowFull /\ Get /\ out_buf' = out_buf \o Next1.v /\ UNCHANGED <<m, result>>
  <2>1. Input'
        BY <1>1, <1>2, <1>3, <1>4, GetInput
  <2>2. PICK v \in Seq(Val) : v = Next1.v /\ Len(v) = 1
    <3>1. Next1 \in Symbol
          BY <1>1, <1>3, NextSymbol DEF AtGet
    <3> QED BY <1>4, <3>1 DEF Symbol
  <2>3. out_buf \o v \in Seq(Val) /\ Len(out_buf \o v) = Len(out_buf) + 1
    <3>1. PICK o \in Seq(Val) : o = out_buf
          BY <1>1 DEF OutType
    <3>2. o \o v \in Seq(Val) /\ Len(o \o v) = Len(o) + Len(v)
          BY ConcatProperties
    <3> QED BY <2>2, <3>1, <3>2
  <2>4. Len(out_buf) + 1 <= OutSize
    <3>1. Len(out_buf) \in Nat /\ OutSize \in Nat /\ Len(out_buf) <= OutSize /\ Len(out_buf) # OutSize
          BY <1>1, <1>4, InflateAssumption, LenProperties DEF OutType, WindowFull
    <3> QED BY <3>1
  <2>5. OutType'
        BY <1>1, <1>3, <1>4, <2>2, <2>3, <2>4 DEF OutType
  <2> QED BY <2>1, <2>5 DEF Inv, Input
<1>5. CASE m' = [m EXCEPT !.pc = "outb"] /\ UNCHANGED <<in, consumed, out_buf, result>>
  <2>1. m' \in MainRecord /\ m'.load = m.load
        BY <1>2, <1>5 DEF MainRecord
  <2> QED BY <1>1, <1>2, <1>3, <1>5, <2>1, KeepInput, OutStays DEF Inv, Input
<1>6. CASE Get /\ m' = [m EXCEPT !.pc = IF out_buf = <<>> THEN "finish" ELSE "flush"] /\ UNCHANGED <<out_buf, result>>
  <2>1. m' \in MainRecord /\ m'.load = m.load
        BY <1>2, <1>6 DEF MainRecord
  <2> QED BY <1>1, <1>2, <1>3, <1>6, <2>1, GetInput, OutStays DEF Inv, Input
<1>7. CASE Bail /\ UNCHANGED <<in, consumed, out_buf>>
  <2>1. m' \in MainRecord /\ m'.load = m.load /\ result' \in Results
        BY <1>2, <1>7 DEF MainRecord, Bail, Results
  <2> QED BY <1>1, <1>3, <1>7, <2>1, KeepInput, OutStays DEF Inv, Input
<1> QED BY <1>4, <1>5, <1>6, <1>7 DEF Inflate

----------------------------------------------------------------------------
(* The helper threads, and the theorem *)

LEMMA HelpersKeep ==
    ASSUME Inv, OutbWrite \/ OutbCheck \/ \E t \in HelperIds : ThreadEnds(t)
    PROVE  Inv'
<1>1. Input /\ OutType /\ LoadType
      BY DEF Inv, Input
<1>2. m \in MainRecord /\ result \in Results
      BY <1>1 DEF LoadType, Results
<1>3. /\ UNCHANGED <<content, loadVars, in, consumed, m, result, out_buf, out_copy>>
      /\ more' = more \/ \E t \in OutThreads : more' = [more EXCEPT ![t] = 0]
  <2>1. ASSUME NEW t \in OutThreads, OutThread(t)
        PROVE  /\ UNCHANGED <<content, loadVars, in, consumed, m, result, out_buf, out_copy>>
               /\ more' = [more EXCEPT ![t] = 0]
        BY <2>1 DEF OutThread
  <2>2. ASSUME NEW t, ThreadEnds(t)
        PROVE  UNCHANGED <<content, loadVars, in, consumed, m, result, out_buf, out_copy, more>>
        BY <2>2 DEF ThreadEnds, HelperEnds, mainOut, outVars
  <2> QED BY <2>1, <2>2 DEF OutbWrite, OutbCheck, OutThreads
<1>4. Input'
      BY <1>1, <1>2, <1>3, KeepInput
<1>5. more' \in [write : {-1, 0, 1}, check : {-1, 0, 1}]
      BY <1>1, <1>3 DEF OutType, OutThreads
<1>6. OutType'
      BY <1>1, <1>3, <1>5 DEF OutType
<1> QED BY <1>4, <1>6 DEF Inv, Input

LEMMA InitInv ==
    ASSUME Init
    PROVE  Inv
<1>1. /\ content \in Contents /\ fd = 0 /\ buf = [b \in {0, 1} |-> <<>>] /\ in_len = 0 /\ in_which = -1
      /\ load_state = 0 /\ consumed = 0 /\ in = InInit
      /\ m = [pc |-> "magic1", load |-> "no", ret |-> 0, first |-> TRUE,
              magic1 |-> Sym("none", <<>>), check |-> <<>>]
      /\ out_buf = <<>> /\ out_copy = <<>> /\ more = [write |-> -1, check |-> -1] /\ result = "none"
      BY DEF Init
<1>2. <<>> \in Seq(Val) /\ <<>> \in Seq(Symbol) /\ Len(<<>>) = 0 /\ BufSize \in Nat /\ OutSize \in Nat
      BY EmptySeq, InflateAssumption
<1>3. Sym("none", <<>>) \in Symbol
      BY <1>2, SymType DEF Kinds
<1>4. m \in MainRecord /\ m.load = "no"
      BY <1>1, <1>2, <1>3 DEF MainRecord, Gets
<1>5. in \in InRecord /\ in.cur = 1 /\ in.next = 1 /\ in.left = 0 /\ ~in.short /\ ~in.eof
      BY <1>1 DEF InInit, InRecord
<1>6. LoadType
      BY <1>1, <1>2, <1>4, <1>5 DEF LoadType
<1>7. OutType
      BY <1>1, <1>2 DEF OutType
<1>8. Len(file) \in Nat /\ Ahead = 0
      BY <1>1, <1>5, <1>6, FileIs DEF Ahead
<1>9. Taking
  <2>1. buf[in.cur] = <<>> /\ 1 .. in.left = {}
        BY <1>1, <1>5
  <2> QED BY <1>2, <1>5, <1>8, <2>1 DEF Taking
<1>10. Loading
      BY <1>1, <1>4, <1>5, <1>8 DEF Loading, Unread
<1> QED BY <1>6, <1>7, <1>9, <1>10 DEF Inv

LEMMA NextInv ==
    ASSUME Inv, [Next]_vars
    PROVE  Inv'
<1>1. CASE UNCHANGED vars
  <2>1. Input /\ OutType /\ m \in MainRecord /\ result \in Results
        BY DEF Inv, Input, LoadType, Results
  <2>2. UNCHANGED <<content, loadVars, in, consumed, m, result, out_buf, out_copy, more>>
        BY <1>1 DEF vars, outVars
  <2> QED BY <2>1, <2>2, KeepInput, OutStays DEF Inv, Input
<1>2. CASE LoadCall \/ LoadTake \/ LoadJoin \/ LoadRead
  <2>1. UNCHANGED <<out_buf, out_copy, more>>
        BY <1>2 DEF LoadCall, LoadTake, LoadJoin, LoadRead, mainOut, outVars
  <2>2. LoadType' /\ Taking' /\ Loading'
        BY <1>2, LoadCallLoads, LoadTakeLoads, LoadJoinLoads, LoadReadLoads DEF Inv
  <2> QED BY <2>1, <2>2, OutStays DEF Inv
<1>3. CASE GetMagic1 \/ GetMagic2 \/ GetHead \/ GetName \/ GetCheck \/ GetLen
      BY <1>3, GetMagic1Keeps, GetMagic2Keeps, GetHeadKeeps, GetNameKeeps, TrailerKeeps
<1>4. CASE Cat \/ JoinCheck \/ JoinWrite \/ \E t \in OutThreads : OutbLaunch(t)
      BY <1>4, OtherKeeps
<1>5. CASE CatRest \/ Inflate \/ Outb
      BY <1>5, CatRestKeeps, InflateKeeps, OutbKeeps
<1>6. CASE OutbWrite \/ OutbCheck \/ \E t \in HelperIds : ThreadEnds(t)
      BY <1>6, HelpersKeep
<1> QED BY <1>1, <1>2, <1>3, <1>4, <1>5, <1>6 DEF Next, MainStep

\* Two parts of two sequences that agree at every place.
LEMMA SamePart ==
    ASSUME NEW S, NEW s \in Seq(S), NEW t \in Seq(S), NEW a \in Nat, NEW b \in Nat, NEW l \in Nat,
           a > 0, a + l <= Len(s) + 1, b + l <= Len(t),
           \A j \in 1 .. l : s[a + j - 1] = t[b + j]
    PROVE  SubSeq(s, a, a + l - 1) = SubSeq(t, b + 1, b + l)
<1>1. Len(s) \in Nat /\ Len(t) \in Nat
      BY LenProperties
<1>2. /\ a \in Int /\ a + l - 1 \in Int /\ \A i \in a .. a + l - 1 : s[i] \in S
      /\ (a + l - 1) - a + 1 = l /\ (IF a <= a + l - 1 THEN (a + l - 1) - a + 1 ELSE 0) = l
  <2>1. \A i \in a .. a + l - 1 : i \in 1 .. Len(s)
        BY <1>1
  <2> QED BY <2>1, ElementOfSeq
<1>3. /\ b + 1 \in Int /\ b + l \in Int /\ \A i \in b + 1 .. b + l : t[i] \in S
      /\ (b + l) - (b + 1) + 1 = l /\ (IF b + 1 <= b + l THEN (b + l) - (b + 1) + 1 ELSE 0) = l
  <2>1. \A i \in b + 1 .. b + l : i \in 1 .. Len(t)
        BY <1>1
  <2> QED BY <2>1, ElementOfSeq
<1>4. PICK x \in Seq(S) : /\ x = SubSeq(s, a, a + l - 1) /\ Len(x) = l
                          /\ \A i \in 1 .. l : x[i] = s[a + i - 1]
  <2>1. PICK e \in Int : e = a + l - 1 /\ e - a + 1 = l
        BY <1>2
  <2>2. \A i \in a .. e : s[i] \in S
        BY <1>2, <2>1
  <2>3. /\ SubSeq(s, a, e) \in Seq(S)
        /\ Len(SubSeq(s, a, e)) = IF a <= e THEN e - a + 1 ELSE 0
        /\ \A i \in 1 .. e - a + 1 : SubSeq(s, a, e)[i] = s[a + i - 1]
        BY <2>2, SubSeqProperties
  <2>4. Len(SubSeq(s, a, e)) = l
    <3>1. CASE a <= e
          BY <2>1, <2>3, <3>1
    <3>2. CASE ~ (a <= e)
      <4>1. l = 0
            BY <2>1, <3>2
      <4> QED BY <2>3, <3>2, <4>1
    <3> QED BY <3>1, <3>2
  <2> QED BY <2>1, <2>3, <2>4
<1>5. PICK y \in Seq(S) : /\ y = SubSeq(t, b + 1, b + l) /\ Len(y) = l
                          /\ \A i \in 1 .. l : y[i] = t[b + 1 + i - 1]
  <2>1. PICK d \in Int, e \in Int : d = b + 1 /\ e = b + l /\ e - d + 1 = l
        BY <1>3
  <2>2. \A i \in d .. e : t[i] \in S
        BY <1>3, <2>1
  <2>3. /\ SubSeq(t, d, e) \in Seq(S)
        /\ Len(SubSeq(t, d, e)) = IF d <= e THEN e - d + 1 ELSE 0
        /\ \A i \in 1 .. e - d + 1 : SubSeq(t, d, e)[i] = t[d + i - 1]
        BY <2>2, SubSeqProperties
  <2>4. Len(SubSeq(t, d, e)) = l
    <3>1. CASE d <= e
          BY <2>1, <2>3, <3>1
    <3>2. CASE ~ (d <= e)
      <4>1. l = 0
            BY <2>1, <3>2
      <4> QED BY <2>3, <3>2, <4>1
    <3> QED BY <3>1, <3>2
  <2> QED BY <2>1, <2>3, <2>4
<1>6. \A i \in 1 .. l : b + 1 + i - 1 = b + i
      OBVIOUS
<1>7. \A i \in 1 .. l : x[i] = y[i]
      BY <1>4, <1>5, <1>6
<1>8. x = y
      BY <1>4, <1>5, <1>7, SeqEqual
<1> QED BY <1>4, <1>5, <1>8

\* What is left in the buffer of the main thread is what follows in the file, and the end of
\* the file is seen only when all of it was consumed: for files with any members, damaged or
\* cut anywhere, any sizes of the buffers, and any order of the steps of load and load_read.
THEOREM InputSequential == Spec => []InputInOrder
<1>1. Inv => InputInOrder
  <2> SUFFICES ASSUME Inv PROVE InputInOrder
      OBVIOUS
  <2>1. LoadType /\ OutType /\ Taking /\ Loading /\ in \in InRecord
        BY DEF Inv, LoadType
  <2>2. file \in Seq(Symbol) /\ Len(file) \in Nat
        BY <2>1, FileIs
  <2>3. PICK s \in Seq(Symbol) : s = buf[in.cur] /\ Len(s) \in Nat /\ Len(s) <= BufSize
        BY <2>1, LenProperties DEF LoadType, InRecord
  <2>4. PICK a \in Nat, b \in Nat, l \in Nat, z \in Nat, n \in Nat :
           a = in.next /\ b = consumed /\ l = in.left /\ z = BufSize /\ n = Len(file)
        BY <2>1, <2>2, InflateAssumption DEF LoadType, InRecord
  <2>5. /\ a > 0 /\ a + l <= Len(s) + 1 /\ b + l <= n
        /\ \A j \in 1 .. l : s[a + j - 1] = file[b + j]
        BY <2>1, <2>3, <2>4 DEF Taking, Ahead
  <2>6. SubSeq(s, a, a + l - 1) = SubSeq(file, b + 1, b + l)
    <3>1. PICK t \in Seq(Symbol) : t = file
          BY <2>2
    <3>2. b + l <= Len(t) /\ \A j \in 1 .. l : s[a + j - 1] = t[b + j]
          BY <2>4, <2>5, <3>1
    <3>3. SubSeq(s, a, a + l - 1) = SubSeq(t, b + 1, b + l)
          BY <2>5, <3>2, SamePart
    <3> QED BY <3>1, <3>3
  <2>7. in.eof => consumed = Len(file)
    <3>1. in.eof => in.left = 0 /\ Ahead = Len(file)
          BY <2>1 DEF Loading, Unread, Fills, Full, Joins, Over
    <3>2. Ahead = b + l
          BY <2>4 DEF Ahead
    <3> QED BY <2>4, <3>1, <3>2
  <2>8. TypeOK
    <3>1. fd \in 0 .. Len(file) /\ consumed \in 0 .. Len(file)
          BY <2>1, <2>2, <2>4, <2>5 DEF LoadType, Loading
    <3>2. in.left \in 0 .. BufSize /\ in.next \in 1 .. (BufSize + 1) /\ in.left + in.next <= BufSize + 1
      <4>1. PICK k \in Nat : k = Len(s) /\ k <= z /\ a + l <= k + 1
            BY <2>3, <2>4, <2>5
      <4>2. l \in 0 .. z /\ a \in 1 .. (z + 1) /\ l + a <= z + 1
            BY <2>5, <4>1
      <4> QED BY <2>4, <4>2
    <3>3. \A t \in OutThreads : more[t] \in {-1, 0, 1}
          BY <2>1 DEF OutType, OutThreads
    <3> QED BY <2>1, <3>1, <3>2, <3>3 DEF TypeOK, LoadType, OutType
  <2>9. in.next + in.left <= Len(buf[in.cur]) + 1 /\ consumed + in.left <= Len(file)
        BY <2>3, <2>4, <2>5
  <2> QED BY <2>3, <2>4, <2>6, <2>7, <2>8, <2>9 DEF InputInOrder
<1> QED BY <1>1, InitInv, NextInv, PTL DEF Spec

----------------------------------------------------------------------------
(* Where the members are in the file *)

\* A function on 1 .. n is a sequence of length n.
LEMMA FunSeq ==
    ASSUME NEW T, NEW n \in Nat, NEW b \in [1 .. n -> T]
    PROVE  b \in Seq(T) /\ Len(b) = n
<1>1. b \in Seq(T)
  BY SeqDef
<1>2. DOMAIN b = 1 .. n /\ DOMAIN b = 1 .. Len(b) /\ Len(b) \in Nat
  BY <1>1, LenProperties
<1> QED BY <1>1, <1>2

\* The symbols of the first members, and how many they are.
FaultOf(ct, i) == IF i = Len(ct.members) THEN ct.fault ELSE "none"
MemberOf(ct, i) == Member(i, ct.members[i], FaultOf(ct, i))
FirstMembers(ct, n) == FlattenSeq([i \in 1 .. n |-> MemberOf(ct, i)])

LEMMA ContentType ==
    ASSUME NEW ct \in Contents
    PROVE  /\ ct.members \in Seq(Nat) /\ Len(ct.members) \in Nat /\ ct.cut \in Nat /\ ct.junk \in Nat
           /\ \A i \in 1 .. Len(ct.members) : ct.members[i] \in Nat
           /\ ct.fault \in {"none", "data", "check", "len"}
           /\ ct.cut = 0 \/ (ct.junk = 0 /\ ct.fault = "none")
           /\ Len(ct.members) = 0 => ct.cut = 0 /\ ct.fault = "none"
           /\ Len(ct.members) # 0 => ct.cut <= 7 + ct.members[Len(ct.members)]
           /\ ct.fault = "data" => ct.members[Len(ct.members)] > 0
<1>1. ct.members \in Seq(Nat) /\ ct.cut \in Nat /\ ct.junk \in Nat
      BY InflateAssumption
<1>2. Len(ct.members) \in Nat /\ \A i \in 1 .. Len(ct.members) : ct.members[i] \in Nat
      BY <1>1, LenProperties, ElementOfSeq
<1>3. ct.members = <<>> <=> Len(ct.members) = 0
      BY <1>1, EmptySeq
<1> QED BY <1>1, <1>2, <1>3, InflateAssumption DEF Last

\* The symbols of a member, one by one.
MagicSym(i) == Sym("magic1", <<<<i, 0>>>>)
DataSym(i, j, f) == Sym(IF f = "data" THEN "bad" ELSE "data", <<<<i, j>>>>)
CheckSym(i, n, f) == Sym("check", IF f = "check" THEN <<<<0, 0>>>> ELSE Units(i, n))
LenSym(n, f) == Sym("len", IF f = "len" THEN <<n + 1>> ELSE <<n>>)

LEMMA MemberAt ==
    ASSUME NEW i \in Nat, NEW n \in Nat, NEW f, NEW x, x = Member(i, n, f)
    PROVE  /\ x \in Seq(Symbol) /\ Len(x) = n + 7
           /\ x[1] = MagicSym(i) /\ x[2] = Sym("magic2", <<>>)
           /\ x[3] = Sym("head", <<>>) /\ x[4] = Sym("name", <<>>)
           /\ \A j \in 1 .. n : x[4 + j] = DataSym(i, j, f)
           /\ x[n + 5] = Sym("end", <<>>)
           /\ x[n + 6] = CheckSym(i, n, f)
           /\ x[n + 7] = LenSym(n, f)
<1>1. PICK s1, s2, s3, s4, s5, s6, s7 :
         /\ s1 = MagicSym(i) /\ s2 = Sym("magic2", <<>>)
         /\ s3 = Sym("head", <<>>) /\ s4 = Sym("name", <<>>) /\ s5 = Sym("end", <<>>)
         /\ s6 = CheckSym(i, n, f)
         /\ s7 = LenSym(n, f)
      OBVIOUS
<1>2. PICK b : b = [j \in 1 .. n |-> DataSym(i, j, f)]
      OBVIOUS
<1>3. Member(i, n, f) = (<<s1, s2, s3, s4>> \o b) \o <<s5, s6, s7>>
      BY <1>1, <1>2 DEF Member, MagicSym, DataSym, CheckSym, LenSym
<1> DEFINE T == {s1, s2, s3, s4, s5, s6, s7} \cup {b[j] : j \in 1 .. n}
<1>4. PICK a : a = <<s1, s2, s3, s4>>
      OBVIOUS
<1>5. PICK e : e = <<s5, s6, s7>>
      OBVIOUS
<1>6. a \in Seq(T) /\ Len(a) = 4 /\ a[1] = s1 /\ a[2] = s2 /\ a[3] = s3 /\ a[4] = s4
      BY <1>4
<1>7. e \in Seq(T) /\ Len(e) = 3 /\ e[1] = s5 /\ e[2] = s6 /\ e[3] = s7
      BY <1>5
<1>8. b \in Seq(T) /\ Len(b) = n
  <2>1. b \in [1 .. n -> T]
        BY <1>2
  <2> QED BY <2>1, FunSeq
<1> HIDE DEF T
<1>9. /\ a \o b \in Seq(T) /\ Len(a \o b) = 4 + n
      /\ \A k \in 1 .. 4 + n : (a \o b)[k] = IF k <= 4 THEN a[k] ELSE b[k - 4]
  <2>1. /\ a \o b \in Seq(T) /\ Len(a \o b) = Len(a) + Len(b)
        /\ \A k \in 1 .. Len(a) + Len(b) : (a \o b)[k] = IF k <= Len(a) THEN a[k] ELSE b[k - Len(a)]
    <3>1. a \in Seq(T) /\ b \in Seq(T)
          BY <1>6, <1>8
    <3> QED BY <3>1, ConcatProperties
  <2> QED BY <1>6, <1>8, <2>1
<1>10. x = Member(i, n, f) /\ x = (a \o b) \o e
      BY <1>3, <1>4, <1>5
<1>11. /\ Len(x) = (4 + n) + 3
       /\ \A k \in 1 .. (4 + n) + 3 : x[k] = IF k <= 4 + n THEN (a \o b)[k] ELSE e[k - (4 + n)]
  <2>1. PICK ab \in Seq(T) : ab = a \o b
        BY <1>9
  <2>2. /\ Len(ab \o e) = Len(ab) + Len(e)
        /\ \A k \in 1 .. Len(ab) + Len(e) : (ab \o e)[k] = IF k <= Len(ab) THEN ab[k] ELSE e[k - Len(ab)]
    <3>1. e \in Seq(T)
          BY <1>7
    <3> QED BY <3>1, ConcatProperties
  <2>3. Len(ab) = 4 + n /\ Len(e) = 3 /\ x = ab \o e
        BY <1>7, <1>9, <1>10, <2>1
  <2> QED BY <2>1, <2>2, <2>3
<1>12. ASSUME NEW k \in 1 .. 4 PROVE x[k] = a[k]
  <2>1. k \in 1 .. (4 + n) + 3 /\ k \in 1 .. 4 + n /\ k <= 4 + n /\ k <= 4
        OBVIOUS
  <2> QED BY <1>9, <1>11, <2>1
<1>13. ASSUME NEW j \in 1 .. n PROVE x[4 + j] = b[j]
  <2>1. 4 + j \in 1 .. (4 + n) + 3 /\ 4 + j \in 1 .. 4 + n /\ 4 + j <= 4 + n /\ ~(4 + j <= 4) /\ (4 + j) - 4 = j
        OBVIOUS
  <2> QED BY <1>9, <1>11, <2>1
<1>14. ASSUME NEW k \in 1 .. 3 PROVE x[n + 4 + k] = e[k]
  <2>1. n + 4 + k \in 1 .. (4 + n) + 3 /\ ~(n + 4 + k <= 4 + n) /\ (n + 4 + k) - (4 + n) = k
        OBVIOUS
  <2> QED BY <1>11, <2>1
<1>15. x[n + 5] = s5 /\ x[n + 6] = s6 /\ x[n + 7] = s7
  <2>1. n + 4 + 1 = n + 5 /\ n + 4 + 2 = n + 6 /\ n + 4 + 3 = n + 7 /\ 1 \in 1 .. 3 /\ 2 \in 1 .. 3 /\ 3 \in 1 .. 3
        OBVIOUS
  <2>2. x[n + 4 + 1] = s5 /\ x[n + 4 + 2] = s6 /\ x[n + 4 + 3] = s7
        BY <1>7, <1>14, <2>1
  <2> QED BY <2>1, <2>2
<1>16. x[1] = s1 /\ x[2] = s2 /\ x[3] = s3 /\ x[4] = s4
      BY <1>6, <1>12
<1>17. \A j \in 1 .. n : x[4 + j] = DataSym(i, j, f)
      BY <1>2, <1>13
<1>18. x \in Seq(Symbol) /\ Len(x) = n + 7
  <2>1. Member(i, n, f) \in Seq(Symbol)
        BY MemberType
  <2>2. (4 + n) + 3 = n + 7
        OBVIOUS
  <2> QED BY <1>10, <1>11, <2>1, <2>2
<1> QED BY <1>1, <1>10, <1>15, <1>16, <1>17, <1>18

\* One member after the other.
LEMMA FirstMembersStep ==
    ASSUME NEW ct \in Contents, NEW i \in 1 .. Len(ct.members)
    PROVE  /\ FirstMembers(ct, i - 1) \in Seq(Symbol) /\ FirstMembers(ct, i) \in Seq(Symbol)
           /\ MemberOf(ct, i) \in Seq(Symbol) /\ Len(MemberOf(ct, i)) = ct.members[i] + 7
           /\ FirstMembers(ct, i) = FirstMembers(ct, i - 1) \o MemberOf(ct, i)
           /\ Len(FirstMembers(ct, i)) = Len(FirstMembers(ct, i - 1)) + ct.members[i] + 7
<1>1. i \in Nat /\ i - 1 \in Nat /\ Len(ct.members) \in Nat
      BY ContentType
<1>2. ASSUME NEW j \in 1 .. i PROVE MemberOf(ct, j) \in Seq(Symbol) /\ Len(MemberOf(ct, j)) = ct.members[j] + 7
  <2>1. j \in Nat /\ j \in 1 .. Len(ct.members)
        BY <1>1
  <2>2. ct.members[j] \in Nat
        BY <2>1, ContentType
  <2>3. PICK f : f = FaultOf(ct, j)
        OBVIOUS
  <2>4. PICK n \in Nat : n = ct.members[j]
        BY <2>2
  <2>5. Member(j, n, f) \in Seq(Symbol)
        BY <2>1, MemberType
  <2>6. Len(Member(j, n, f)) = n + 7
        BY <2>1, MemberAt
  <2> QED BY <2>3, <2>4, <2>5, <2>6 DEF MemberOf
<1>3. PICK tt : tt = [j \in 1 .. i |-> MemberOf(ct, j)]
      OBVIOUS
<1>4. PICK ss : ss = [j \in 1 .. i - 1 |-> MemberOf(ct, j)]
      OBVIOUS
<1>5. tt \in Seq(Seq(Symbol)) /\ Len(tt) = i
  <2>1. tt \in [1 .. i -> Seq(Symbol)]
        BY <1>2, <1>3
  <2> QED BY <1>1, <2>1, SeqDef, LenProperties
<1>6. ss \in Seq(Seq(Symbol)) /\ Len(ss) = i - 1
  <2>1. \A j \in 1 .. i - 1 : j \in 1 .. i
        BY <1>1
  <2>2. ss \in [1 .. i - 1 -> Seq(Symbol)]
        BY <1>2, <1>4, <2>1
  <2> QED BY <1>1, <2>2, SeqDef, LenProperties
<1>7. \A j \in 1 .. Len(ss) : tt[j] = ss[j]
  <2>1. \A j \in 1 .. i - 1 : j \in 1 .. i
        BY <1>1
  <2> QED BY <1>3, <1>4, <1>6, <2>1
<1>8. Len(tt) = Len(ss) + 1 /\ i \in 1 .. i
      BY <1>1, <1>5, <1>6
<1>9. FlattenSeq(tt) = FlattenSeq(ss) \o tt[i]
      BY <1>5, <1>6, <1>7, <1>8, FlattenStep
<1>10. FlattenSeq(tt) \in Seq(Symbol) /\ FlattenSeq(ss) \in Seq(Symbol)
      BY <1>5, <1>6, FlattenType
<1>11. FirstMembers(ct, i) = FlattenSeq(tt) /\ FirstMembers(ct, i - 1) = FlattenSeq(ss) /\ tt[i] = MemberOf(ct, i)
      BY <1>3, <1>4, <1>8 DEF FirstMembers
<1>12. MemberOf(ct, i) \in Seq(Symbol) /\ Len(MemberOf(ct, i)) = ct.members[i] + 7
      BY <1>2, <1>8
<1>13. PICK a \in Seq(Symbol), b \in Seq(Symbol) : a = FirstMembers(ct, i - 1) /\ b = MemberOf(ct, i)
      BY <1>10, <1>11, <1>12
<1>14. Len(a \o b) = Len(a) + Len(b) /\ Len(a) \in Nat
      BY ConcatProperties, LenProperties
<1>15. ct.members[i] \in Nat
      BY ContentType
<1>16. Len(FirstMembers(ct, i)) = Len(FirstMembers(ct, i - 1)) + ct.members[i] + 7
  <2>1. PICK p \in Nat, n \in Nat : p = Len(a) /\ n = ct.members[i]
        BY <1>14, <1>15
  <2>0. Len(b) = n + 7
        BY <1>12, <1>13, <2>1
  <2>2. Len(a \o b) = p + n + 7
        BY <1>14, <2>0, <2>1
  <2>3. FirstMembers(ct, i) = a \o b
        BY <1>9, <1>11, <1>13
  <2> QED BY <1>13, <2>1, <2>2, <2>3
<1> QED BY <1>9, <1>10, <1>11, <1>12, <1>16

LEMMA FirstMembersType ==
    ASSUME NEW ct \in Contents, NEW n \in 0 .. Len(ct.members)
    PROVE  /\ FirstMembers(ct, n) \in Seq(Symbol) /\ Len(FirstMembers(ct, n)) \in Nat
           /\ n = 0 => FirstMembers(ct, n) = <<>> /\ Len(FirstMembers(ct, n)) = 0
<1>1. Len(ct.members) \in Nat
      BY ContentType
<1>2. CASE n = 0
  <2>1. PICK e : e = [i \in 1 .. 0 |-> MemberOf(ct, i)]
        OBVIOUS
  <2>2. 1 .. 0 = {}
        OBVIOUS
  <2>3. e \in Seq(Symbol) /\ Len(e) = 0
    <3>1. e \in [1 .. 0 -> Symbol]
          BY <2>1, <2>2
    <3> QED BY <3>1, SeqDef, LenProperties
  <2>4. FlattenSeq(e) = e /\ e = <<>>
        BY <2>3, EmptySeq DEF FlattenSeq
  <2>5. FirstMembers(ct, n) = <<>>
        BY <1>2, <2>1, <2>4 DEF FirstMembers
  <2> QED BY <1>2, <2>5, EmptySeq
<1>3. CASE n # 0
  <2>1. n \in 1 .. Len(ct.members)
        BY <1>1, <1>3
  <2>2. FirstMembers(ct, n) \in Seq(Symbol)
        BY <2>1, FirstMembersStep
  <2> QED BY <1>3, <2>2, LenProperties
<1> QED BY <1>2, <1>3

\* The first members are at the beginning of all of them.
LEMMA MembersPrefix ==
    ASSUME NEW ct \in Contents, NEW i \in 0 .. Len(ct.members), NEW n \in i .. Len(ct.members)
    PROVE  /\ Len(FirstMembers(ct, i)) <= Len(FirstMembers(ct, n))
           /\ \A p \in 1 .. Len(FirstMembers(ct, i)) : FirstMembers(ct, n)[p] = FirstMembers(ct, i)[p]
<1> DEFINE z == Len(FirstMembers(ct, i))
           Good(k) == z <= Len(FirstMembers(ct, k)) /\ \A p \in 1 .. z : FirstMembers(ct, k)[p] = FirstMembers(ct, i)[p]
           bad == {k \in i .. Len(ct.members) : ~Good(k)}
<1>0. Len(ct.members) \in Nat /\ i \in Nat /\ n \in Nat /\ z \in Nat
      BY ContentType, FirstMembersType
<1> SUFFICES ASSUME bad # {} PROVE FALSE
  <2>1. bad = {} => Good(n)
        OBVIOUS
  <2> QED BY <2>1
<1>1. PICK k \in bad : \A j \in bad : k <= j
  <2>1. bad \subseteq Nat
        BY <1>0
  <2> HIDE DEF bad
  <2>2. Min(bad) \in bad /\ \A y \in bad : Min(bad) <= y
        BY <2>1, LeastPlace
  <2> QED BY <2>2
<1>2. k # i
  <2>1. Good(i)
        BY <1>0
  <2> QED BY <1>1, <2>1
<1>3. /\ k \in Nat /\ k \in 1 .. Len(ct.members) /\ k - 1 \in i .. Len(ct.members) /\ ~(k <= k - 1)
      /\ k - 1 \in 0 .. Len(ct.members)
      BY <1>0, <1>1, <1>2
<1>4. Good(k - 1)
      BY <1>1, <1>3
<1>5. PICK a \in Seq(Symbol), b \in Seq(Symbol) :
         a = FirstMembers(ct, k - 1) /\ b = MemberOf(ct, k) /\ FirstMembers(ct, k) = a \o b
      BY <1>3, FirstMembersStep
<1>6. /\ Len(a \o b) = Len(a) + Len(b) /\ Len(a) \in Nat /\ Len(b) \in Nat
      /\ \A p \in 1 .. Len(a) + Len(b) : (a \o b)[p] = IF p <= Len(a) THEN a[p] ELSE b[p - Len(a)]
      BY ConcatProperties, LenProperties
<1>7. z <= Len(a) /\ \A p \in 1 .. z : a[p] = FirstMembers(ct, i)[p]
      BY <1>4, <1>5
<1>8. z <= Len(a \o b)
      BY <1>0, <1>6, <1>7
<1>9. ASSUME NEW p \in 1 .. z PROVE (a \o b)[p] = FirstMembers(ct, i)[p]
  <2>1. p \in 1 .. Len(a) + Len(b) /\ p <= Len(a)
        BY <1>0, <1>6, <1>7
  <2> QED BY <1>6, <1>7, <2>1
<1>10. Good(k)
      BY <1>5, <1>8, <1>9
<1> QED BY <1>1, <1>10

\* The file: the members without what was cut off, then the junk.
LEMMA FilePoints ==
    ASSUME NEW ct \in Contents, NEW n \in Nat, n = Len(ct.members), NEW z \in Nat, z = Len(FirstMembers(ct, n))
    PROVE  /\ ct.cut <= z /\ Len(FileOf(ct)) = z - ct.cut + ct.junk
           /\ \A p \in 1 .. z - ct.cut : FileOf(ct)[p] = FirstMembers(ct, n)[p]
           /\ \A j \in 1 .. ct.junk : FileOf(ct)[z + j] = Sym("junk", <<<<n + 1, j>>>>)
           /\ n # 0 => ct.cut <= 7 + ct.members[n]
<1>1. PICK c \in Nat, u \in Nat : c = ct.cut /\ u = ct.junk /\ (c = 0 \/ u = 0)
      BY ContentType
<1>2. c <= z /\ (n # 0 => c <= 7 + ct.members[n])
  <2>1. CASE n = 0
    <3>1. ct.cut = 0
          BY <2>1, ContentType
    <3> QED BY <1>1, <2>1, <3>1
  <2>2. CASE n # 0
    <3>1. n \in 1 .. n /\ n - 1 \in 0 .. n
          BY <2>2
    <3>2. PICK k \in Nat, l \in Nat : k = ct.members[n] /\ l = Len(FirstMembers(ct, n - 1))
          BY <3>1, ContentType, FirstMembersType
    <3>3. z = l + k + 7
          BY <3>1, <3>2, FirstMembersStep
    <3>4. c <= 7 + k
          BY <1>1, <2>2, <3>2, ContentType
    <3> QED BY <3>2, <3>3, <3>4, SMTT(30)
  <2> QED BY <2>1, <2>2
<1>3. PICK all \in Seq(Symbol) : all = FirstMembers(ct, n) /\ Len(all) = z
  <2>1. n \in 0 .. n
        OBVIOUS
  <2> QED BY <2>1, FirstMembersType
<1>4. PICK y \in Nat : y = z - c /\ y <= z
  <2>1. z - c \in Nat /\ z - c <= z
        BY <1>2
  <2> QED BY <2>1
<1>5. PICK head \in Seq(Symbol) : /\ head = SubSeq(all, 1, y) /\ Len(head) = y
                                  /\ \A p \in 1 .. y : head[p] = all[p]
  <2>1. \A p \in 1 .. y : p \in 1 .. z
        BY <1>4
  <2>2. \A p \in 1 .. y : all[p] \in Symbol
        BY <1>3, <2>1, ElementOfSeq
  <2>3. /\ SubSeq(all, 1, y) \in Seq(Symbol)
        /\ Len(SubSeq(all, 1, y)) = IF 1 <= y THEN y - 1 + 1 ELSE 0
        /\ \A p \in 1 .. y - 1 + 1 : SubSeq(all, 1, y)[p] = all[1 + p - 1]
        BY <2>2, SubSeqProperties
  <2>4. y - 1 + 1 = y /\ (~(1 <= y) => y = 0) /\ \A p \in 1 .. y : 1 + p - 1 = p
        OBVIOUS
  <2>5. Len(SubSeq(all, 1, y)) = y /\ \A p \in 1 .. y : SubSeq(all, 1, y)[p] = all[p]
        BY <2>3, <2>4
  <2> QED BY <2>3, <2>5
<1>6. PICK tail : tail = [j \in 1 .. u |-> Sym("junk", <<<<n + 1, j>>>>)]
      OBVIOUS
<1>7. tail \in Seq(Symbol) /\ Len(tail) = u
  <2>1. ASSUME NEW j \in 1 .. u PROVE Sym("junk", <<<<n + 1, j>>>>) \in Symbol
    <3>1. <<n + 1, j>> \in Val
          BY DEF Val
    <3>2. <<<<n + 1, j>>>> \in Seq(Val)
          BY <3>1, OneVal
    <3> QED BY <3>2, SymType DEF Kinds
  <2>2. tail \in [1 .. u -> Symbol]
        BY <1>6, <2>1
  <2> QED BY <2>2, SeqDef, LenProperties
<1>8. FileOf(ct) = head \o tail
  <2>1. PICK ms : ms = [i \in 1 .. n |-> Member(i, ct.members[i], IF i = n THEN ct.fault ELSE "none")]
        OBVIOUS
  <2>2. FirstMembers(ct, n) = FlattenSeq(ms)
    <3>1. [i \in 1 .. n |-> MemberOf(ct, i)] = ms
          BY <2>1 DEF MemberOf, FaultOf
    <3> QED BY <3>1 DEF FirstMembers
  <2>3. FileOf(ct) = SubSeq(FlattenSeq(ms), 1, Len(FlattenSeq(ms)) - c) \o tail
        BY <1>1, <1>6, <2>1 DEF FileOf
  <2> QED BY <1>3, <1>4, <1>5, <2>2, <2>3
<1>9. /\ Len(head \o tail) = y + u
      /\ \A p \in 1 .. y + u : (head \o tail)[p] = IF p <= y THEN head[p] ELSE tail[p - y]
  <2>1. /\ Len(head \o tail) = Len(head) + Len(tail)
        /\ \A p \in 1 .. Len(head) + Len(tail) :
              (head \o tail)[p] = IF p <= Len(head) THEN head[p] ELSE tail[p - Len(head)]
        BY <1>7, ConcatProperties
  <2> QED BY <1>5, <1>7, <2>1
<1>10. ASSUME NEW p \in 1 .. y PROVE FileOf(ct)[p] = FirstMembers(ct, n)[p]
  <2>1. p \in 1 .. y + u /\ p <= y
        OBVIOUS
  <2> QED BY <1>3, <1>5, <1>8, <1>9, <2>1
<1>11. ASSUME NEW j \in 1 .. u PROVE FileOf(ct)[z + j] = Sym("junk", <<<<n + 1, j>>>>)
  <2>0. u # 0 /\ c = 0
        BY <1>1
  <2>1. z = y /\ z + j \in 1 .. y + u /\ ~(z + j <= y) /\ (z + j) - y = j
        BY <1>4, <2>0
  <2> QED BY <1>6, <1>8, <1>9, <2>1
<1>12. Len(FileOf(ct)) = z - c + u
      BY <1>4, <1>8, <1>9
<1> QED BY <1>1, <1>2, <1>4, <1>10, <1>11, <1>12

\* How many symbols the first i members of the file have, and the length of member i.
MemberCount == Len(content.members)
Base(i) == Len(FirstMembers(content, i))
Length(i) == content.members[i]

LEMMA BaseFacts ==
    ASSUME content \in Contents
    PROVE  /\ MemberCount \in Nat /\ Base(0) = 0
           /\ \A i \in 0 .. MemberCount : Base(i) \in Nat /\ Base(i) <= Base(MemberCount)
           /\ \A i \in 1 .. MemberCount : /\ Length(i) \in Nat /\ Base(i - 1) \in Nat
                                          /\ Base(i) = Base(i - 1) + Length(i) + 7
<1>1. MemberCount \in Nat /\ 0 \in 0 .. MemberCount
      BY ContentType DEF MemberCount
<1>2. Base(0) = 0 /\ \A i \in 0 .. MemberCount : Base(i) \in Nat
      BY <1>1, FirstMembersType DEF MemberCount, Base
<1>3. ASSUME NEW i \in 0 .. MemberCount PROVE Base(i) <= Base(MemberCount)
  <2>1. MemberCount \in i .. MemberCount
        BY <1>1
  <2> QED BY <2>1, MembersPrefix DEF MemberCount, Base
<1>4. ASSUME NEW i \in 1 .. MemberCount
      PROVE  Length(i) \in Nat /\ Base(i - 1) \in Nat /\ Base(i) = Base(i - 1) + Length(i) + 7
  <2>1. i - 1 \in 0 .. MemberCount
        BY <1>1
  <2>2. Length(i) \in Nat
        BY ContentType DEF Length, MemberCount
  <2>3. Base(i) = Base(i - 1) + Length(i) + 7
        BY FirstMembersStep DEF Base, Length, MemberCount
  <2> QED BY <1>2, <2>1, <2>2, <2>3
<1> QED BY <1>1, <1>2, <1>3, <1>4

\* What is where in the file.
LEMMA FileFacts ==
    ASSUME content \in Contents
    PROVE  /\ Len(file) \in Nat /\ content.cut \in Nat /\ content.junk \in Nat
           /\ content.cut <= Base(MemberCount)
           /\ Len(file) = Base(MemberCount) - content.cut + content.junk
           /\ content.cut = 0 \/ (content.junk = 0 /\ content.fault = "none")
           /\ MemberCount = 0 => content.cut = 0 /\ content.fault = "none"
           /\ MemberCount # 0 => content.cut <= 7 + Length(MemberCount)
           /\ \A j \in 1 .. content.junk : file[Base(MemberCount) + j] = Sym("junk", <<<<MemberCount + 1, j>>>>)
<1>1. MemberCount \in Nat /\ MemberCount \in 0 .. MemberCount
      BY BaseFacts
<1>2. Base(MemberCount) \in Nat
      BY <1>1, BaseFacts
<1>3. PICK n \in Nat, z \in Nat : n = MemberCount /\ z = Base(MemberCount)
      BY <1>1, <1>2
<1>4. n = Len(content.members) /\ z = Len(FirstMembers(content, n))
      BY <1>3 DEF MemberCount, Base
<1>5. /\ content.cut <= z /\ Len(file) = z - content.cut + content.junk
      /\ \A j \in 1 .. content.junk : file[z + j] = Sym("junk", <<<<n + 1, j>>>>)
      /\ n # 0 => content.cut <= 7 + content.members[n]
      BY <1>4, FilePoints DEF file
<1>6. /\ content.cut \in Nat /\ content.junk \in Nat
      /\ content.cut = 0 \/ (content.junk = 0 /\ content.fault = "none")
      /\ n = 0 => content.cut = 0 /\ content.fault = "none"
      BY <1>4, ContentType
<1>7. Len(file) \in Nat
      BY <1>5, <1>6
<1> QED BY <1>3, <1>5, <1>6, <1>7 DEF Length

\* A symbol of a member.
LEMMA FileMember ==
    ASSUME content \in Contents, NEW i \in 1 .. MemberCount, NEW p \in 1 .. Length(i) + 7,
           Base(i - 1) + p <= Len(file)
    PROVE  file[Base(i - 1) + p] = MemberOf(content, i)[p]
<1>1. MemberCount \in Nat /\ Base(MemberCount) \in Nat
  <2>1. MemberCount \in Nat /\ MemberCount \in 0 .. MemberCount
        BY BaseFacts
  <2> QED BY <2>1, BaseFacts
<1>2. PICK n \in Nat, z \in Nat : n = MemberCount /\ z = Base(MemberCount)
      BY <1>1
<1>3. n = Len(content.members) /\ z = Len(FirstMembers(content, n))
      BY <1>2 DEF MemberCount, Base
<1>4. PICK b \in Nat, l \in Nat : b = Base(i - 1) /\ l = Length(i)
      BY BaseFacts
<1>5. Base(i) = b + l + 7 /\ Base(i) <= z /\ p \in Nat /\ 1 <= p /\ p <= l + 7
  <2>1. i \in 0 .. MemberCount
        BY <1>1
  <2> QED BY <1>2, <1>4, <2>1, BaseFacts
<1>6. PICK c \in Nat, u \in Nat : c = content.cut /\ u = content.junk /\ (c = 0 \/ u = 0)
      BY ContentType
<1>7. Len(file) = z - c + u
      BY <1>2, <1>6, FileFacts
<1>8. b + p \in 1 .. z - c
  <2>0. b + l + 7 <= z
        BY <1>5
  <2>3. b + p <= z
        BY <1>5, <2>0
  <2>1. b + p <= z - c + u
        BY <1>4, <1>7
  <2>2. CASE c = 0
        BY <1>5, <2>3, <2>2
  <2>4. CASE u = 0
        BY <1>5, <2>1, <2>4
  <2> QED BY <1>6, <2>2, <2>4
<1>9. file[b + p] = FirstMembers(content, n)[b + p]
      BY <1>3, <1>6, <1>8, FilePoints, SMTT(30) DEF file
<1>10. FirstMembers(content, n)[b + p] = FirstMembers(content, i)[b + p]
  <2>1. b + p \in 1 .. Base(i)
        BY <1>5
  <2>2. i \in 0 .. Len(content.members) /\ n \in i .. Len(content.members)
        BY <1>2, <1>3
  <2> QED BY <2>1, <2>2, MembersPrefix DEF Base
<1>11. FirstMembers(content, i)[b + p] = MemberOf(content, i)[p]
  <2>1. PICK x \in Seq(Symbol), y \in Seq(Symbol) :
           /\ x = FirstMembers(content, i - 1) /\ y = MemberOf(content, i) /\ FirstMembers(content, i) = x \o y
           /\ Len(y) = l + 7
        BY <1>4, FirstMembersStep DEF MemberCount, Length
  <2>2. Len(x) = b
        BY <1>4, <2>1 DEF Base
  <2>3. \A k \in 1 .. Len(x) + Len(y) : (x \o y)[k] = IF k <= Len(x) THEN x[k] ELSE y[k - Len(x)]
        BY ConcatProperties
  <2>4. b + p \in 1 .. b + (l + 7) /\ ~(b + p <= b) /\ (b + p) - b = p
        BY <1>5
  <2> QED BY <2>1, <2>2, <2>3, <2>4
<1> QED BY <1>4, <1>9, <1>10, <1>11

----------------------------------------------------------------------------
(* The data *)

LEMMA UnitsIs ==
    ASSUME NEW i \in Nat, NEW d \in Nat
    PROVE  /\ Units(i, d) \in Seq(Val) /\ Len(Units(i, d)) = d
           /\ \A j \in 1 .. d : Units(i, d)[j] = <<i, j>>
<1>1. \A j \in 1 .. d : <<i, j>> \in Val
      BY DEF Val
<1>2. Units(i, d) \in [1 .. d -> Val]
      BY <1>1 DEF Units
<1>3. Units(i, d) \in Seq(Val)
      BY <1>2, SeqDef
<1>4. Len(Units(i, d)) = d
      BY <1>2, <1>3, LenProperties
<1> QED BY <1>3, <1>4 DEF Units

LEMMA UnitsEmpty ==
    ASSUME NEW i \in Nat
    PROVE  Units(i, 0) = <<>>
BY UnitsIs, EmptySeq

\* The units after d, up to l.
LEMMA UnitsSplit ==
    ASSUME NEW i \in Nat, NEW d \in Nat, NEW l \in Nat, d <= l
    PROVE  \E u \in Seq(Val) : Units(i, l) = Units(i, d) \o u /\ (l = d + 1 => u = <<<<i, l>>>>)
<1>1. PICK k \in Nat : k = l - d
      OBVIOUS
<1>2. PICK u : u = [j \in 1 .. k |-> <<i, d + j>>]
      OBVIOUS
<1>3. u \in Seq(Val) /\ Len(u) = k
  <2>1. \A j \in 1 .. k : <<i, d + j>> \in Val
        BY DEF Val
  <2>2. u \in [1 .. k -> Val]
        BY <1>2, <2>1
  <2> QED BY <2>2, SeqDef, LenProperties
<1>4. PICK a \in Seq(Val), b \in Seq(Val) :
         /\ a = Units(i, d) /\ b = Units(i, l) /\ Len(a) = d /\ Len(b) = l
         /\ \A j \in 1 .. d : a[j] = <<i, j>>
         /\ \A j \in 1 .. l : b[j] = <<i, j>>
      BY UnitsIs
<1>5. /\ a \o u \in Seq(Val) /\ Len(a \o u) = d + k
      /\ \A j \in 1 .. d + k : (a \o u)[j] = IF j <= d THEN a[j] ELSE u[j - d]
  <2>1. /\ a \o u \in Seq(Val) /\ Len(a \o u) = Len(a) + Len(u)
        /\ \A j \in 1 .. Len(a) + Len(u) : (a \o u)[j] = IF j <= Len(a) THEN a[j] ELSE u[j - Len(a)]
        BY <1>3, ConcatProperties
  <2> QED BY <1>3, <1>4, <2>1
<1>6. ASSUME NEW j \in 1 .. l PROVE (a \o u)[j] = b[j]
  <2>1. j \in 1 .. d + k
        BY <1>1
  <2>2. CASE j <= d
    <3>1. (a \o u)[j] = a[j] /\ j \in 1 .. d
          BY <1>5, <2>1, <2>2
    <3> QED BY <1>4, <3>1
  <2>3. CASE ~(j <= d)
    <3>1. j - d \in 1 .. k /\ d + (j - d) = j
          BY <1>1, <2>3
    <3>2. u[j - d] = <<i, j>>
          BY <1>2, <3>1
    <3>3. (a \o u)[j] = u[j - d]
          BY <1>5, <2>1, <2>3
    <3> QED BY <1>4, <3>2, <3>3
  <2> QED BY <2>2, <2>3
<1>7. d + k = l
      BY <1>1
<1>8. b = a \o u
      BY <1>4, <1>5, <1>6, <1>7, SeqEqual
<1>9. l = d + 1 => u = <<<<i, l>>>>
  <2> SUFFICES ASSUME l = d + 1 PROVE u = <<<<i, l>>>>
      OBVIOUS
  <2>1. k = 1 /\ u[1] = <<i, l>>
        BY <1>1, <1>2
  <2>2. <<i, l>> \in Val
        BY DEF Val
  <2>3. PICK v \in Seq(Val) : v = <<<<i, l>>>> /\ Len(v) = 1 /\ v[1] = <<i, l>>
    <3>1. <<<<i, l>>>> \in Seq(Val) /\ Len(<<<<i, l>>>>) = 1
          BY <2>2, OneVal
    <3> QED BY <3>1
  <2>4. \A j \in 1 .. 1 : u[j] = v[j]
        BY <2>1, <2>3
  <2> QED BY <1>3, <2>1, <2>3, <2>4, SeqEqual
<1> QED BY <1>3, <1>4, <1>8, <1>9

\* The data of one more member.
LEMMA DataStep ==
    ASSUME content \in Contents, NEW i \in 1 .. MemberCount
    PROVE  /\ DataUpTo(i - 1) \in Seq(Val) /\ DataUpTo(i) \in Seq(Val) /\ Units(i, Length(i)) \in Seq(Val)
           /\ DataUpTo(i) = DataUpTo(i - 1) \o Units(i, Length(i))
<1>1. i \in Nat /\ i - 1 \in Nat /\ MemberCount \in Nat
      BY BaseFacts
<1>2. ASSUME NEW j \in 1 .. i PROVE Units(j, content.members[j]) \in Seq(Val)
  <2>1. j \in Nat /\ j \in 1 .. MemberCount
        BY <1>1
  <2>2. content.members[j] \in Nat
        BY <2>1, BaseFacts DEF Length
  <2> QED BY <2>1, <2>2, UnitsIs
<1>3. PICK tt : tt = [j \in 1 .. i |-> Units(j, content.members[j])]
      OBVIOUS
<1>4. PICK ss : ss = [j \in 1 .. i - 1 |-> Units(j, content.members[j])]
      OBVIOUS
<1>5. tt \in Seq(Seq(Val)) /\ Len(tt) = i
  <2>1. tt \in [1 .. i -> Seq(Val)]
        BY <1>2, <1>3
  <2> QED BY <1>1, <2>1, SeqDef, LenProperties
<1>6. ss \in Seq(Seq(Val)) /\ Len(ss) = i - 1
  <2>1. \A j \in 1 .. i - 1 : j \in 1 .. i
        BY <1>1
  <2>2. ss \in [1 .. i - 1 -> Seq(Val)]
        BY <1>2, <1>4, <2>1
  <2> QED BY <1>1, <2>2, SeqDef, LenProperties
<1>7. \A j \in 1 .. Len(ss) : tt[j] = ss[j]
  <2>1. \A j \in 1 .. i - 1 : j \in 1 .. i
        BY <1>1
  <2> QED BY <1>3, <1>4, <1>6, <2>1
<1>8. Len(tt) = Len(ss) + 1 /\ i \in 1 .. i
      BY <1>1, <1>5, <1>6
<1>9. FlattenSeq(tt) = FlattenSeq(ss) \o tt[i]
      BY <1>5, <1>6, <1>7, <1>8, FlattenStep
<1>10. FlattenSeq(tt) \in Seq(Val) /\ FlattenSeq(ss) \in Seq(Val)
      BY <1>5, <1>6, FlattenType
<1>11. DataUpTo(i) = FlattenSeq(tt) /\ DataUpTo(i - 1) = FlattenSeq(ss) /\ tt[i] = Units(i, Length(i))
      BY <1>3, <1>4, <1>8 DEF DataUpTo, Length
<1> QED BY <1>2, <1>8, <1>9, <1>10, <1>11 DEF Length

LEMMA DataType ==
    ASSUME content \in Contents, NEW i \in 0 .. MemberCount
    PROVE  DataUpTo(i) \in Seq(Val) /\ (i = 0 => DataUpTo(i) = <<>>)
<1>1. CASE i = 0
  <2>1. PICK e : e = [j \in 1 .. 0 |-> Units(j, content.members[j])]
        OBVIOUS
  <2>2. 1 .. 0 = {}
        OBVIOUS
  <2>3. e \in Seq(Val) /\ Len(e) = 0
    <3>1. e \in [1 .. 0 -> Val]
          BY <2>1, <2>2
    <3> QED BY <3>1, SeqDef, LenProperties
  <2>4. FlattenSeq(e) = e /\ e = <<>>
        BY <2>3, EmptySeq DEF FlattenSeq
  <2>5. DataUpTo(i) = <<>>
        BY <1>1, <2>1, <2>4 DEF DataUpTo
  <2> QED BY <1>1, <2>5, EmptySeq
<1>2. CASE i # 0
  <2>1. i \in 1 .. MemberCount
        BY <1>2, BaseFacts
  <2> QED BY <1>2, <2>1, DataStep
<1> QED BY <1>1, <1>2

\* t starts with s.
Starts(s, t) == \E u \in Seq(Val) : t = s \o u

LEMMA StartsIsPrefix ==
    ASSUME NEW s \in Seq(Val), NEW t \in Seq(Val), Starts(s, t)
    PROVE  IsPrefix(s, t)
<1>1. PICK u \in Seq(Val) : t = s \o u
      BY DEF Starts
<1>2. PICK n \in Nat, k \in Nat : n = Len(s) /\ k = Len(u)
      BY LenProperties
<1>3. Len(t) = n + k /\ \A j \in 1 .. n + k : t[j] = IF j <= n THEN s[j] ELSE u[j - n]
      BY <1>1, <1>2, ConcatProperties
<1>4. SubSeq(s, 1, n) = SubSeq(t, 1, n)
  <2>1. \A j \in 1 .. n : s[j] \in Val /\ s[j] = t[j]
    <3>1. \A j \in 1 .. n : j \in 1 .. n + k /\ j <= n
          OBVIOUS
    <3> QED BY <1>2, <1>3, <3>1, ElementOfSeq
  <2>2. \A j \in 1 .. n : s[1 + j - 1] = t[0 + j]
    <3>1. \A j \in 1 .. n : 1 + j - 1 = j /\ 0 + j = j
          OBVIOUS
    <3> QED BY <2>1, <3>1
  <2>3. 1 + n <= Len(s) + 1 /\ 0 + n <= Len(t) /\ 1 > 0
        BY <1>2, <1>3
  <2>4. SubSeq(s, 1, 1 + n - 1) = SubSeq(t, 0 + 1, 0 + n)
        BY <2>2, <2>3, SamePart
  <2>5. 1 + n - 1 = n /\ 0 + n = n /\ 0 + 1 = 1
        OBVIOUS
  <2> QED BY <2>4, <2>5
<1>5. Len(s) <= Len(t)
      BY <1>2, <1>3
<1> QED BY <1>2, <1>4, <1>5 DEF IsPrefix

LEMMA StartsChain ==
    ASSUME NEW r \in Seq(Val), NEW s \in Seq(Val), NEW t \in Seq(Val), Starts(r, s), Starts(s, t)
    PROVE  Starts(r, t)
<1>1. PICK u \in Seq(Val) : s = r \o u
      BY DEF Starts
<1>2. PICK v \in Seq(Val) : t = s \o v
      BY DEF Starts
<1>3. t = r \o (u \o v) /\ u \o v \in Seq(Val)
      BY <1>1, <1>2, ConcatAssociative, ConcatProperties
<1> QED BY <1>3 DEF Starts

LEMMA StartsSelf ==
    ASSUME NEW s \in Seq(Val)
    PROVE  Starts(s, s)
<1>1. s = s \o <<>> /\ <<>> \in Seq(Val)
      BY ConcatEmptySeq, EmptySeq
<1> QED BY <1>1 DEF Starts

\* The data of the first members is at the beginning of all of it.
LEMMA DataStarts ==
    ASSUME content \in Contents, NEW i \in 0 .. MemberCount, NEW n \in i .. MemberCount
    PROVE  Starts(DataUpTo(i), DataUpTo(n))
<1> DEFINE bad == {k \in i .. MemberCount : ~Starts(DataUpTo(i), DataUpTo(k))}
<1>0. MemberCount \in Nat /\ i \in Nat /\ n \in Nat
      BY BaseFacts
<1> SUFFICES ASSUME bad # {} PROVE FALSE
  <2>1. bad = {} => Starts(DataUpTo(i), DataUpTo(n))
        OBVIOUS
  <2> QED BY <2>1
<1>1. PICK k \in bad : \A j \in bad : k <= j
  <2>1. bad \subseteq Nat
        BY <1>0
  <2> HIDE DEF bad
  <2>2. Min(bad) \in bad /\ \A y \in bad : Min(bad) <= y
        BY <2>1, LeastPlace
  <2> QED BY <2>2
<1>2. k # i
  <2>1. Starts(DataUpTo(i), DataUpTo(i))
        BY DataType, StartsSelf
  <2> QED BY <1>1, <2>1
<1>3. /\ k \in 1 .. MemberCount /\ k - 1 \in i .. MemberCount /\ ~(k <= k - 1)
      /\ k - 1 \in 0 .. MemberCount
      BY <1>0, <1>1, <1>2
<1>4. Starts(DataUpTo(i), DataUpTo(k - 1))
      BY <1>1, <1>3
<1>5. Starts(DataUpTo(k - 1), DataUpTo(k)) /\ DataUpTo(k - 1) \in Seq(Val) /\ DataUpTo(k) \in Seq(Val)
      BY <1>3, DataStep DEF Starts
<1>6. Starts(DataUpTo(i), DataUpTo(k))
      BY <1>4, <1>5, DataType, StartsChain
<1> QED BY <1>1, <1>6

----------------------------------------------------------------------------
(* The list of threads *)

ThreadsOK == threads \in Seq([id : HelperIds, done : BOOLEAN])

LEMMA WithoutKeeps ==
    ASSUME ThreadsOK, NEW t \in Ids
    PROVE  /\ Without(t) \in Seq([id : HelperIds, done : BOOLEAN])
           /\ \A x \in Ids : x # t => \E j \in DOMAIN Without(t) : Without(t)[j].id = x
<1> DEFINE T == [id : HelperIds, done : BOOLEAN]
<1>1. threads \in Seq(T) /\ Len(threads) \in Nat /\ DOMAIN threads = 1 .. Len(threads)
      BY LenProperties DEF ThreadsOK
<1> HIDE DEF T
<1>2. PICK k \in DOMAIN threads : k = (CHOOSE i \in DOMAIN threads : threads[i].id = t) /\ threads[k].id = t
  <2>1. \E i \in DOMAIN threads : threads[i].id = t
        BY DEF Ids
  <2> QED BY <2>1
<1>3. PICK n \in Nat : n = Len(threads) /\ k \in 1 .. n
      BY <1>1, <1>2
<1>4. PICK q \in Seq(T) : /\ q = Without(t) /\ Len(q) = n - 1
                          /\ \A j \in 1 .. n - 1 : q[j] = IF j < k THEN threads[j] ELSE threads[j + 1]
  <2>1. /\ RemoveAt(threads, k) \in Seq(T) /\ Len(RemoveAt(threads, k)) = Len(threads) - 1
        /\ \A j \in 1 .. Len(threads) - 1 : RemoveAt(threads, k)[j] = IF j < k THEN threads[j] ELSE threads[j + 1]
        BY <1>1, <1>3, RemoveAtPoints
  <2>2. Without(t) = RemoveAt(threads, k)
        BY <1>2 DEF Without
  <2> QED BY <1>3, <2>1, <2>2
<1>5. DOMAIN q = 1 .. n - 1
      BY <1>4, LenProperties
<1>6. ASSUME NEW x \in Ids, x # t PROVE \E j \in DOMAIN q : q[j].id = x
  <2>1. PICK i \in 1 .. n : threads[i].id = x
        BY <1>1, <1>3 DEF Ids
  <2>2. i # k
        BY <1>2, <1>6, <2>1
  <2>3. CASE i < k
    <3>1. i \in 1 .. n - 1
          BY <1>3, <2>3
    <3> QED BY <1>4, <1>5, <2>1, <2>3, <3>1
  <2>4. CASE ~(i < k)
    <3>1. i - 1 \in 1 .. n - 1 /\ ~(i - 1 < k) /\ (i - 1) + 1 = i
          BY <1>3, <2>2, <2>4
    <3>2. q[i - 1] = threads[i]
          BY <1>4, <3>1
    <3> QED BY <1>5, <2>1, <3>1, <3>2
  <2> QED BY <2>3, <2>4
<1> QED BY <1>4, <1>6 DEF T

\* Something is put in front of a list.
LEMMA PutFirst ==
    ASSUME NEW T, NEW e \in T, NEW q \in Seq(T)
    PROVE  /\ <<e>> \o q \in Seq(T)
           /\ 1 \in DOMAIN (<<e>> \o q) /\ (<<e>> \o q)[1] = e
           /\ \A j \in DOMAIN q : j + 1 \in DOMAIN (<<e>> \o q) /\ (<<e>> \o q)[j + 1] = q[j]
<1>1. PICK a \in Seq(T) : a = <<e>> /\ Len(a) = 1 /\ a[1] = e
  <2>1. <<e>> \in Seq(T) /\ Len(<<e>>) = 1 /\ <<e>>[1] = e
        OBVIOUS
  <2> QED BY <2>1
<1>2. PICK n \in Nat : n = Len(q) /\ DOMAIN q = 1 .. n
      BY LenProperties
<1>3. /\ a \o q \in Seq(T) /\ Len(a \o q) = 1 + n
      /\ \A j \in 1 .. 1 + n : (a \o q)[j] = IF j <= 1 THEN a[j] ELSE q[j - 1]
      BY <1>1, <1>2, ConcatProperties
<1>4. DOMAIN (a \o q) = 1 .. 1 + n
      BY <1>3, LenProperties
<1>5. 1 \in 1 .. 1 + n /\ (a \o q)[1] = e
      BY <1>1, <1>2, <1>3
<1>6. ASSUME NEW j \in 1 .. n PROVE j + 1 \in 1 .. 1 + n /\ (a \o q)[j + 1] = q[j]
  <2>1. j + 1 \in 1 .. 1 + n /\ ~(j + 1 <= 1) /\ (j + 1) - 1 = j
        OBVIOUS
  <2> QED BY <1>3, <2>1
<1> QED BY <1>1, <1>2, <1>3, <1>4, <1>5, <1>6

LEMMA LaunchIds ==
    ASSUME ThreadsOK, NEW t \in HelperIds, Launch(t)
    PROVE  ThreadsOK' /\ t \in Ids' /\ \A x \in Ids : x \in Ids'
<1> DEFINE T == [id : HelperIds, done : BOOLEAN]
<1>1. PICK e \in T : e = [id |-> t, done |-> FALSE] /\ e.id = t
  <2>1. [id |-> t, done |-> FALSE] \in T /\ [id |-> t, done |-> FALSE].id = t
        OBVIOUS
  <2> QED BY <2>1
<1>2. threads' = <<e>> \o threads /\ threads \in Seq(T)
      BY <1>1 DEF Launch, ThreadsOK
<1> HIDE DEF T
<1>3. /\ threads' \in Seq(T) /\ 1 \in DOMAIN threads' /\ threads'[1] = e
      /\ \A j \in DOMAIN threads : j + 1 \in DOMAIN threads' /\ threads'[j + 1] = threads[j]
      BY <1>2, PutFirst
<1>4. t \in Ids'
      BY <1>1, <1>3 DEF Ids
<1>5. ASSUME NEW x \in Ids PROVE x \in Ids'
  <2>1. PICK j \in DOMAIN threads : threads[j].id = x
        BY DEF Ids
  <2>2. j + 1 \in DOMAIN threads' /\ threads'[j + 1].id = x
        BY <1>3, <2>1
  <2> QED BY <2>2 DEF Ids
<1> QED BY <1>3, <1>4, <1>5 DEF ThreadsOK, T

LEMMA ReenterIds ==
    ASSUME ThreadsOK, NEW t \in HelperIds, Reenter(t)
    PROVE  ThreadsOK' /\ \A x \in Ids : x \in Ids'
<1> DEFINE T == [id : HelperIds, done : BOOLEAN]
<1>1. PICK e \in T : e = [id |-> t, done |-> TRUE] /\ e.id = t
  <2>1. [id |-> t, done |-> TRUE] \in T /\ [id |-> t, done |-> TRUE].id = t
        OBVIOUS
  <2> QED BY <2>1
<1>2. threads' = <<e>> \o Without(t) /\ t \in Ids
      BY <1>1 DEF Reenter
<1>3. Without(t) \in Seq(T) /\ \A x \in Ids : x # t => \E j \in DOMAIN Without(t) : Without(t)[j].id = x
      BY <1>2, WithoutKeeps
<1> HIDE DEF T
<1>4. /\ threads' \in Seq(T) /\ 1 \in DOMAIN threads' /\ threads'[1] = e
      /\ \A j \in DOMAIN Without(t) : j + 1 \in DOMAIN threads' /\ threads'[j + 1] = Without(t)[j]
      BY <1>2, <1>3, PutFirst
<1>5. t \in Ids'
      BY <1>1, <1>4 DEF Ids
<1>6. ASSUME NEW x \in Ids, x # t PROVE x \in Ids'
  <2>1. PICK j \in DOMAIN Without(t) : Without(t)[j].id = x
        BY <1>3, <1>6
  <2>2. j + 1 \in DOMAIN threads' /\ threads'[j + 1].id = x
        BY <1>4, <2>1
  <2> QED BY <2>2 DEF Ids
<1> QED BY <1>4, <1>5, <1>6 DEF ThreadsOK, T

LEMMA JoinIds ==
    ASSUME ThreadsOK, NEW t, Join(t)
    PROVE  ThreadsOK' /\ \A x \in Ids : x # t => x \in Ids'
<1>1. threads' = Without(t) /\ t \in Ids
      BY DEF Join, Unlink
<1>2. /\ Without(t) \in Seq([id : HelperIds, done : BOOLEAN])
      /\ \A x \in Ids : x # t => \E j \in DOMAIN Without(t) : Without(t)[j].id = x
      BY <1>1, WithoutKeeps
<1> QED BY <1>1, <1>2 DEF ThreadsOK, Ids

----------------------------------------------------------------------------
(* The invariant of decompression *)

\* The copy of the window that an output thread has still to write or to check.
ToWrite == IF more.write = 1 THEN out_copy ELSE <<>>
ToCheck == IF more.check = 1 THEN out_copy ELSE <<>>

\* There are no output threads, and their locks are freed.
Freed == more.write = -1 /\ more.check = -1

\* What was written, what is to be written and the window are the data up to unit d of member i,
\* and the same for the check value.
Piped(i, d) ==
    /\ (output \o ToWrite) \o out_buf = DataUpTo(i - 1) \o Units(i, d)
    /\ (out_check \o ToCheck) \o out_buf = Units(i, d)
    /\ out_tot + Len(out_buf) = d
    /\ "write" \in Ids \/ Freed

\* Member i was written and checked.
Done(i) == output = DataUpTo(i) /\ out_check = Units(i, Length(i)) /\ out_tot = Length(i) /\ out_buf = <<>>

\* Member i is the last one and has bad data.
BadData(i) == i = MemberCount /\ content.fault = "data"

\* get_header for member i, or for what follows the last one
InHeader(i) ==
    /\ i > MemberCount => content.cut = 0 /\ content.fault = "none"
    /\ output = DataUpTo(i - 1) /\ out_buf = <<>> /\ Freed /\ (m.first <=> i = 1)
    /\ \/ m.pc = "magic1" /\ consumed = Base(i - 1)
       \/ m.pc = "magic2" /\ consumed = Base(i - 1) + 1 /\ m.magic1 = file[consumed]
       \/ m.pc = "head" /\ i <= MemberCount /\ consumed = Base(i - 1) + 2
       \/ m.pc = "name" /\ i <= MemberCount /\ consumed = Base(i - 1) + 3

\* inflateBack in member i, after unit d
InData(i, d) ==
    /\ m.pc \in {"inflate", "outb"} /\ consumed = Base(i - 1) + 4 + d
    /\ Piped(i, d) /\ (BadData(i) => d = 0)

\* the data of member i was decompressed: the rest of the window, and the end of the output threads
InFlush(i) ==
    /\ m.pc \in {"flush", "finish"} /\ consumed = Base(i - 1) + 5 + Length(i)
    /\ Piped(i, Length(i)) /\ ~BadData(i) /\ (m.pc = "finish" => out_buf = <<>>)

\* the output threads are joined
InJoin(i) ==
    /\ m.pc \in {"joincheck", "joinwrite"} /\ consumed = Base(i - 1) + 5 + Length(i)
    /\ Done(i) /\ ~BadData(i) /\ out_copy = <<>>

\* the trailer of member i
InTrailer(i) ==
    /\ Done(i) /\ ~BadData(i) /\ Freed
    /\ \/ m.pc = "check" /\ consumed = Base(i - 1) + 5 + Length(i)
       \/ m.pc = "len" /\ consumed = Base(i - 1) + 5 + Length(i) /\ in.eof
       \/ m.pc = "len" /\ consumed = Base(i - 1) + 6 + Length(i) /\ m.check = file[consumed].v

\* cat copies what follows the members
InCat ==
    /\ force /\ Freed /\ content.fault = "none" /\ (content.cut = 0 \/ Missing)
    /\ m.load = "no" => in.left > 0 \/ in.eof
    /\ \/ m.pc = "cat" /\ consumed = Base(Whole) + 1 /\ output = DataUpTo(Whole) /\ m.magic1 = file[consumed]
       \/ /\ m.pc = "copy" /\ consumed > Base(Whole)
          /\ output = DataUpTo(Whole) \o SubSeq(Rest, 1, consumed - Base(Whole))

Parsing ==
    \/ \E i \in 1 .. MemberCount + 1 : InHeader(i)
    \/ \E i \in 1 .. MemberCount : \/ \E d \in 0 .. Length(i) : InData(i, d)
                                   \/ InFlush(i) \/ InJoin(i) \/ InTrailer(i)
    \/ InCat

\* The program is at its end.
Ended == OutputIsData /\ DamageIsFound /\ (result = "bail" \/ Freed)

ParseInv == IF result = "none" THEN Parsing ELSE Ended

ParseType ==
    /\ output \in Seq(Val) /\ out_check \in Seq(Val) /\ out_tot \in Nat /\ ThreadsOK

LEMMA MemberLen ==
    ASSUME NEW i \in Nat, NEW n \in Nat, NEW f
    PROVE  Len(Member(i, n, f)) = n + 7
BY MemberAt

LEMMA SameContent ==
    ASSUME content' = content
    PROVE  /\ file' = file /\ MemberCount' = MemberCount /\ Whole' = Whole /\ Missing' = Missing /\ Rest' = Rest
           /\ \A i : /\ Base(i)' = Base(i) /\ Length(i)' = Length(i) /\ DataUpTo(i)' = DataUpTo(i)
                     /\ BadData(i)' = BadData(i)
           /\ Base(Whole)' = Base(Whole) /\ DataUpTo(Whole)' = DataUpTo(Whole)
           /\ Base(MemberCount)' = Base(MemberCount) /\ Length(MemberCount)' = Length(MemberCount)
           /\ DataUpTo(MemberCount)' = DataUpTo(MemberCount)
<1>1. file' = file /\ MemberCount' = MemberCount /\ Whole' = Whole /\ Missing' = Missing
      BY DEF file, MemberCount, Whole, Missing
<1>2. Rest' = Rest
      BY <1>1 DEF Rest
<1>3. \A i : Base(i)' = Base(i) /\ Length(i)' = Length(i) /\ DataUpTo(i)' = DataUpTo(i)
      BY DEF Base, Length, DataUpTo
<1>4. \A i : BadData(i)' = BadData(i)
      BY <1>1 DEF BadData
<1>5. /\ Base(Whole)' = Base(Whole) /\ DataUpTo(Whole)' = DataUpTo(Whole)
      /\ Base(MemberCount)' = Base(MemberCount) /\ Length(MemberCount)' = Length(MemberCount)
      /\ DataUpTo(MemberCount)' = DataUpTo(MemberCount)
      BY DEF Base, Length, DataUpTo, Whole, MemberCount
<1> QED BY <1>1, <1>2, <1>3, <1>4, <1>5

LEMMA WholeIs ==
    ASSUME content \in Contents
    PROVE  /\ Whole \in 0 .. MemberCount /\ Whole = (IF content.cut = 0 THEN MemberCount ELSE MemberCount - 1)
           /\ MemberCount \in Nat /\ (content.cut # 0 => MemberCount \in 1 .. MemberCount)
           /\ Missing <=> content.cut > 0 /\ content.cut = Length(MemberCount) + 6
           /\ Rest = (IF Missing THEN <<<<MemberCount, 0>>>> ELSE Units(MemberCount + 1, content.junk))
           /\ Rest \in Seq(Val)
<1>1. MemberCount \in Nat /\ content.cut \in Nat /\ content.junk \in Nat /\ (MemberCount = 0 => content.cut = 0)
      BY BaseFacts, FileFacts
<1>2. Whole = (IF content.cut = 0 THEN MemberCount ELSE MemberCount - 1)
      BY DEF Whole, MemberCount
<1>3. Whole \in 0 .. MemberCount /\ (content.cut # 0 => MemberCount \in 1 .. MemberCount)
  <2>1. CASE content.cut = 0
        BY <1>1, <1>2, <2>1
  <2>2. CASE content.cut # 0
        BY <1>1, <1>2, <2>2
  <2> QED BY <2>1, <2>2
<1>4. Missing <=> content.cut > 0 /\ content.cut = Length(MemberCount) + 6
  <2>1. CASE content.cut = 0
        BY <1>1, <2>1 DEF Missing
  <2>2. CASE content.cut # 0
    <3>1. PICK l \in Nat : l = Length(MemberCount)
          BY <1>3, <2>2, BaseFacts
    <3>2. Last(content.members) = l
          BY <3>1 DEF Last, Length, MemberCount
    <3>3. Len(Member(1, l, "none")) = l + 7
          BY MemberLen
    <3>4. Missing <=> content.cut > 0 /\ content.cut = (l + 7) - 1
          BY <3>2, <3>3 DEF Missing
    <3>5. (l + 7) - 1 = l + 6
          OBVIOUS
    <3> QED BY <3>1, <3>4, <3>5
  <2> QED BY <2>1, <2>2
<1>5. Rest = (IF Missing THEN <<<<MemberCount, 0>>>> ELSE Units(MemberCount + 1, content.junk))
      BY DEF Rest, MemberCount
<1>6. Rest \in Seq(Val)
  <2>1. <<MemberCount, 0>> \in Val
        BY <1>1 DEF Val
  <2>2. <<<<MemberCount, 0>>>> \in Seq(Val)
        BY <2>1, OneVal
  <2>3. MemberCount + 1 \in Nat
        BY <1>1
  <2>4. Units(MemberCount + 1, content.junk) \in Seq(Val)
        BY <1>1, <2>3, UnitsIs
  <2> QED BY <1>5, <2>2, <2>4
<1> QED BY <1>1, <1>2, <1>3, <1>4, <1>5, <1>6

\* The file is damaged, or it was cut off in a member's data or trailer.
Damaged == content.fault # "none" \/ (content.cut > 0 /\ content.cut <= Length(MemberCount) + 3)

LEMMA DamageIs ==
    ASSUME content \in Contents
    PROVE  Damaged <=> \/ content.fault # "none"
                       \/ content.cut > 0 /\ ~(Len(Member(1, Last(content.members), "none")) - content.cut < 4)
<1>1. MemberCount \in Nat /\ content.cut \in Nat /\ (MemberCount = 0 => content.cut = 0)
      BY BaseFacts, FileFacts
<1>2. CASE content.cut = 0
      BY <1>1, <1>2 DEF Damaged
<1>3. CASE content.cut # 0
  <2>1. MemberCount \in 1 .. MemberCount
        BY <1>1, <1>3
  <2>2. PICK l \in Nat : l = Length(MemberCount)
        BY <2>1, BaseFacts
  <2>3. Last(content.members) = l
        BY <2>2 DEF Last, Length, MemberCount
  <2>4. Len(Member(1, l, "none")) = l + 7
        BY MemberLen
  <2>5. ~((l + 7) - content.cut < 4) <=> content.cut <= l + 3
        BY <1>1
  <2> QED BY <2>2, <2>3, <2>4, <2>5 DEF Damaged
<1> QED BY <1>2, <1>3

LEMMA Assoc ==
    ASSUME NEW a \in Seq(Val), NEW b \in Seq(Val), NEW c \in Seq(Val)
    PROVE  (a \o b) \o c = a \o (b \o c) /\ a \o b \in Seq(Val) /\ b \o c \in Seq(Val)
<1>1. (a \o b) \o c = a \o (b \o c)
      BY ConcatAssociative, SMTT(30)
<1>2. a \o b \in Seq(Val) /\ b \o c \in Seq(Val)
      BY ConcatProperties, Zenon
<1> QED BY <1>1, <1>2

LEMMA AssocAll == \A a, b, c \in Seq(Val) : (a \o b) \o c = a \o (b \o c)
BY Assoc

LEMMA StartsPart ==
    ASSUME NEW a \in Seq(Val), NEW b \in Seq(Val), NEW c \in Seq(Val)
    PROVE  Starts(a, (a \o b) \o c)
<1>1. (a \o b) \o c = a \o (b \o c) /\ b \o c \in Seq(Val)
      BY Assoc
<1> QED BY <1>1 DEF Starts

LEMMA StartsMore ==
    ASSUME NEW x \in Seq(Val), NEW y \in Seq(Val), NEW u \in Seq(Val), NEW z, z = y \o u
    PROVE  Starts(x \o y, x \o z)
<1>1. (x \o y) \o u = x \o (y \o u)
      BY AssocAll, Zenon
<1> QED BY <1>1 DEF Starts

\* What the main thread gets is the next symbol of the file, or the end.
LEMMA GetIs ==
    ASSUME Input, in.left > 0 \/ in.eof
    PROVE  /\ consumed \in Nat /\ consumed <= Len(file) /\ Len(file) \in Nat
           /\ in.eof => consumed = Len(file) /\ Next1.k = "eof" /\ Next1.v = <<>>
           /\ ~in.eof => consumed + 1 <= Len(file) /\ Next1 = file[consumed + 1]
<1>1. LoadType /\ Taking /\ Loading
      BY DEF Input
<1>2. PICK l \in Nat, p \in Nat, c \in Nat, z \in Nat : l = in.left /\ p = in.next /\ c = consumed /\ z = Len(file)
      BY <1>1, FileIs DEF LoadType, InRecord
<1>3. c + l <= z
      BY <1>1, <1>2 DEF Taking, Ahead
<1>4. in.eof => l = 0 /\ c + l = z
      BY <1>1, <1>2 DEF Loading, Unread, Fills, Full, Joins, Over, Ahead
<1>5. in.eof => Next1.k = "eof" /\ Next1.v = <<>>
      BY DEF Next1, Sym
<1>6. ~in.eof => c + 1 <= z /\ Next1 = file[c + 1]
  <2> SUFFICES ASSUME ~in.eof PROVE c + 1 <= z /\ Next1 = file[c + 1]
      OBVIOUS
  <2>1. l > 0 /\ 1 \in 1 .. l
        BY <1>2
  <2>2. buf[in.cur][p + 1 - 1] = file[c + 1]
        BY <1>1, <1>2, <2>1 DEF Taking
  <2>3. p + 1 - 1 = p
        OBVIOUS
  <2> QED BY <1>2, <1>3, <2>1, <2>2, <2>3 DEF Next1
<1>7. c <= z /\ (in.eof => c = z)
      BY <1>3, <1>4
<1> QED BY <1>2, <1>5, <1>6, <1>7

\* A step that is not one of decompression.
LEMMA ParsingStays ==
    ASSUME Parsing, UNCHANGED <<content, force, consumed, out_buf, outVars, out_tot>>,
           m'.pc = m.pc, m'.first = m.first, m'.magic1 = m.magic1, m'.check = m.check,
           in.eof => in'.eof, "write" \in Ids => "write" \in Ids',
           (m.pc \in {"cat", "copy"} /\ m'.load = "no") => in'.left > 0 \/ in'.eof
    PROVE  Parsing'
<1>1. /\ content' = content /\ force' = force /\ consumed' = consumed /\ out_buf' = out_buf /\ out_copy' = out_copy
      /\ more' = more /\ out_check' = out_check /\ output' = output /\ out_tot' = out_tot
      BY DEF outVars
<1>2. /\ file' = file /\ MemberCount' = MemberCount /\ Whole' = Whole /\ Missing' = Missing /\ Rest' = Rest
      /\ \A i : /\ Base(i)' = Base(i) /\ Length(i)' = Length(i) /\ DataUpTo(i)' = DataUpTo(i)
                /\ BadData(i)' = BadData(i)
      /\ Base(Whole)' = Base(Whole) /\ DataUpTo(Whole)' = DataUpTo(Whole)
      BY <1>1, SameContent
<1>3. Freed' = Freed /\ ToWrite' = ToWrite /\ ToCheck' = ToCheck
      BY <1>1 DEF Freed, ToWrite, ToCheck
<1>4. \A i : Done(i)' = Done(i)
      BY <1>1, <1>2 DEF Done
<1>5. ASSUME NEW i, NEW d, Piped(i, d) PROVE Piped(i, d)'
      BY <1>1, <1>2, <1>3, <1>5 DEF Piped
<1>6. ASSUME NEW i \in 1 .. MemberCount + 1, InHeader(i) PROVE Parsing'
  <2>1. InHeader(i)'
        BY <1>1, <1>2, <1>3, <1>6 DEF InHeader
  <2> QED BY <1>2, <2>1 DEF Parsing
<1>7. ASSUME NEW i \in 1 .. MemberCount, NEW d \in 0 .. Length(i), InData(i, d) PROVE Parsing'
  <2>1. InData(i, d)'
        BY <1>1, <1>2, <1>5, <1>7 DEF InData
  <2>2. d \in 0 .. Length(i)'
        BY <1>2
  <2> QED BY <1>2, <2>1, <2>2 DEF Parsing
<1>8. ASSUME NEW i \in 1 .. MemberCount, InFlush(i) \/ InJoin(i) \/ InTrailer(i) PROVE Parsing'
  <2>1. CASE InFlush(i)
    <3>1. Piped(i, Length(i))
          BY <2>1 DEF InFlush
    <3>2. Piped(i, Length(i))'
          BY <1>1, <1>2, <1>3, <3>1 DEF Piped
    <3>3. InFlush(i)'
          BY <1>1, <1>2, <2>1, <3>2 DEF InFlush
    <3> QED BY <1>2, <3>3 DEF Parsing
  <2>2. CASE InJoin(i)
    <3>1. InJoin(i)'
          BY <1>1, <1>2, <1>4, <2>2 DEF InJoin
    <3> QED BY <1>2, <3>1 DEF Parsing
  <2>3. CASE InTrailer(i)
    <3>1. InTrailer(i)'
          BY <1>1, <1>2, <1>3, <1>4, <2>3 DEF InTrailer
    <3> QED BY <1>2, <3>1 DEF Parsing
  <2> QED BY <1>8, <2>1, <2>2, <2>3
<1>9. CASE InCat
  <2>1. PICK k, x, y, z : k = consumed - Base(Whole) /\ x = DataUpTo(Whole) /\ y = SubSeq(Rest, 1, k) /\ z = file[consumed]
        OBVIOUS
  <2>2. /\ (consumed - Base(Whole))' = k /\ DataUpTo(Whole)' = x /\ SubSeq(Rest, 1, consumed - Base(Whole))' = y
        /\ (file[consumed])' = z
        BY <1>1, <1>2, <2>1
  <2>3. m'.load = "no" => in'.left > 0 \/ in'.eof
        BY <1>9 DEF InCat
  <2>4. \/ m.pc = "cat" /\ consumed = Base(Whole) + 1 /\ output = x /\ m.magic1 = z
        \/ m.pc = "copy" /\ consumed > Base(Whole) /\ output = x \o y
        BY <1>9, <2>1 DEF InCat
  <2>5. \/ m'.pc = "cat" /\ consumed' = (Base(Whole) + 1)' /\ output' = x /\ m'.magic1 = z
        \/ m'.pc = "copy" /\ consumed' > Base(Whole)' /\ output' = x \o y
        BY <1>1, <1>2, <2>4
  <2>6. force' /\ Freed' /\ content'.fault = "none" /\ (content'.cut = 0 \/ Missing')
        BY <1>1, <1>2, <1>3, <1>9 DEF InCat
  <2>7. InCat'
        BY <2>2, <2>3, <2>5, <2>6 DEF InCat
  <2> QED BY <2>7 DEF Parsing
<1> QED BY <1>6, <1>7, <1>8, <1>9 DEF Parsing

\* The output is a beginning of the data while a member is decompressed.
LEMMA PipedStarts ==
    ASSUME content \in Contents, ParseType, OutType, NEW i \in 1 .. MemberCount, NEW d \in 0 .. Length(i), Piped(i, d)
    PROVE  IsPrefix(output, DataUpTo(MemberCount))
<1>1. MemberCount \in Nat /\ i \in Nat /\ Length(i) \in Nat /\ d \in Nat /\ d <= Length(i)
      BY BaseFacts
<1>2. PICK a \in Seq(Val), b \in Seq(Val), c \in Seq(Val) : a = output /\ b = ToWrite /\ c = out_buf
      BY EmptySeq DEF ParseType, OutType, ToWrite
<1>3. PICK x \in Seq(Val), y \in Seq(Val), z \in Seq(Val) :
         x = DataUpTo(i - 1) /\ y = Units(i, d) /\ z = Units(i, Length(i)) /\ DataUpTo(i) = x \o z
      BY <1>1, DataStep, UnitsIs
<1>4. (a \o b) \o c = x \o y
      BY <1>2, <1>3 DEF Piped
<1>9. x \o y \in Seq(Val) /\ x \o z \in Seq(Val)
      BY ConcatProperties
<1>5. Starts(a, x \o y)
  <2>1. Starts(a, (a \o b) \o c)
        BY StartsPart
  <2> QED BY <1>4, <2>1
<1>6. Starts(x \o y, x \o z)
  <2>1. PICK u \in Seq(Val) : z = y \o u
        BY <1>1, <1>3, UnitsSplit
  <2> QED BY <2>1, StartsMore
<1>7. i \in 0 .. MemberCount /\ MemberCount \in i .. MemberCount /\ MemberCount \in 0 .. MemberCount
      BY <1>1
<1>8. Starts(x \o z, DataUpTo(MemberCount)) /\ DataUpTo(MemberCount) \in Seq(Val)
      BY <1>3, <1>7, DataStarts, DataType
<1>10. Starts(a, x \o z)
      BY <1>5, <1>6, <1>9, StartsChain
<1>11. Starts(a, DataUpTo(MemberCount))
      BY <1>8, <1>9, <1>10, StartsChain
<1> QED BY <1>2, <1>8, <1>11, StartsIsPrefix

\* The data of whole members is a beginning of all of it.
LEMMA DataIsPrefix ==
    ASSUME content \in Contents, NEW i \in 0 .. MemberCount
    PROVE  IsPrefix(DataUpTo(i), DataUpTo(MemberCount))
<1>1. MemberCount \in i .. MemberCount /\ MemberCount \in 0 .. MemberCount
      BY BaseFacts
<1> QED BY <1>1, DataType, DataStarts, StartsIsPrefix

\* The ways to end: with an error, or at the end of the members.
LEMMA EndsBad ==
    ASSUME content \in Contents, IsPrefix(output, DataUpTo(MemberCount)), Damaged,
           UNCHANGED <<content, output>>, result' = "bail"
    PROVE  Ended'
<1>1. /\ content' \in Contents /\ MemberCount' = MemberCount /\ (\A i : Length(i)' = Length(i))
      /\ \A i : DataUpTo(i)' = DataUpTo(i)
      BY SameContent
<1>3. DamageIsFound'
      BY DamageIs DEF DamageIsFound
<1>4. OutputIsData'
  <2>1. IsPrefix(output, DataUpTo(MemberCount))'
        BY <1>1
  <2> QED BY <2>1 DEF OutputIsData, MemberCount
<1> QED BY <1>3, <1>4 DEF Ended

LEMMA EndsWell ==
    ASSUME content \in Contents, output = DataUpTo(Whole), ~Damaged, UNCHANGED <<content, force, output>>, Freed',
           result' \in {"ok", "warned", "skipped"}, result' = "ok" => (force => Rest = <<>>),
           result' = "skipped" => Whole = 0
    PROVE  Ended'
<1>1. /\ content' \in Contents /\ MemberCount' = MemberCount /\ (\A i : Length(i)' = Length(i))
      /\ (\A i : DataUpTo(i)' = DataUpTo(i)) /\ Whole' = Whole /\ Rest' = Rest
      BY SameContent
<1>3. DamageIsFound'
      BY DamageIs DEF DamageIsFound
<1>4. Whole \in 0 .. MemberCount /\ 0 \in 0 .. MemberCount
      BY WholeIs
<1>5. IsPrefix(DataUpTo(Whole), DataUpTo(MemberCount)) /\ DataUpTo(Whole) \in Seq(Val) /\ DataUpTo(0) = <<>>
      BY <1>4, DataIsPrefix, DataType
<1>6. DataUpTo(Whole) \o <<>> = DataUpTo(Whole)
      BY <1>5, ConcatEmptySeq
<1>7. OutputIsData'
  <2>1. IsPrefix(output, DataUpTo(Len(content.members)))'
        BY <1>1, <1>5 DEF MemberCount
  <2>2. result' = "ok" => output' = DataUpTo(Whole)' \o (IF force' THEN Rest' ELSE <<>>)
        BY <1>1, <1>6
  <2>3. result' = "warned" => output' = DataUpTo(Whole)'
        BY <1>1
  <2>4. result' = "skipped" => output' = <<>>
        BY <1>5
  <2> QED BY <2>1, <2>2, <2>3, <2>4 DEF OutputIsData
<1> QED BY <1>3, <1>7 DEF Ended

----------------------------------------------------------------------------
(* Steps that are not of decompression *)

\* While the input is copied, and only then, the program is in cat.
LEMMA CatOnly ==
    ASSUME Parsing, m.pc \in {"cat", "copy"}
    PROVE  InCat
BY DEF Parsing, InHeader, InData, InFlush, InJoin, InTrailer

LEMMA EndedStays ==
    ASSUME Ended, UNCHANGED <<content, force, output, result, more>>
    PROVE  Ended'
<1>1. /\ MemberCount' = MemberCount /\ Whole' = Whole /\ Rest' = Rest /\ DataUpTo(Whole)' = DataUpTo(Whole)
      /\ DataUpTo(MemberCount)' = DataUpTo(MemberCount)
      BY SameContent
<1>2. DamageIsFound'
      BY DEF Ended, DamageIsFound
<1>3. PICK x, y, z : x = DataUpTo(MemberCount) /\ y = DataUpTo(Whole) /\ z = Rest
      OBVIOUS
<1>4. /\ IsPrefix(output, x) \/ (force /\ IsPrefix(output, y \o z))
      /\ result = "ok" => output = y \o (IF force THEN z ELSE <<>>)
      /\ result = "warned" => output = y
      /\ result = "skipped" => output = <<>>
      BY <1>3 DEF Ended, OutputIsData, MemberCount
<1>5. OutputIsData'
      BY <1>1, <1>3, <1>4 DEF OutputIsData, MemberCount
<1> QED BY <1>2, <1>5 DEF Ended, Freed

\* Main's state and the output are as before.
LEMMA Quiet ==
    ASSUME ParseType, ParseInv, UNCHANGED <<content, force, consumed, m, in, out_buf, outVars, out_tot, result>>,
           ThreadsOK', "write" \in Ids => "write" \in Ids'
    PROVE  ParseType' /\ ParseInv'
<1>1. ParseType'
      BY DEF ParseType, outVars
<1>2. CASE result = "none"
  <2>1. Parsing
        BY <1>2 DEF ParseInv
  <2>2. (m.pc \in {"cat", "copy"} /\ m'.load = "no") => in'.left > 0 \/ in'.eof
        BY <2>1, CatOnly DEF InCat
  <2>3. Parsing'
        BY <2>1, <2>2, ParsingStays
  <2> QED BY <1>1, <1>2, <2>3 DEF ParseInv
<1>3. CASE result # "none"
  <2>1. Ended
        BY <1>3 DEF ParseInv
  <2>2. Ended'
        BY <2>1, EndedStays DEF outVars
  <2> QED BY <1>1, <1>3, <2>2 DEF ParseInv
<1> QED BY <1>2, <1>3

LEMMA LoadCallParses ==
    ASSUME Inv, ParseType, ParseInv, LoadCall
    PROVE  ParseType' /\ ParseInv'
<1>1. UNCHANGED mainOut /\ result = "none" /\ Parsing
      BY DEF LoadCall, ParseInv
<1>2. UNCHANGED <<content, force, consumed, out_buf, outVars, out_tot, result>>
      BY <1>1 DEF mainOut
<1>3. in \in InRecord /\ m \in MainRecord
      BY DEF Inv, LoadType
<1>4. PICK l \in {"no", "wait"} : m' = [m EXCEPT !.load = l] /\ (l = "no" => in'.eof) /\ (in.eof => in'.eof)
      BY <1>3 DEF LoadCall, InRecord
<1>5. m'.pc = m.pc /\ m'.first = m.first /\ m'.magic1 = m.magic1 /\ m'.check = m.check /\ m'.load = l
      BY <1>3, <1>4 DEF MainRecord
<1>6. ThreadsOK' /\ ("write" \in Ids => "write" \in Ids')
  <2>1. CASE UNCHANGED yarnVars
        BY <2>1 DEF yarnVars, ThreadsOK, Ids, ParseType
  <2>2. CASE Launch("read")
    <3>1. "read" \in HelperIds /\ ThreadsOK
          BY DEF HelperIds, ParseType
    <3> QED BY <2>2, <3>1, LaunchIds
  <2> QED BY <2>1, <2>2 DEF LoadCall
<1>7. Parsing'
      BY <1>1, <1>2, <1>4, <1>5, <1>6, ParsingStays
<1> QED BY <1>1, <1>2, <1>6, <1>7 DEF ParseType, ParseInv, outVars

LEMMA LoadTakeParses ==
    ASSUME Inv, ParseType, ParseInv, LoadTake
    PROVE  ParseType' /\ ParseInv'
<1>1. UNCHANGED mainOut /\ result = "none" /\ Parsing /\ UNCHANGED yarnVars
      BY DEF LoadTake, ParseInv
<1>2. UNCHANGED <<content, force, consumed, out_buf, outVars, out_tot, result>>
      BY <1>1 DEF mainOut
<1>3. in \in InRecord /\ m \in MainRecord
      BY DEF Inv, LoadType
<1>4. in'.eof = in.eof /\ in'.left = in_len
      BY <1>3 DEF LoadTake, InRecord
<1>5. PICK l \in {"no", "join"} : m' = [m EXCEPT !.load = l] /\ (l = "no" => in_len = BufSize)
      BY DEF LoadTake
<1>6. m'.pc = m.pc /\ m'.first = m.first /\ m'.magic1 = m.magic1 /\ m'.check = m.check /\ m'.load = l
      BY <1>3, <1>5 DEF MainRecord
<1>7. BufSize > 0
      BY InflateAssumption
<1>8. ThreadsOK' /\ ("write" \in Ids => "write" \in Ids')
      BY <1>1 DEF yarnVars, ThreadsOK, Ids, ParseType
<1>9. Parsing'
      BY <1>1, <1>2, <1>4, <1>5, <1>6, <1>7, <1>8, ParsingStays
<1> QED BY <1>1, <1>2, <1>8, <1>9 DEF ParseType, ParseInv, outVars

LEMMA LoadJoinParses ==
    ASSUME Inv, ParseType, ParseInv, LoadJoin
    PROVE  ParseType' /\ ParseInv'
<1>1. UNCHANGED mainOut /\ result = "none" /\ Parsing /\ Join("read") /\ m.load = "join"
      BY DEF LoadJoin, ParseInv
<1>2. UNCHANGED <<content, force, consumed, out_buf, outVars, out_tot, result>>
      BY <1>1 DEF mainOut
<1>3. in \in InRecord /\ m \in MainRecord /\ in.left \in Nat
      BY DEF Inv, LoadType, InRecord
<1>4. in'.eof = (in.left = 0) /\ in'.left = in.left
      BY <1>3 DEF LoadJoin, InRecord
<1>5. ~in.eof
      BY <1>1 DEF Inv, Loading, Unread, Fills, Full, Joins, Over
<1>6. m'.pc = m.pc /\ m'.first = m.first /\ m'.magic1 = m.magic1 /\ m'.check = m.check
      BY <1>3 DEF LoadJoin, MainRecord
<1>7. ThreadsOK' /\ ("write" \in Ids => "write" \in Ids')
  <2>1. ThreadsOK
        BY DEF ParseType
  <2> QED BY <1>1, <2>1, JoinIds
<1>8. in'.left > 0 \/ in'.eof
  <2>1. PICK l \in Nat : l = in.left
        BY <1>3
  <2>2. CASE l = 0
        BY <1>4, <2>1, <2>2
  <2>3. CASE l > 0
        BY <1>4, <2>1, <2>3
  <2> QED BY <2>1, <2>2, <2>3
<1>9. Parsing'
      BY <1>1, <1>2, <1>5, <1>6, <1>7, <1>8, ParsingStays
<1> QED BY <1>1, <1>2, <1>7, <1>9 DEF ParseType, ParseInv, outVars

LEMMA QuietParses ==
    ASSUME ParseType, ParseInv, LoadRead \/ \E t \in HelperIds : ThreadEnds(t)
    PROVE  ParseType' /\ ParseInv'
<1>1. CASE LoadRead
  <2>1. ThreadsOK' /\ ("write" \in Ids => "write" \in Ids')
        BY <1>1 DEF LoadRead, yarnVars, ThreadsOK, Ids, ParseType
  <2> QED BY <1>1, <2>1, Quiet DEF LoadRead, mainOut
<1>2. ASSUME NEW t \in HelperIds, ThreadEnds(t) PROVE ParseType' /\ ParseInv'
  <2>1. UNCHANGED <<content, force, consumed, m, in, out_buf, outVars, out_tot, result>>
        BY <1>2 DEF ThreadEnds, HelperEnds, mainOut
  <2>2. ThreadsOK' /\ ("write" \in Ids => "write" \in Ids')
    <3>1. CASE Reenter(t)
      <4>1. ThreadsOK
            BY DEF ParseType
      <4> QED BY <3>1, <4>1, ReenterIds
    <3>2. CASE ThreadExit(t)
          BY <3>2 DEF ThreadExit, ThreadsOK, Ids, ParseType
    <3> QED BY <1>2, <3>1, <3>2 DEF ThreadEnds, HelperEnds
  <2> QED BY <2>1, <2>2, Quiet
<1> QED BY <1>1, <1>2

----------------------------------------------------------------------------
(* The output threads, and outb *)

LEMMA Where ==
    ASSUME Parsing
    PROVE  /\ m.pc \in {"magic1", "magic2", "head", "name"} => \E i \in 1 .. MemberCount + 1 : InHeader(i)
           /\ m.pc \in {"inflate", "outb"} => \E i \in 1 .. MemberCount : \E d \in 0 .. Length(i) : InData(i, d)
           /\ m.pc \in {"flush", "finish"} => \E i \in 1 .. MemberCount : InFlush(i)
           /\ m.pc \in {"joincheck", "joinwrite"} => \E i \in 1 .. MemberCount : InJoin(i)
           /\ m.pc \in {"check", "len"} => \E i \in 1 .. MemberCount : InTrailer(i)
BY DEF Parsing, InHeader, InData, InFlush, InJoin, InTrailer, InCat

\* What was written and what is to be written stay the same together.
LEMMA PipedKeeps ==
    ASSUME NEW i, NEW d, Piped(i, d), UNCHANGED <<content, out_buf, out_tot>>,
           output' \o ToWrite' = output \o ToWrite, out_check' \o ToCheck' = out_check \o ToCheck,
           "write" \in Ids' \/ Freed'
    PROVE  Piped(i, d)' /\ (d = Length(i) => Piped(i, Length(i))')
<1>1. DataUpTo(i - 1)' = DataUpTo(i - 1) /\ Length(i)' = Length(i)
      BY SameContent
<1> QED BY <1>1 DEF Piped

LEMMA OutputMoves ==
    ASSUME Parsing, m.pc \in {"inflate", "outb", "flush", "finish"},
           UNCHANGED <<content, consumed, m, out_buf, out_tot>>,
           output' \o ToWrite' = output \o ToWrite, out_check' \o ToCheck' = out_check \o ToCheck,
           "write" \in Ids' \/ Freed'
    PROVE  Parsing'
<1>1. MemberCount' = MemberCount /\ \A i : /\ Base(i)' = Base(i) /\ Length(i)' = Length(i) /\ BadData(i)' = BadData(i)
      BY SameContent
<1>2. ASSUME NEW i \in 1 .. MemberCount, NEW d \in 0 .. Length(i), InData(i, d) PROVE Parsing'
  <2>1. Piped(i, d)'
        BY <1>2, PipedKeeps DEF InData
  <2>2. InData(i, d)'
        BY <1>1, <1>2, <2>1 DEF InData
  <2>3. d \in 0 .. Length(i)'
        BY <1>1
  <2> QED BY <1>1, <2>2, <2>3 DEF Parsing
<1>3. ASSUME NEW i \in 1 .. MemberCount, InFlush(i) PROVE Parsing'
  <2>1. PICK d : d = Length(i)
        OBVIOUS
  <2>2. Piped(i, d)
        BY <1>3, <2>1 DEF InFlush
  <2>3. Piped(i, Length(i))'
        BY <2>1, <2>2, PipedKeeps
  <2>4. InFlush(i)'
        BY <1>1, <1>3, <2>3 DEF InFlush
  <2> QED BY <1>1, <2>4 DEF Parsing
<1> QED BY <1>2, <1>3, Where

LEMMA OutbLaunchParses ==
    ASSUME Inv, ParseType, ParseInv, NEW t \in OutThreads, OutbLaunch(t)
    PROVE  ParseType' /\ ParseInv'
<1>1. /\ UNCHANGED <<content, force, in, consumed, m, out_buf, out_copy, out_check, output, out_tot, result>>
      /\ result = "none" /\ m.pc \in {"outb", "flush", "finish"} /\ Launch(t)
      BY DEF OutbLaunch
<1>2. t \in HelperIds /\ ThreadsOK
      BY DEF OutThreads, HelperIds, ParseType
<1>3. ThreadsOK' /\ t \in Ids' /\ ("write" \in Ids => "write" \in Ids')
      BY <1>1, <1>2, LaunchIds
<1>4. CASE t = "check"
  <2>1. more' = more
        BY <1>4 DEF OutbLaunch
  <2> QED BY <1>1, <1>3, <2>1, Quiet DEF outVars
<1>5. CASE t = "write"
  <2>1. more' = [write |-> 0, check |-> 0] /\ "write" \notin Ids
        BY <1>5 DEF OutbLaunch
  <2>2. Parsing
        BY <1>1 DEF ParseInv
  <2>3. Freed
        BY <1>1, <2>1, <2>2, Where DEF InData, InFlush, Piped
  <2>4. ToWrite = <<>> /\ ToCheck = <<>> /\ ToWrite' = <<>> /\ ToCheck' = <<>>
        BY <2>1, <2>3 DEF Freed, ToWrite, ToCheck
  <2>5. output' \o ToWrite' = output \o ToWrite /\ out_check' \o ToCheck' = out_check \o ToCheck
        BY <1>1, <2>4
  <2>6. "write" \in Ids'
        BY <1>3, <1>5
  <2>7. Parsing'
        BY <1>1, <2>2, <2>5, <2>6, OutputMoves
  <2> QED BY <1>1, <1>3, <2>7 DEF ParseType, ParseInv
<1> QED BY <1>4, <1>5 DEF OutThreads

\* An output thread with nothing to do for it any more leaves no trace.
LEMMA JoinStays ==
    ASSUME NEW i \in 1 .. MemberCount, InJoin(i), UNCHANGED <<content, consumed, m, out_buf, out_tot, out_copy, output, out_check>>
    PROVE  Parsing'
<1>1. MemberCount' = MemberCount /\ \A k : /\ Base(k)' = Base(k) /\ Length(k)' = Length(k) /\ BadData(k)' = BadData(k)
                                          /\ DataUpTo(k)' = DataUpTo(k)
      BY SameContent
<1>2. Done(i)'
      BY <1>1 DEF InJoin, Done
<1>3. InJoin(i)'
      BY <1>1, <1>2 DEF InJoin
<1> QED BY <1>1, <1>3 DEF Parsing

LEMMA OutThreadAt ==
    ASSUME Inv, ParseInv, NEW t \in OutThreads, OutThread(t)
    PROVE  /\ result = "none" /\ Parsing /\ more[t] = 1 /\ ~Freed
           /\ \/ m.pc \in {"inflate", "outb", "flush", "finish"} /\ "write" \in Ids
              \/ \E i \in 1 .. MemberCount : InJoin(i)
<1>1. result # "bail" /\ more[t] = 1
      BY DEF OutThread
<1>2. ~Freed
      BY <1>1 DEF Freed, OutThreads
<1>3. result = "none" /\ Parsing
      BY <1>1, <1>2 DEF ParseInv, Ended
<1>4. CASE \E i \in 1 .. MemberCount + 1 : InHeader(i)
      BY <1>2, <1>4 DEF InHeader
<1>5. ASSUME NEW i \in 1 .. MemberCount, NEW d \in 0 .. Length(i), InData(i, d)
      PROVE  m.pc \in {"inflate", "outb", "flush", "finish"} /\ "write" \in Ids
      BY <1>2, <1>5 DEF InData, Piped
<1>6. ASSUME NEW i \in 1 .. MemberCount, InFlush(i)
      PROVE  m.pc \in {"inflate", "outb", "flush", "finish"} /\ "write" \in Ids
      BY <1>2, <1>6 DEF InFlush, Piped
<1>7. ASSUME NEW i \in 1 .. MemberCount, InTrailer(i) PROVE FALSE
      BY <1>2, <1>7 DEF InTrailer
<1>8. ~InCat
      BY <1>2 DEF InCat
<1> QED BY <1>1, <1>2, <1>3, <1>4, <1>5, <1>6, <1>7, <1>8 DEF Parsing

LEMMA OutbWriteParses ==
    ASSUME Inv, ParseType, ParseInv, OutbWrite
    PROVE  ParseType' /\ ParseInv'
<1>1. OutThread("write") /\ "write" \in OutThreads
      BY DEF OutbWrite, OutThreads
<1>2. /\ result = "none" /\ Parsing /\ more.write = 1 /\ ~Freed
      /\ \/ m.pc \in {"inflate", "outb", "flush", "finish"} /\ "write" \in Ids
         \/ \E i \in 1 .. MemberCount : InJoin(i)
      BY <1>1, OutThreadAt
<1>3. /\ UNCHANGED <<content, consumed, m, out_buf, out_tot, out_copy, out_check, result, threads>>
      /\ output' = output \o out_copy /\ more' = [more EXCEPT !["write"] = 0]
      BY DEF OutbWrite, OutThread, yarnVars
<1>4. /\ output \in Seq(Val) /\ out_copy \in Seq(Val) /\ more'.write = 0 /\ more'.check = more.check
      BY <1>3 DEF ParseType, Inv, OutType
<1>5. output \o out_copy \in Seq(Val)
      BY <1>4, ConcatProperties
<1>6. ParseType'
      BY <1>3, <1>5 DEF ParseType, ThreadsOK
<1>7. CASE m.pc \in {"inflate", "outb", "flush", "finish"} /\ "write" \in Ids
  <2>1. ToWrite = out_copy /\ ToWrite' = <<>> /\ ToCheck' = ToCheck
        BY <1>2, <1>3, <1>4 DEF ToWrite, ToCheck
  <2>2. output' \o ToWrite' = output \o ToWrite
        BY <1>3, <1>5, <2>1, ConcatEmptySeq
  <2>3. out_check' \o ToCheck' = out_check \o ToCheck
        BY <1>3, <2>1
  <2>4. "write" \in Ids'
        BY <1>3, <1>7 DEF Ids
  <2>5. Parsing'
        BY <1>2, <1>3, <1>7, <2>2, <2>3, <2>4, OutputMoves
  <2> QED BY <1>2, <1>3, <1>6, <2>5 DEF ParseInv
<1>8. ASSUME NEW i \in 1 .. MemberCount, InJoin(i) PROVE Parsing'
  <2>1. out_copy = <<>> /\ output' = output
        BY <1>3, <1>4, <1>8, ConcatEmptySeq DEF InJoin
  <2> QED BY <1>3, <1>8, <2>1, JoinStays
<1> QED BY <1>2, <1>3, <1>6, <1>7, <1>8 DEF ParseInv

LEMMA OutbCheckParses ==
    ASSUME Inv, ParseType, ParseInv, OutbCheck
    PROVE  ParseType' /\ ParseInv'
<1>1. OutThread("check") /\ "check" \in OutThreads
      BY DEF OutbCheck, OutThreads
<1>2. /\ result = "none" /\ Parsing /\ more.check = 1 /\ ~Freed
      /\ \/ m.pc \in {"inflate", "outb", "flush", "finish"} /\ "write" \in Ids
         \/ \E i \in 1 .. MemberCount : InJoin(i)
      BY <1>1, OutThreadAt
<1>3. /\ UNCHANGED <<content, consumed, m, out_buf, out_tot, out_copy, output, result, threads>>
      /\ out_check' = out_check \o out_copy /\ more' = [more EXCEPT !["check"] = 0]
      BY DEF OutbCheck, OutThread, yarnVars
<1>4. /\ out_check \in Seq(Val) /\ out_copy \in Seq(Val) /\ more'.check = 0 /\ more'.write = more.write
      BY <1>3 DEF ParseType, Inv, OutType
<1>5. out_check \o out_copy \in Seq(Val)
      BY <1>4, ConcatProperties
<1>6. ParseType'
      BY <1>3, <1>5 DEF ParseType, ThreadsOK
<1>7. CASE m.pc \in {"inflate", "outb", "flush", "finish"} /\ "write" \in Ids
  <2>1. ToCheck = out_copy /\ ToCheck' = <<>> /\ ToWrite' = ToWrite
        BY <1>2, <1>3, <1>4 DEF ToWrite, ToCheck
  <2>2. out_check' \o ToCheck' = out_check \o ToCheck
        BY <1>3, <1>5, <2>1, ConcatEmptySeq
  <2>3. output' \o ToWrite' = output \o ToWrite
        BY <1>3, <2>1
  <2>4. "write" \in Ids'
        BY <1>3, <1>7 DEF Ids
  <2>5. Parsing'
        BY <1>2, <1>3, <1>7, <2>2, <2>3, <2>4, OutputMoves
  <2> QED BY <1>2, <1>3, <1>6, <2>5 DEF ParseInv
<1>8. ASSUME NEW i \in 1 .. MemberCount, InJoin(i) PROVE Parsing'
  <2>1. out_copy = <<>> /\ out_check' = out_check
        BY <1>3, <1>4, <1>8, ConcatEmptySeq DEF InJoin
  <2> QED BY <1>3, <1>8, <2>1, JoinStays
<1> QED BY <1>2, <1>3, <1>6, <1>7, <1>8 DEF ParseInv

\* The window goes to the copy.
LEMMA WindowMoves ==
    ASSUME Inv, ParseType, NEW i, NEW d, Piped(i, d), Outb
    PROVE  /\ Piped(i, d)' /\ (d = Length(i) => Piped(i, Length(i))')
           /\ output \o out_buf = DataUpTo(i - 1) \o Units(i, d) /\ out_check \o out_buf = Units(i, d)
           /\ out_tot' = d
<1>1. /\ OutbIdle /\ out_copy' = out_buf /\ out_buf' = <<>> /\ more' = [write |-> 1, check |-> 1]
      /\ out_tot' = out_tot + Len(out_buf) /\ UNCHANGED <<content, output, out_check, threads>>
      BY DEF Outb, mainRest, yarnVars
<1>2. PICK o \in Seq(Val), c \in Seq(Val), b \in Seq(Val), t \in Nat, n \in Nat :
         o = output /\ c = out_check /\ b = out_buf /\ t = out_tot /\ n = Len(b)
      BY LenProperties DEF ParseType, Inv, OutType
<1>3. ToWrite = <<>> /\ ToCheck = <<>> /\ ToWrite' = b /\ ToCheck' = b /\ "write" \in Ids'
      BY <1>1, <1>2 DEF OutbIdle, OutThreads, ToWrite, ToCheck, Ids
<1>4. o \o <<>> = o /\ c \o <<>> = c /\ (o \o b) \o <<>> = o \o b /\ (c \o b) \o <<>> = c \o b
  <2>1. o \o b \in Seq(Val) /\ c \o b \in Seq(Val)
        BY ConcatProperties
  <2> QED BY <2>1, ConcatEmptySeq
<1>5. o \o b = DataUpTo(i - 1) \o Units(i, d) /\ c \o b = Units(i, d) /\ t + n = d
      BY <1>2, <1>3, <1>4 DEF Piped
<1>6. Len(<<>>) = 0 /\ (t + n) + 0 = t + n
      BY EmptySeq
<1>7. out_tot' + Len(out_buf') = d /\ out_tot' = d
      BY <1>1, <1>2, <1>5, <1>6
<1>8. DataUpTo(i - 1)' = DataUpTo(i - 1) /\ Length(i)' = Length(i)
      BY <1>1, SameContent
<1>9. (output' \o ToWrite') \o out_buf' = DataUpTo(i - 1) \o Units(i, d) /\ (out_check' \o ToCheck') \o out_buf' = Units(i, d)
      BY <1>1, <1>2, <1>3, <1>4, <1>5
<1>10. Piped(i, d)' /\ (d = Length(i) => Piped(i, Length(i))')
      BY <1>3, <1>7, <1>8, <1>9 DEF Piped
<1> QED BY <1>2, <1>5, <1>7, <1>10

LEMMA OutbParses ==
    ASSUME Inv, ParseType, ParseInv, Outb
    PROVE  ParseType' /\ ParseInv'
<1>1. /\ result = "none" /\ Parsing /\ out_copy' = out_buf /\ out_buf' = <<>>
      /\ UNCHANGED <<content, consumed, output, out_check, threads, result>>
      /\ out_tot' = out_tot + Len(out_buf) /\ m.pc \in {"outb", "flush", "finish"}
      /\ m' = [m EXCEPT !.pc = CASE m.pc = "outb" -> "inflate"
                                 [] m.pc = "flush" -> "finish"
                                 [] m.pc = "finish" -> "joincheck"]
      BY DEF Outb, mainRest, yarnVars, ParseInv
<1>2. MemberCount' = MemberCount /\ \A k : /\ Base(k)' = Base(k) /\ Length(k)' = Length(k) /\ BadData(k)' = BadData(k)
                                          /\ DataUpTo(k)' = DataUpTo(k)
      BY <1>1, SameContent
<1>3. /\ m.pc = "outb" => m'.pc = "inflate"
      /\ m.pc = "flush" => m'.pc = "finish"
      /\ m.pc = "finish" => m'.pc = "joincheck"
  <2>1. m \in MainRecord
        BY DEF Inv, LoadType
  <2>2. PICK q : q = CASE m.pc = "outb" -> "inflate" [] m.pc = "flush" -> "finish" [] m.pc = "finish" -> "joincheck"
        OBVIOUS
  <2>3. m' = [m EXCEPT !.pc = q]
        BY <1>1, <2>2
  <2>4. m'.pc = q
        BY <2>1, <2>3 DEF MainRecord
  <2> QED BY <2>2, <2>4
<1>4. ParseType'
  <2>1. out_tot \in Nat /\ Len(out_buf) \in Nat
        BY LenProperties DEF ParseType, Inv, OutType
  <2> QED BY <1>1, <2>1 DEF ParseType, ThreadsOK
<1>5. CASE m.pc = "outb"
  <2>5. PICK i \in 1 .. MemberCount : \E d \in 0 .. Length(i) : InData(i, d)
        BY <1>1, <1>5, Where
  <2>1. PICK d \in 0 .. Length(i) : InData(i, d)
        BY <2>5
  <2>2. Piped(i, d)'
        BY <2>1, WindowMoves DEF InData
  <2>3. InData(i, d)'
        BY <1>1, <1>2, <1>3, <1>5, <2>1, <2>2 DEF InData
  <2>4. d \in 0 .. Length(i)'
        BY <1>2
  <2> QED BY <1>1, <1>2, <1>4, <2>3, <2>4 DEF Parsing, ParseInv
<1>6. CASE m.pc = "flush" \/ m.pc = "finish"
  <2>1. PICK i \in 1 .. MemberCount : InFlush(i)
        BY <1>1, <1>6, Where
  <2>2. PICK d : d = Length(i)
        OBVIOUS
  <2>3. Piped(i, d)
        BY <2>1, <2>2 DEF InFlush
  <2>4. /\ Piped(i, Length(i))' /\ output \o out_buf = DataUpTo(i - 1) \o Units(i, d)
        /\ out_check \o out_buf = Units(i, d) /\ out_tot' = d
        BY <2>2, <2>3, WindowMoves
  <2>5. CASE m.pc = "flush"
    <3>1. InFlush(i)'
          BY <1>1, <1>2, <1>3, <2>1, <2>4, <2>5 DEF InFlush
    <3> QED BY <1>1, <1>2, <1>4, <3>1 DEF Parsing, ParseInv
  <2>6. CASE m.pc = "finish"
    <3>1. out_buf = <<>>
          BY <2>1, <2>6 DEF InFlush
    <3>2. output \in Seq(Val) /\ out_check \in Seq(Val)
          BY DEF ParseType
    <3>3. output = DataUpTo(i - 1) \o Units(i, d) /\ out_check = Units(i, d)
          BY <2>4, <3>1, <3>2, ConcatEmptySeq
    <3>4. DataUpTo(i) = DataUpTo(i - 1) \o Units(i, d)
      <4>1. content \in Contents
            BY DEF Inv, LoadType
      <4> QED BY <2>2, <4>1, DataStep
    <3>5. Done(i)'
          BY <1>1, <1>2, <2>2, <2>4, <3>3, <3>4 DEF Done
    <3>6. InJoin(i)'
          BY <1>1, <1>2, <1>3, <2>1, <2>6, <3>1, <3>5 DEF InJoin, InFlush
    <3> QED BY <1>1, <1>2, <1>4, <3>6 DEF Parsing, ParseInv
  <2> QED BY <1>6, <2>5, <2>6
<1> QED BY <1>1, <1>5, <1>6

LEMMA JoinsParse ==
    ASSUME Inv, ParseType, ParseInv, JoinCheck \/ JoinWrite
    PROVE  ParseType' /\ ParseInv'
<1>1. /\ UNCHANGED <<content, force, in, consumed, out_buf, out_copy, out_check, output, out_tot, result>>
      /\ result = "none" /\ Parsing /\ m.pc \in {"joincheck", "joinwrite"} /\ \E t : Join(t)
      BY DEF JoinCheck, JoinWrite, outVars, ParseInv
<1>2. ThreadsOK'
      BY <1>1, JoinIds DEF ParseType
<1>3. ParseType'
      BY <1>1, <1>2 DEF ParseType
<1>4. MemberCount' = MemberCount /\ \A k : /\ Base(k)' = Base(k) /\ Length(k)' = Length(k) /\ BadData(k)' = BadData(k)
                                          /\ DataUpTo(k)' = DataUpTo(k)
      BY <1>1, SameContent
<1>5. PICK i \in 1 .. MemberCount : InJoin(i)
      BY <1>1, Where
<1>6. Done(i)'
      BY <1>1, <1>4, <1>5 DEF InJoin, Done
<1>7. m \in MainRecord
      BY DEF Inv, LoadType
<1>8. CASE JoinCheck
  <2>1. m'.pc = "joinwrite"
        BY <1>7, <1>8 DEF JoinCheck, MainRecord
  <2>2. InJoin(i)'
        BY <1>1, <1>4, <1>5, <1>6, <2>1 DEF InJoin
  <2> QED BY <1>1, <1>3, <1>4, <2>2 DEF Parsing, ParseInv
<1>9. CASE JoinWrite
  <2>1. m'.pc = "check" /\ Freed'
        BY <1>7, <1>9 DEF JoinWrite, MainRecord, Freed
  <2>2. InTrailer(i)'
        BY <1>1, <1>4, <1>5, <1>6, <2>1 DEF InJoin, InTrailer
  <2> QED BY <1>1, <1>3, <1>4, <2>2 DEF Parsing, ParseInv
<1> QED BY <1>8, <1>9

----------------------------------------------------------------------------
(* The headers *)

LEMMA MemberData ==
    ASSUME NEW i \in Nat, NEW n \in Nat, NEW f, NEW x, x = Member(i, n, f), NEW j \in 1 .. n
    PROVE  x[4 + j] = DataSym(i, j, f)
BY MemberAt

\* The symbols of a member in the file.
LEMMA SymbolAt ==
    ASSUME content \in Contents, NEW i \in 1 .. MemberCount, NEW p \in 1 .. Length(i) + 7,
           Base(i - 1) + p <= Len(file)
    PROVE  LET s == file[Base(i - 1) + p]
               l == Length(i)
           IN  /\ p = 1 => s = Sym("magic1", <<<<i, 0>>>>)
               /\ p = 2 => s = Sym("magic2", <<>>)
               /\ p \in 5 .. l + 4 => s = Sym(IF BadData(i) THEN "bad" ELSE "data", <<<<i, p - 4>>>>)
               /\ p = l + 5 => s = Sym("end", <<>>)
               /\ p = l + 6 => s.v = (IF i = MemberCount /\ content.fault = "check" THEN <<<<0, 0>>>> ELSE Units(i, l))
               /\ p = l + 7 => s.v = (IF i = MemberCount /\ content.fault = "len" THEN <<l + 1>> ELSE <<l>>)
<1>1. MemberCount \in Nat /\ Length(i) \in Nat /\ i \in Nat
      BY BaseFacts
<1>0. PICK f : f = FaultOf(content, i)
      OBVIOUS
<1>2. PICK l \in Nat : l = Length(i) /\ f = FaultOf(content, i)
      BY <1>0, <1>1
<1>3. f = (IF i = MemberCount THEN content.fault ELSE "none")
      BY <1>2 DEF FaultOf, MemberCount
<1>4. PICK x, s : x = Member(i, l, f) /\ s = file[Base(i - 1) + p]
      OBVIOUS
<1>5. s = x[p]
      BY <1>2, <1>4, FileMember DEF MemberOf, Length
<1>6. /\ x[1] = MagicSym(i) /\ x[2] = Sym("magic2", <<>>) /\ (\A j \in 1 .. l : x[4 + j] = DataSym(i, j, f))
      /\ x[l + 5] = Sym("end", <<>>) /\ x[l + 6] = CheckSym(i, l, f) /\ x[l + 7] = LenSym(l, f)
  <2>1. x[1] = MagicSym(i) /\ x[2] = Sym("magic2", <<>>)
        BY <1>1, <1>4, MemberAt, SMTT(30)
  <2>3. \A j \in 1 .. l : x[4 + j] = DataSym(i, j, f)
        BY <1>1, <1>4, MemberData
  <2>2. /\ x[l + 5] = Sym("end", <<>>) /\ x[l + 6] = CheckSym(i, l, f) /\ x[l + 7] = LenSym(l, f)
        BY <1>1, <1>4, MemberAt, SMTT(30)
  <2> QED BY <2>1, <2>2, <2>3
<1>7. BadData(i) <=> f = "data"
      BY <1>3 DEF BadData
<1>8. p \in 5 .. l + 4 => s = Sym(IF BadData(i) THEN "bad" ELSE "data", <<<<i, p - 4>>>>)
  <2> SUFFICES ASSUME p \in 5 .. l + 4 PROVE s = Sym(IF BadData(i) THEN "bad" ELSE "data", <<<<i, p - 4>>>>)
      OBVIOUS
  <2>1. PICK j \in 1 .. l : j = p - 4 /\ p = 4 + j
        OBVIOUS
  <2> QED BY <1>5, <1>6, <1>7, <2>1 DEF DataSym
<1>9. p = 1 => s = Sym("magic1", <<<<i, 0>>>>)
      BY <1>5, <1>6 DEF MagicSym
<1>10. p = 2 => s = Sym("magic2", <<>>)
      BY <1>5, <1>6
<1>11. p = l + 5 => s = Sym("end", <<>>)
      BY <1>5, <1>6
<1>12. p = l + 6 => s.v = (IF i = MemberCount /\ content.fault = "check" THEN <<<<0, 0>>>> ELSE Units(i, l))
      BY <1>3, <1>5, <1>6 DEF Sym, CheckSym
<1>13. p = l + 7 => s.v = (IF i = MemberCount /\ content.fault = "len" THEN <<l + 1>> ELSE <<l>>)
      BY <1>3, <1>5, <1>6 DEF Sym, LenSym
<1> QED BY <1>2, <1>4, <1>8, <1>9, <1>10, <1>11, <1>12, <1>13

\* The file ends before symbol p of member i: it was cut off there.
LEMMA CutAt ==
    ASSUME content \in Contents, NEW i \in 1 .. MemberCount, NEW p \in 1 .. Length(i) + 7,
           Base(i - 1) + p - 1 = Len(file)
    PROVE  /\ i = MemberCount /\ content.fault = "none" /\ content.cut > 0 /\ content.cut = Length(i) + 8 - p
           /\ Whole = i - 1 /\ (Missing <=> p = 2) /\ (Damaged <=> p >= 5)
           /\ (p # 2 => Rest = <<>>)
<1>1. PICK n \in Nat, c \in Nat, j \in Nat, z \in Nat :
         n = MemberCount /\ c = content.cut /\ j = content.junk /\ z = Len(file)
      BY BaseFacts, FileFacts
<1>2. i \in Nat /\ i <= n /\ n # 0 /\ i \in 0 .. n
      BY <1>1
<1>3. PICK l \in Nat, b \in Nat, e \in Nat, q \in Nat :
         l = Length(i) /\ b = Base(i - 1) /\ e = Base(n) /\ q = Base(i) /\ q = b + l + 7 /\ q <= e
  <2>1. /\ Length(i) \in Nat /\ Base(i - 1) \in Nat /\ Base(i) = Base(i - 1) + Length(i) + 7
        BY BaseFacts
  <2>2. Base(i) \in Nat /\ Base(i) <= Base(MemberCount)
        BY <1>1, <1>2, BaseFacts
  <2>3. Base(MemberCount) \in Nat
    <3>1. MemberCount \in 0 .. MemberCount
          BY <1>1
    <3> QED BY <3>1, BaseFacts
  <2> QED BY <1>1, <2>1, <2>2, <2>3
<1>4. PICK k \in Nat, y \in Nat : k = Length(n) /\ y = Base(n - 1) /\ e = y + k + 7
  <2>1. n \in 1 .. MemberCount
        BY <1>1, <1>2
  <2> QED BY <1>3, <2>1, BaseFacts
<1>5. /\ z = e - c + j /\ (c = 0 \/ (j = 0 /\ content.fault = "none")) /\ c <= 7 + k
      /\ p \in Nat /\ 1 <= p /\ p <= l + 7 /\ b + p - 1 = z
  <2>1. z = e - c + j /\ (c = 0 \/ (j = 0 /\ content.fault = "none")) /\ c <= 7 + k
        BY <1>1, <1>2, <1>3, <1>4, FileFacts
  <2>2. p \in 1 .. l + 7 /\ b + p - 1 = z
        BY <1>1, <1>3
  <2> QED BY <2>1, <2>2
<1>6. c > 0 /\ ~(q <= y) /\ (q = e => c = l + 8 - p /\ (c = l + 6 <=> p = 2) /\ (c <= l + 3 <=> p >= 5))
  <2>1. PICK r \in Nat : r = p /\ 1 <= r /\ r <= l + 7 /\ b + r - 1 = z
        BY <1>5
  <2>2. q = b + l + 7 /\ q <= e /\ z = e - c + j /\ (c = 0 \/ j = 0) /\ c <= 7 + k /\ e = y + k + 7
        BY <1>3, <1>4, <1>5
  <2>3. c > 0
        BY <2>1, <2>2
  <2>4. ~(q <= y)
        BY <2>1, <2>2, <2>3
  <2>5. q = e => c = l + 8 - r
        BY <2>1, <2>2, <2>3
  <2>6. q = e => (c = l + 6 <=> r = 2) /\ (c <= l + 3 <=> r >= 5)
        BY <2>5
  <2> QED BY <2>1, <2>3, <2>4, <2>5, <2>6
<1>7. i = n
  <2> SUFFICES ASSUME i # n PROVE FALSE
      OBVIOUS
  <2>1. n - 1 \in i .. Len(content.members) /\ i \in 0 .. Len(content.members)
        BY <1>1, <1>2 DEF MemberCount
  <2>2. Len(FirstMembers(content, i)) <= Len(FirstMembers(content, n - 1))
        BY <2>1, MembersPrefix
  <2> QED BY <1>3, <1>4, <1>6, <2>2 DEF Base
<1>8. q = e /\ k = l
      BY <1>3, <1>4, <1>7
<1>9. Whole = n - 1 /\ (Missing <=> c > 0 /\ c = k + 6)
  <2>1. c # 0 /\ content.cut # 0
        BY <1>1, <1>6
  <2>2. Whole = n - 1
        BY <1>1, <2>1, WholeIs
  <2>3. Missing <=> c > 0 /\ c = Length(MemberCount) + 6
        BY <1>1, WholeIs, Zenon
  <2> QED BY <1>1, <1>4, <2>2, <2>3
<1>10. (Missing <=> p = 2) /\ (Damaged <=> p >= 5)
  <2>1. Missing <=> p = 2
        BY <1>6, <1>8, <1>9
  <2>2. content.fault = "none"
        BY <1>5, <1>6
  <2>3. Damaged <=> c <= l + 3
        BY <1>1, <1>4, <1>6, <1>8, <2>2 DEF Damaged
  <2> QED BY <1>6, <1>8, <2>1, <2>3
<1>11. p # 2 => Rest = <<>>
  <2>1. j = 0 /\ n + 1 \in Nat
        BY <1>5, <1>6
  <2> QED BY <1>1, <1>10, <2>1, WholeIs, UnitsEmpty
<1>12. content.fault = "none" /\ content.cut > 0 /\ content.cut = Length(i) + 8 - p
      BY <1>1, <1>3, <1>5, <1>6, <1>8
<1> QED BY <1>1, <1>7, <1>9, <1>10, <1>11, <1>12

\* All members were read.
LEMMA BehindAll ==
    ASSUME content \in Contents, content.cut = 0, content.fault = "none"
    PROVE  /\ Whole = MemberCount /\ ~Damaged /\ ~Missing /\ MemberCount \in Nat /\ Base(MemberCount) \in Nat
           /\ Len(file) = Base(MemberCount) + content.junk /\ content.junk \in Nat
           /\ Rest = Units(MemberCount + 1, content.junk)
           /\ Len(file) = Base(MemberCount) => Rest = <<>>
<1>1. PICK n \in Nat, j \in Nat, b \in Nat : n = MemberCount /\ j = content.junk /\ b = Base(MemberCount)
      BY BaseFacts, FileFacts
<1>2. Whole = n /\ ~Damaged /\ ~Missing
      BY <1>1, WholeIs DEF Damaged
<1>3. Rest = Units(n + 1, j) /\ n + 1 \in Nat
      BY <1>1, <1>2, WholeIs
<1>4. Len(file) = b + j
  <2>1. Len(file) = b - 0 + j
        BY <1>1, FileFacts
  <2> QED BY <2>1
<1>5. Len(file) = b => Rest = <<>>
  <2>1. Len(file) = b => j = 0
        BY <1>1, <1>4
  <2> QED BY <1>3, <2>1, UnitsEmpty
<1> QED BY <1>1, <1>2, <1>3, <1>4, <1>5

\* get_header says that there is no member: the program ends, or it copies what follows.
LEMMA HeaderOut ==
    ASSUME Inv, ParseType, result = "none", NEW i \in 1 .. MemberCount + 1, InHeader(i), NEW r \in {-1, -2, -3}, NoHeader(r),
           UNCHANGED <<content, force, in, consumed, out_buf, outVars, out_tot, threads>>,
           in.left > 0 \/ in.eof, Whole = i - 1, ~Damaged, r = -1 => Rest = <<>>,
           r = -2 => /\ consumed = Base(i - 1) + 1 /\ m.magic1 = file[consumed]
                     /\ content.fault = "none" /\ (content.cut = 0 \/ Missing)
    PROVE  ParseType' /\ ParseInv'
<1>1. /\ content \in Contents /\ m \in MainRecord /\ content' = content /\ force' = force /\ in' = in /\ consumed' = consumed
      /\ output' = output /\ more' = more /\ out_check' = out_check /\ out_tot' = out_tot
      BY DEF Inv, LoadType, outVars
<1>2. ParseType'
      BY <1>1 DEF ParseType, ThreadsOK
<1>3. output = DataUpTo(Whole) /\ Freed /\ (m.first <=> i = 1)
      BY DEF InHeader
<1>4. Freed'
      BY <1>1, <1>3 DEF Freed
<1>5. CASE r = -2 /\ force
  <2>1. result' = "none" /\ m' = [m EXCEPT !.ret = r, !.pc = "cat"]
        BY <1>5 DEF NoHeader
  <2>2. m'.pc = "cat" /\ m'.magic1 = m.magic1
        BY <1>1, <2>1 DEF MainRecord
  <2>3. PICK b : b = Base(Whole)
        OBVIOUS
  <2>4. /\ file' = file /\ Missing' = Missing /\ Base(Whole)' = b /\ DataUpTo(Whole)' = DataUpTo(Whole)
        BY <1>1, <2>3, SameContent
  <2>5. consumed' = b + 1 /\ m'.magic1 = (file[consumed])' /\ output' = DataUpTo(Whole)'
    <3>1. (file[consumed])' = file[consumed]
          BY <1>1, <2>4
    <3> QED BY <1>1, <1>3, <1>5, <2>2, <2>3, <2>4, <3>1
  <2>6. InCat'
        BY <1>1, <1>4, <1>5, <2>2, <2>4, <2>5 DEF InCat
  <2> QED BY <1>2, <2>1, <2>6 DEF ParseInv, Parsing
<1>6. CASE ~(r = -2 /\ force)
  <2>1. result' = IF m.first THEN "skipped" ELSE IF r = -1 THEN "ok" ELSE "warned"
        BY <1>6 DEF NoHeader
  <2>2. /\ result' \in {"ok", "warned", "skipped"} /\ (result' = "ok" => r = -1) /\ (result' = "skipped" => m.first)
        BY <2>1
  <2>3. result' = "skipped" => Whole = 0
        BY <1>3, <2>2
  <2>4. Ended'
        BY <1>1, <1>3, <1>4, <2>2, <2>3, EndsWell
  <2> QED BY <1>2, <2>2, <2>4 DEF ParseInv
<1> QED BY <1>5, <1>6

\* One more symbol of the header.
LEMMA HeaderOn ==
    ASSUME Inv, ParseType, result = "none", NEW i \in 1 .. MemberCount + 1, InHeader(i),
           UNCHANGED <<content, force, out_buf, outVars, out_tot, threads, result>>, m'.first = m.first,
           \/ m'.pc = "magic2" /\ consumed' = Base(i - 1) + 1 /\ m'.magic1 = file[consumed']
           \/ m'.pc = "head" /\ i <= MemberCount /\ consumed' = Base(i - 1) + 2
           \/ m'.pc = "name" /\ i <= MemberCount /\ consumed' = Base(i - 1) + 3
    PROVE  ParseType' /\ ParseInv'
<1>1. /\ content' = content /\ output' = output /\ more' = more /\ out_check' = out_check /\ out_tot' = out_tot
      /\ out_buf' = out_buf /\ result' = "none"
      BY DEF outVars
<1>2. ParseType'
      BY <1>1 DEF ParseType, ThreadsOK
<1>3. /\ file' = file /\ MemberCount' = MemberCount /\ Base(i - 1)' = Base(i - 1) /\ DataUpTo(i - 1)' = DataUpTo(i - 1)
      BY <1>1, SameContent
<1>4. InHeader(i)'
      BY <1>1, <1>3 DEF InHeader, Freed
<1> QED BY <1>1, <1>2, <1>3, <1>4 DEF ParseInv, Parsing

LEMMA GetMagic1Parses ==
    ASSUME Inv, ParseType, ParseInv, GetMagic1
    PROVE  ParseType' /\ ParseInv'
<1>1. /\ Input /\ content \in Contents /\ m \in MainRecord /\ result = "none" /\ Parsing /\ m.pc = "magic1"
      /\ in.left > 0 \/ in.eof
      BY DEF Inv, Input, LoadType, GetMagic1, AtGet, ParseInv
<1>2. UNCHANGED <<content, force, out_buf, outVars, out_tot, threads>>
      BY DEF GetMagic1, mainRest, yarnVars
<1>3. PICK i \in 1 .. MemberCount + 1 : InHeader(i)
      BY <1>1, Where
<1>4. consumed = Base(i - 1) /\ (i > MemberCount => content.cut = 0 /\ content.fault = "none")
      BY <1>1, <1>3 DEF InHeader
<1>5. MemberCount \in Nat
      BY <1>1, BaseFacts
<1>6. CASE in.eof
  <2>1. UNCHANGED <<in, consumed>> /\ NoHeader(-1) /\ consumed = Len(file)
        BY <1>1, <1>6, GetIs DEF GetMagic1, Get
  <2>2. Whole = i - 1 /\ ~Damaged /\ Rest = <<>>
    <3>1. CASE i <= MemberCount
      <4>1. PICK l \in Nat, b \in Nat : l = Length(i) /\ b = Base(i - 1) /\ i \in 1 .. MemberCount
            BY <1>1, <1>5, <3>1, BaseFacts
      <4>2. 1 \in 1 .. Length(i) + 7
            BY <4>1
      <4>3. Base(i - 1) + 1 - 1 = Len(file)
            BY <1>4, <2>1, <4>1
      <4> QED BY <1>1, <4>1, <4>2, <4>3, CutAt
    <3>2. CASE i = MemberCount + 1
      <4>1. i - 1 = MemberCount /\ i > MemberCount
            BY <1>5, <3>2
      <4> QED BY <1>1, <1>4, <2>1, <4>1, BehindAll
    <3> QED BY <1>5, <3>1, <3>2
  <2>3. -1 \in {-1, -2, -3} /\ -1 # -2
        OBVIOUS
  <2> QED BY <1>1, <1>2, <1>3, <2>1, <2>2, <2>3, HeaderOut
<1>7. CASE ~in.eof
  <2>1. /\ m' = [m EXCEPT !.pc = "magic2", !.magic1 = Next1] /\ result' = result /\ consumed' = consumed + 1
        BY <1>7 DEF GetMagic1, Get
  <2>2. Next1 = file[consumed + 1]
        BY <1>1, <1>7, GetIs
  <2>3. m'.pc = "magic2" /\ m'.magic1 = Next1 /\ m'.first = m.first
        BY <1>1, <2>1 DEF MainRecord
  <2>4. m'.magic1 = file[consumed'] /\ consumed' = Base(i - 1) + 1
        BY <1>4, <2>1, <2>2, <2>3
  <2> QED BY <1>1, <1>2, <1>3, <2>1, <2>3, <2>4, HeaderOn
<1> QED BY <1>6, <1>7

LEMMA GetMagic2Parses ==
    ASSUME Inv, ParseType, ParseInv, GetMagic2
    PROVE  ParseType' /\ ParseInv'
<1>1. /\ Input /\ content \in Contents /\ m \in MainRecord /\ result = "none" /\ Parsing /\ m.pc = "magic2"
      /\ in.left > 0 \/ in.eof
      BY DEF Inv, Input, LoadType, GetMagic2, AtGet, ParseInv
<1>2. UNCHANGED <<content, force, out_buf, outVars, out_tot, threads>>
      BY DEF GetMagic2, mainRest, yarnVars
<1>3. PICK i \in 1 .. MemberCount + 1 : InHeader(i)
      BY <1>1, Where
<1>4. /\ consumed = Base(i - 1) + 1 /\ (i > MemberCount => content.cut = 0 /\ content.fault = "none")
      /\ m.magic1 = file[consumed]
      BY <1>1, <1>3 DEF InHeader
<1>5. MemberCount \in Nat /\ consumed <= Len(file) /\ Len(file) \in Nat
      BY <1>1, BaseFacts, GetIs
<1>6. -2 \in {-1, -2, -3} /\ -2 # -1
      OBVIOUS
<1>7. CASE i <= MemberCount
  <2>1. PICK l \in Nat, b \in Nat : l = Length(i) /\ b = Base(i - 1) /\ i \in 1 .. MemberCount
        BY <1>1, <1>5, <1>7, BaseFacts, SMTT(30)
  <2>2. 1 \in 1 .. Length(i) + 7 /\ 2 \in 1 .. Length(i) + 7
        BY <2>1
  <2>3. m.magic1.k = "magic1"
    <3>1. file[Base(i - 1) + 1] = Sym("magic1", <<<<i, 0>>>>)
          BY <1>1, <1>4, <1>5, <2>1, <2>2, SymbolAt
    <3> QED BY <1>4, <3>1 DEF Sym
  <2>4. CASE in.eof
    <3>1. consumed = Len(file) /\ Next1.k = "eof"
          BY <1>1, <2>4, GetIs
    <3>2. NoHeader(-2) /\ UNCHANGED <<in, consumed>>
          BY <3>1 DEF GetMagic2
    <3>3. Base(i - 1) + 2 - 1 = Len(file)
          BY <1>4, <2>1, <3>1
    <3>4. Whole = i - 1 /\ ~Damaged /\ Missing /\ content.fault = "none"
          BY <1>1, <2>1, <2>2, <3>3, CutAt
    <3> QED BY <1>1, <1>2, <1>3, <1>4, <1>6, <3>2, <3>4, HeaderOut
  <2>5. CASE ~in.eof
    <3>1. consumed + 1 <= Len(file) /\ Next1 = file[consumed + 1]
          BY <1>1, <2>5, GetIs
    <3>2. consumed + 1 = Base(i - 1) + 2
          BY <1>4, <2>1
    <3>3. file[Base(i - 1) + 2] = Sym("magic2", <<>>)
          BY <1>1, <2>1, <2>2, <3>1, <3>2, SymbolAt
    <3>4. Next1.k = "magic2"
          BY <3>1, <3>2, <3>3 DEF Sym
    <3>5. Get /\ m' = [m EXCEPT !.pc = "head"] /\ UNCHANGED result
          BY <2>3, <3>4 DEF GetMagic2
    <3>6. consumed' = Base(i - 1) + 2 /\ m'.pc = "head" /\ m'.first = m.first
          BY <1>1, <2>5, <3>2, <3>5 DEF Get, MainRecord
    <3> QED BY <1>1, <1>2, <1>3, <1>7, <3>5, <3>6, HeaderOn
  <2> QED BY <2>4, <2>5
<1>8. CASE i = MemberCount + 1
  <2>1. PICK n \in Nat, b \in Nat, j \in Nat : n = MemberCount /\ b = Base(n) /\ j = content.junk /\ i = n + 1 /\ i - 1 = n /\ i > n
        BY <1>1, <1>5, <1>8, BaseFacts, FileFacts
  <2>2. Whole = i - 1 /\ ~Damaged /\ Len(file) = b + j /\ content.cut = 0 /\ content.fault = "none"
        BY <1>1, <1>4, <2>1, BehindAll
  <2>3. 1 \in 1 .. j /\ consumed = b + 1
        BY <1>4, <1>5, <2>1, <2>2
  <2>4. file[consumed] = Sym("junk", <<<<n + 1, 1>>>>)
        BY <1>1, <2>1, <2>3, FileFacts
  <2>5. m.magic1.k = "junk"
        BY <1>4, <2>4 DEF Sym
  <2>6. NoHeader(-2) /\ UNCHANGED <<in, consumed>>
        BY <2>5 DEF GetMagic2
  <2> QED BY <1>1, <1>2, <1>3, <1>4, <1>6, <2>2, <2>6, HeaderOut
<1> QED BY <1>5, <1>7, <1>8

LEMMA GetHeadParses ==
    ASSUME Inv, ParseType, ParseInv, GetHead
    PROVE  ParseType' /\ ParseInv'
<1>1. /\ Input /\ content \in Contents /\ m \in MainRecord /\ result = "none" /\ Parsing /\ m.pc = "head"
      /\ in.left > 0 \/ in.eof
      BY DEF Inv, Input, LoadType, GetHead, AtGet, ParseInv
<1>2. UNCHANGED <<content, force, out_buf, outVars, out_tot, threads>>
      BY DEF GetHead, mainRest, yarnVars
<1>3. PICK i \in 1 .. MemberCount + 1 : InHeader(i)
      BY <1>1, Where
<1>4. consumed = Base(i - 1) + 2 /\ i <= MemberCount
      BY <1>1, <1>3 DEF InHeader
<1>5. PICK l \in Nat, b \in Nat : l = Length(i) /\ b = Base(i - 1) /\ i \in 1 .. MemberCount
      BY <1>1, <1>4, BaseFacts
<1>6. CASE in.eof
  <2>1. UNCHANGED <<in, consumed>> /\ NoHeader(-1) /\ consumed = Len(file)
        BY <1>1, <1>6, GetIs DEF GetHead, Get
  <2>2. 3 \in 1 .. Length(i) + 7 /\ Base(i - 1) + 3 - 1 = Len(file)
        BY <1>4, <1>5, <2>1
  <2>3. Whole = i - 1 /\ ~Damaged /\ Rest = <<>>
        BY <1>1, <1>5, <2>2, CutAt
  <2>4. -1 \in {-1, -2, -3} /\ -1 # -2
        OBVIOUS
  <2> QED BY <1>1, <1>2, <1>3, <2>1, <2>3, <2>4, HeaderOut
<1>7. CASE ~in.eof
  <2>1. m' = [m EXCEPT !.pc = "name"] /\ result' = result /\ consumed' = consumed + 1
        BY <1>7 DEF GetHead, Get
  <2>2. m'.pc = "name" /\ m'.first = m.first
        BY <1>1, <2>1 DEF MainRecord
  <2>3. consumed' = Base(i - 1) + 3
        BY <1>4, <1>5, <2>1
  <2> QED BY <1>1, <1>2, <1>3, <1>4, <2>1, <2>2, <2>3, HeaderOn
<1> QED BY <1>6, <1>7

LEMMA GetNameParses ==
    ASSUME Inv, ParseType, ParseInv, GetName
    PROVE  ParseType' /\ ParseInv'
<1>1. /\ Input /\ content \in Contents /\ m \in MainRecord /\ result = "none" /\ Parsing /\ m.pc = "name"
      /\ in.left > 0 \/ in.eof
      BY DEF Inv, Input, LoadType, GetName, AtGet, ParseInv
<1>2. UNCHANGED <<content, force, out_buf, out_copy, more, output, threads>>
      BY DEF GetName, mainRest, yarnVars
<1>3. PICK i \in 1 .. MemberCount + 1 : InHeader(i)
      BY <1>1, Where
<1>4. consumed = Base(i - 1) + 3 /\ i <= MemberCount /\ output = DataUpTo(i - 1) /\ out_buf = <<>> /\ Freed
      BY <1>1, <1>3 DEF InHeader
<1>5. PICK l \in Nat, b \in Nat : l = Length(i) /\ b = Base(i - 1) /\ i \in 1 .. MemberCount
      BY <1>1, <1>4, BaseFacts
<1>6. CASE in.eof
  <2>1. UNCHANGED <<in, consumed, outVars, out_tot>> /\ NoHeader(-3) /\ consumed = Len(file)
        BY <1>1, <1>2, <1>6, GetIs DEF GetName, Get, outVars
  <2>2. 4 \in 1 .. Length(i) + 7 /\ Base(i - 1) + 4 - 1 = Len(file)
        BY <1>4, <1>5, <2>1
  <2>3. Whole = i - 1 /\ ~Damaged
        BY <1>1, <1>5, <2>2, CutAt
  <2>4. -3 \in {-1, -2, -3} /\ -3 # -2 /\ -3 # -1
        OBVIOUS
  <2> QED BY <1>1, <1>2, <1>3, <2>1, <2>3, <2>4, HeaderOut
<1>7. CASE ~in.eof
  <2>1. /\ m' = [m EXCEPT !.pc = "inflate", !.ret = 8] /\ result' = result /\ consumed' = consumed + 1
        /\ out_tot' = 0 /\ out_check' = <<>>
        BY <1>7 DEF GetName, Get
  <2>2. m'.pc = "inflate"
        BY <1>1, <2>1 DEF MainRecord
  <2>3. PICK x \in Seq(Val) : x = DataUpTo(i - 1) /\ x = output
        BY <1>1, <1>4, <1>5, DataStep
  <2>4. ToWrite' = <<>> /\ ToCheck' = <<>> /\ Freed'
        BY <1>2, <1>4 DEF ToWrite, ToCheck, Freed
  <2>5. Units(i, 0) = <<>> /\ <<>> \in Seq(Val) /\ Len(<<>>) = 0 /\ x \o <<>> = x
        BY <2>3, UnitsEmpty, EmptySeq, ConcatEmptySeq
  <2>6. (<<>> \o <<>>) \o <<>> = <<>>
    <3>1. \A s \in Seq(Val) : s \o <<>> = s
          BY ConcatEmptySeq
    <3> QED BY <2>5, <3>1
  <2>7. DataUpTo(i - 1)' = x /\ Base(i - 1)' = b /\ MemberCount' = MemberCount /\ Length(i)' = l
        BY <1>2, <1>5, <2>3, SameContent
  <2>8. Piped(i, 0)'
    <3>1. (output' \o ToWrite') \o out_buf' = x
          BY <1>2, <1>4, <2>3, <2>4, <2>5
    <3>2. (out_check' \o ToCheck') \o out_buf' = <<>>
          BY <1>2, <1>4, <2>1, <2>4, <2>6
    <3>3. out_tot' + Len(out_buf') = 0
          BY <1>2, <1>4, <2>1, <2>5
    <3> QED BY <2>4, <2>5, <2>7, <3>1, <3>2, <3>3 DEF Piped
  <2>9. consumed' = b + 4 + 0
        BY <1>4, <1>5, <2>1
  <2>10. InData(i, 0)'
        BY <2>2, <2>7, <2>8, <2>9 DEF InData
  <2>11. 0 \in 0 .. Length(i)'
        BY <1>5, <2>7
  <2>12. ParseType'
        BY <1>2, <2>1, <2>5 DEF ParseType, ThreadsOK
  <2>13. Parsing'
        BY <1>5, <2>7, <2>10, <2>11 DEF Parsing
  <2> QED BY <1>1, <2>1, <2>12, <2>13 DEF ParseInv
<1> QED BY <1>6, <1>7

----------------------------------------------------------------------------
(* The data and the trailer *)

\* The symbol after unit d of member i.
LEMMA DataNext ==
    ASSUME Input, content \in Contents, in.left > 0 \/ in.eof, NEW i \in 1 .. MemberCount, NEW d \in 0 .. Length(i),
           consumed = Base(i - 1) + 4 + d
    PROVE  /\ in.eof => Next1.k = "eof" /\ Damaged
           /\ ~in.eof => \/ d < Length(i) /\ Next1 = Sym(IF BadData(i) THEN "bad" ELSE "data", <<<<i, d + 1>>>>)
                         \/ d = Length(i) /\ Next1 = Sym("end", <<>>)
           /\ BadData(i) => Length(i) > 0 /\ Damaged
<1>1. PICK l \in Nat, b \in Nat, e \in Nat, p \in Nat : l = Length(i) /\ b = Base(i - 1) /\ e = d /\ e <= l /\ p = e + 5
  <2>1. Length(i) \in Nat /\ Base(i - 1) \in Nat
        BY BaseFacts
  <2> QED BY <2>1
<1>2. p \in 1 .. Length(i) + 7 /\ consumed = b + p - 1 /\ consumed + 1 = b + p /\ p >= 5
      BY <1>1
<1>3. in.eof => Next1.k = "eof" /\ Damaged
  <2> SUFFICES ASSUME in.eof PROVE Next1.k = "eof" /\ Damaged
      OBVIOUS
  <2>1. consumed = Len(file) /\ Next1.k = "eof"
        BY GetIs
  <2>2. Base(i - 1) + p - 1 = Len(file)
        BY <1>1, <1>2, <2>1
  <2> QED BY <1>2, <2>1, <2>2, CutAt
<1>4. ~in.eof => \/ d < Length(i) /\ Next1 = Sym(IF BadData(i) THEN "bad" ELSE "data", <<<<i, d + 1>>>>)
                 \/ d = Length(i) /\ Next1 = Sym("end", <<>>)
  <2> SUFFICES ASSUME ~in.eof
               PROVE  \/ d < Length(i) /\ Next1 = Sym(IF BadData(i) THEN "bad" ELSE "data", <<<<i, d + 1>>>>)
                      \/ d = Length(i) /\ Next1 = Sym("end", <<>>)
      OBVIOUS
  <2>1. consumed + 1 <= Len(file) /\ Next1 = file[consumed + 1]
        BY GetIs
  <2>2. Base(i - 1) + p <= Len(file) /\ Next1 = file[Base(i - 1) + p]
        BY <1>1, <1>2, <2>1
  <2>3. /\ p \in 5 .. Length(i) + 4 => Next1 = Sym(IF BadData(i) THEN "bad" ELSE "data", <<<<i, p - 4>>>>)
        /\ p = Length(i) + 5 => Next1 = Sym("end", <<>>)
        BY <1>2, <2>2, SymbolAt
  <2>4. CASE e < l
    <3>1. p \in 5 .. Length(i) + 4 /\ p - 4 = d + 1 /\ d < Length(i)
          BY <1>1, <2>4
    <3> QED BY <2>3, <3>1
  <2>5. CASE e = l
    <3>1. p = Length(i) + 5 /\ d = Length(i)
          BY <1>1, <2>5
    <3> QED BY <2>3, <3>1
  <2> QED BY <1>1, <2>4, <2>5
<1>5. BadData(i) => Length(i) > 0 /\ Damaged
  <2> SUFFICES ASSUME BadData(i) PROVE Length(i) > 0 /\ Damaged
      OBVIOUS
  <2>1. content.fault = "data" /\ i = Len(content.members)
        BY DEF BadData, MemberCount
  <2>2. content.members[i] > 0
        BY <2>1, ContentType
  <2> QED BY <2>1, <2>2 DEF Length, Damaged
<1> QED BY <1>3, <1>4, <1>5

LEMMA UnitAfter ==
    ASSUME NEW x \in Seq(Val), NEW y \in Seq(Val), NEW u \in Seq(Val), NEW z, z = y \o u
    PROVE  (x \o y) \o u = x \o z
<1>1. (x \o y) \o u = x \o (y \o u)
      BY Assoc
<1> QED BY <1>1

\* Unit d of member i is added to the window, and nothing else is done to the output.
TakesUnit(i, d) ==
    /\ UNCHANGED <<content, out_copy, more, out_check, output, out_tot, threads>>
    /\ out_buf' = out_buf \o <<<<i, d>>>>

LEMMA PipedMore ==
    ASSUME Inv, ParseType, NEW i \in 1 .. MemberCount, NEW d \in Nat, Piped(i, d), TakesUnit(i, d + 1)
    PROVE  Piped(i, d + 1)'
<1>1. content \in Contents /\ i \in Nat /\ Length(i) \in Nat
  <2>1. content \in Contents
        BY DEF Inv, LoadType
  <2> QED BY <2>1, BaseFacts
<1>2. PICK q, b, c, t : q = output \o ToWrite /\ b = out_buf /\ c = out_check \o ToCheck /\ t = out_tot
      OBVIOUS
<1>3. PICK x, y, z, u : x = DataUpTo(i - 1) /\ y = Units(i, d) /\ z = Units(i, d + 1) /\ u = <<<<i, d + 1>>>>
      OBVIOUS
<1>4. q \in Seq(Val) /\ b \in Seq(Val) /\ c \in Seq(Val) /\ t \in Nat
  <2>1. output \in Seq(Val) /\ ToWrite \in Seq(Val) /\ out_check \in Seq(Val) /\ ToCheck \in Seq(Val)
        BY EmptySeq DEF ParseType, Inv, OutType, ToWrite, ToCheck
  <2>2. output \o ToWrite \in Seq(Val) /\ out_check \o ToCheck \in Seq(Val)
        BY <2>1, ConcatProperties
  <2> QED BY <1>2, <2>2 DEF Inv, OutType, ParseType
<1>5. x \in Seq(Val) /\ y \in Seq(Val) /\ u \in Seq(Val) /\ z = y \o u
  <2>1. d + 1 \in Nat /\ d <= d + 1
        OBVIOUS
  <2>2. \E s \in Seq(Val) : z = y \o s /\ s = u
        BY <1>1, <1>3, <2>1, UnitsSplit
  <2> QED BY <1>1, <1>3, <2>2, DataStep, UnitsIs
<1>6. q \o b = x \o y /\ c \o b = y /\ t + Len(b) = d /\ ("write" \in Ids \/ Freed)
      BY <1>2, <1>3 DEF Piped
<1>7. q \o (b \o u) = x \o z
  <2>3. q \in Seq(Val) /\ b \in Seq(Val) /\ u \in Seq(Val)
        BY <1>4, <1>5
  <2>4. (q \o b) \o u = q \o (b \o u)
        BY <2>3, AssocAll, Zenon
  <2>1. q \o (b \o u) = (x \o y) \o u
        BY <1>6, <2>4, Zenon
  <2>2. (x \o y) \o u = x \o z
        BY <1>5, UnitAfter, SMTT(30)
  <2> QED BY <2>1, <2>2
<1>8. c \o (b \o u) = z
  <2>3. c \in Seq(Val) /\ b \in Seq(Val) /\ u \in Seq(Val)
        BY <1>4, <1>5
  <2>4. (c \o b) \o u = c \o (b \o u)
        BY <2>3, AssocAll, Zenon
  <2>1. c \o (b \o u) = y \o u
        BY <1>6, <2>4, Zenon
  <2> QED BY <1>5, <2>1
<1>9. t + Len(b \o u) = d + 1
  <2>1. Len(u) = 1
        BY <1>3
  <2>2. Len(b \o u) = Len(b) + Len(u) /\ Len(b) \in Nat
        BY <1>4, <1>5, ConcatProperties, LenProperties
  <2>3. PICK n \in Nat : n = Len(b) /\ t + n = d /\ Len(b \o u) = n + 1
        BY <1>6, <2>1, <2>2
  <2>4. t + (n + 1) = (t + n) + 1
        BY <1>4
  <2> QED BY <2>3, <2>4
<1>10. /\ out_buf' = b \o u /\ (output \o ToWrite)' = q /\ (out_check \o ToCheck)' = c /\ out_tot' = t
       /\ Ids' = Ids /\ (Freed' <=> Freed)
      BY <1>2, <1>3 DEF ToWrite, ToCheck, Ids, Freed, TakesUnit
<1>11. DataUpTo(i - 1)' = x
      BY <1>3, SameContent DEF TakesUnit
<1> QED BY <1>3, <1>6, <1>7, <1>8, <1>9, <1>10, <1>11 DEF Piped

LEMMA InflateParses ==
    ASSUME Inv, ParseType, ParseInv, Inflate
    PROVE  ParseType' /\ ParseInv'
<1>1. /\ Input /\ content \in Contents /\ m \in MainRecord /\ result = "none" /\ Parsing /\ m.pc = "inflate"
      /\ in.left > 0 \/ in.eof
      BY DEF Inv, Input, LoadType, Inflate, AtGet, ParseInv
<1>2. UNCHANGED <<content, force, out_copy, more, out_check, output, out_tot, threads>>
      BY DEF Inflate, mainRest, yarnVars, outVars
<1>3. ParseType'
      BY <1>2 DEF ParseType, ThreadsOK
<1>4. PICK i \in 1 .. MemberCount : \E d \in 0 .. Length(i) : InData(i, d)
      BY <1>1, Where
<1>5. PICK d \in 0 .. Length(i) : InData(i, d)
      BY <1>4
<1>6. consumed = Base(i - 1) + 4 + d /\ Piped(i, d) /\ (BadData(i) => d = 0)
      BY <1>5 DEF InData
<1>7. PICK l \in Nat, b \in Nat : l = Length(i) /\ b = Base(i - 1) /\ d \in Nat /\ d <= l
  <2>1. Length(i) \in Nat /\ Base(i - 1) \in Nat
        BY <1>1, BaseFacts
  <2> QED BY <2>1
<1>8. /\ in.eof => Next1.k = "eof" /\ Damaged
      /\ ~in.eof => \/ d < l /\ Next1 = Sym(IF BadData(i) THEN "bad" ELSE "data", <<<<i, d + 1>>>>)
                    \/ d = l /\ Next1 = Sym("end", <<>>)
      /\ BadData(i) => l > 0 /\ Damaged
      BY <1>1, <1>6, <1>7, DataNext
<1>9. /\ MemberCount' = MemberCount /\ Base(i - 1)' = b /\ Length(i)' = l /\ BadData(i)' = BadData(i)
      BY <1>2, <1>7, SameContent
<1>10. CASE Next1.k = "data" /\ Get /\ out_buf' = out_buf \o Next1.v /\ UNCHANGED <<m, result>>
  <2>1. ~in.eof /\ d < l /\ ~BadData(i) /\ Next1.v = <<<<i, d + 1>>>>
        BY <1>8, <1>10 DEF Sym
  <2>2. TakesUnit(i, d + 1)
        BY <1>2, <1>10, <2>1 DEF TakesUnit
  <2>3. Piped(i, d + 1)'
        BY <1>6, <1>7, <2>2, PipedMore
  <2>4. consumed' = b + 4 + (d + 1)
        BY <1>6, <1>7, <1>10, <2>1 DEF Get
  <2>5. InData(i, d + 1)'
        BY <1>1, <1>9, <1>10, <2>1, <2>3, <2>4 DEF InData
  <2>6. d + 1 \in 0 .. Length(i)'
        BY <1>7, <1>9, <2>1
  <2> QED BY <1>1, <1>3, <1>9, <1>10, <2>5, <2>6 DEF ParseInv, Parsing
<1>11. CASE m' = [m EXCEPT !.pc = "outb"] /\ UNCHANGED <<in, consumed, out_buf, result>>
  <2>1. m'.pc = "outb"
        BY <1>1, <1>11 DEF MainRecord
  <2>2. Piped(i, d)'
    <3>1. /\ output' \o ToWrite' = output \o ToWrite /\ out_check' \o ToCheck' = out_check \o ToCheck
          /\ "write" \in Ids' \/ Freed'
          BY <1>2, <1>6 DEF ToWrite, ToCheck, Ids, Freed, Piped
    <3> QED BY <1>2, <1>6, <1>11, <3>1, PipedKeeps
  <2>3. InData(i, d)'
        BY <1>6, <1>7, <1>9, <1>11, <2>1, <2>2 DEF InData
  <2>4. d \in 0 .. Length(i)'
        BY <1>7, <1>9
  <2> QED BY <1>1, <1>3, <1>9, <1>11, <2>3, <2>4 DEF ParseInv, Parsing
<1>12. CASE /\ Next1.k = "end" /\ Get /\ m' = [m EXCEPT !.pc = IF out_buf = <<>> THEN "finish" ELSE "flush"]
            /\ UNCHANGED <<out_buf, result>>
  <2>1. ~in.eof /\ d = l /\ ~BadData(i)
    <3>1. ~in.eof /\ d = l
          BY <1>8, <1>12 DEF Sym
    <3> QED BY <1>6, <1>7, <1>8, <3>1
  <2>2. m'.pc \in {"flush", "finish"} /\ (m'.pc = "finish" => out_buf' = <<>>)
        BY <1>1, <1>12 DEF MainRecord
  <2>3. Piped(i, Length(i))'
    <3>1. /\ output' \o ToWrite' = output \o ToWrite /\ out_check' \o ToCheck' = out_check \o ToCheck
          /\ "write" \in Ids' \/ Freed'
          BY <1>2, <1>6 DEF ToWrite, ToCheck, Ids, Freed, Piped
    <3>2. d = Length(i)
          BY <1>7, <2>1
    <3> QED BY <1>2, <1>6, <1>12, <3>1, <3>2, PipedKeeps
  <2>4. consumed' = b + 5 + l
        BY <1>6, <1>7, <1>12, <2>1 DEF Get
  <2>5. InFlush(i)'
        BY <1>9, <2>1, <2>2, <2>3, <2>4 DEF InFlush
  <2> QED BY <1>1, <1>3, <1>9, <1>12, <2>5 DEF ParseInv, Parsing
<1>13. CASE Next1.k \notin {"data", "end"} /\ Bail
  <2>1. Damaged
        BY <1>8, <1>13 DEF Sym
  <2>2. IsPrefix(output, DataUpTo(MemberCount))
        BY <1>1, <1>6, PipedStarts DEF Inv
  <2>3. result' = "bail"
        BY <1>13 DEF Bail
  <2>4. Ended'
        BY <1>1, <1>2, <2>1, <2>2, <2>3, EndsBad
  <2> QED BY <1>3, <2>3, <2>4 DEF ParseInv
<1> QED BY <1>10, <1>11, <1>12, <1>13 DEF Inflate

LEMMA GetCheckParses ==
    ASSUME Inv, ParseType, ParseInv, GetCheck
    PROVE  ParseType' /\ ParseInv'
<1>1. /\ Input /\ content \in Contents /\ m \in MainRecord /\ result = "none" /\ Parsing /\ m.pc = "check"
      /\ in.left > 0 \/ in.eof
      BY DEF Inv, Input, LoadType, GetCheck, AtGet, ParseInv
<1>2. /\ UNCHANGED <<content, force, out_buf, out_copy, more, out_check, output, out_tot, threads, result>>
      /\ Get /\ m' = [m EXCEPT !.pc = "len", !.check = Next1.v]
      BY DEF GetCheck, mainRest, yarnVars, outVars
<1>3. ParseType'
      BY <1>2 DEF ParseType, ThreadsOK
<1>4. m'.pc = "len" /\ m'.check = Next1.v
      BY <1>1, <1>2 DEF MainRecord
<1>5. PICK i \in 1 .. MemberCount : InTrailer(i)
      BY <1>1, Where
<1>6. consumed = Base(i - 1) + 5 + Length(i)
      BY <1>1, <1>5 DEF InTrailer
<1>7. PICK l \in Nat, b \in Nat : l = Length(i) /\ b = Base(i - 1)
      BY <1>1, BaseFacts
<1>8. /\ MemberCount' = MemberCount /\ Base(i - 1)' = b /\ Length(i)' = l /\ BadData(i)' = BadData(i) /\ file' = file
      /\ DataUpTo(i)' = DataUpTo(i)
      BY <1>2, <1>7, SameContent
<1>9. Done(i)' /\ ~BadData(i)' /\ Freed'
      BY <1>2, <1>5, <1>7, <1>8 DEF InTrailer, Done, Freed
<1>10. CASE in.eof
  <2>1. consumed' = b + 5 + l /\ in'.eof
        BY <1>2, <1>6, <1>7, <1>10 DEF Get
  <2>2. InTrailer(i)'
        BY <1>4, <1>8, <1>9, <2>1 DEF InTrailer
  <2> QED BY <1>1, <1>2, <1>3, <1>8, <2>2 DEF ParseInv, Parsing
<1>11. CASE ~in.eof
  <2>1. consumed' = consumed + 1 /\ Next1 = file[consumed + 1]
        BY <1>1, <1>2, <1>11, GetIs DEF Get
  <2>2. consumed' = b + 6 + l
        BY <1>6, <1>7, <2>1
  <2>3. m'.check = (file[consumed].v)'
        BY <1>4, <1>8, <2>1
  <2>4. InTrailer(i)'
        BY <1>4, <1>8, <1>9, <2>2, <2>3 DEF InTrailer
  <2> QED BY <1>1, <1>2, <1>3, <1>8, <2>4 DEF ParseInv, Parsing
<1> QED BY <1>10, <1>11

\* A wrong check value is not the data of a member.
LEMMA WrongCheck ==
    ASSUME NEW i \in Nat, i > 0, NEW l \in Nat
    PROVE  <<<<0, 0>>>> # Units(i, l)
<1> SUFFICES ASSUME <<<<0, 0>>>> = Units(i, l) PROVE FALSE
    OBVIOUS
<1>1. PICK u : u = Units(i, l)
      OBVIOUS
<1>2. Len(u) = l /\ \A j \in 1 .. l : u[j] = <<i, j>>
      BY <1>1, UnitsIs
<1>3. u = <<<<0, 0>>>>
      BY <1>1
<1>4. Len(u) = 1 /\ u[1] = <<0, 0>>
      BY <1>3
<1>5. 1 \in 1 .. l
      BY <1>2, <1>4
<1>6. <<i, 1>> = <<0, 0>>
      BY <1>2, <1>4, <1>5
<1>7. i = 0
      BY <1>6
<1> QED BY <1>7

\* What the trailer of member i says.
LEMMA TrailerIs ==
    ASSUME Input, content \in Contents, NEW i \in 1 .. MemberCount, InTrailer(i), m.pc = "len", in.left > 0 \/ in.eof
    PROVE  /\ in.eof => Damaged
           /\ ~in.eof => /\ consumed + 1 = Base(i)
                         /\ (m.check # out_check \/ Next1.v # <<out_tot>>) => Damaged
                         /\ (m.check = out_check /\ Next1.v = <<out_tot>>) => (i = MemberCount => content.cut = 0 /\ content.fault = "none")
<1>1. PICK l \in Nat, b \in Nat, c \in Nat, z \in Nat : l = Length(i) /\ b = Base(i - 1) /\ c = consumed /\ z = Len(file)
  <2>1. Length(i) \in Nat /\ Base(i - 1) \in Nat
        BY BaseFacts
  <2> QED BY <2>1, GetIs
<1>2. out_check = Units(i, l) /\ out_tot = l /\ ~BadData(i)
      BY <1>1 DEF InTrailer, Done
<1>3. \/ c = b + 5 + l /\ in.eof
      \/ c = b + 6 + l /\ m.check = file[c].v
      BY <1>1 DEF InTrailer
<1>4. in.eof => Damaged
  <2> SUFFICES ASSUME in.eof PROVE Damaged
      OBVIOUS
  <2>1. c = z
        BY <1>1, GetIs
  <2>2. PICK p \in Nat : p \in {l + 6, l + 7} /\ c = b + p - 1
        BY <1>3
  <2>3. p \in 1 .. Length(i) + 7 /\ Base(i - 1) + p - 1 = Len(file) /\ p >= 5
        BY <1>1, <2>1, <2>2
  <2> QED BY <2>3, CutAt
<1>5. ASSUME ~in.eof
      PROVE  /\ consumed + 1 = Base(i)
             /\ (m.check # out_check \/ Next1.v # <<out_tot>>) => Damaged
             /\ (m.check = out_check /\ Next1.v = <<out_tot>>) => (i = MemberCount => content.cut = 0 /\ content.fault = "none")
  <2>1. c = b + 6 + l /\ m.check = file[c].v
        BY <1>3, <1>5
  <2>2. c + 1 <= z /\ Next1 = file[c + 1]
        BY <1>1, <1>5, GetIs
  <2>3. PICK p \in Nat, r \in Nat : p = l + 6 /\ r = l + 7 /\ c = b + p /\ c + 1 = b + r
        BY <2>1
  <2>4. /\ p \in 1 .. Length(i) + 7 /\ r \in 1 .. Length(i) + 7 /\ p = Length(i) + 6 /\ r = Length(i) + 7
        /\ Base(i - 1) + p <= Len(file) /\ Base(i - 1) + r <= Len(file) /\ l + 1 # l
    <3>1. p \in 1 .. l + 7 /\ r \in 1 .. l + 7 /\ p = l + 6 /\ r = l + 7
          BY <2>3
    <3>2. b + p <= z /\ b + r <= z /\ l + 1 # l
          BY <2>2, <2>3
    <3> QED BY <1>1, <3>1, <3>2
  <2>5. file[c].v = (IF i = MemberCount /\ content.fault = "check" THEN <<<<0, 0>>>> ELSE Units(i, l))
    <3>1. file[Base(i - 1) + p].v = (IF i = MemberCount /\ content.fault = "check" THEN <<<<0, 0>>>> ELSE Units(i, Length(i)))
          BY <2>4, SymbolAt
    <3> QED BY <1>1, <2>3, <3>1
  <2>6. file[c + 1].v = (IF i = MemberCount /\ content.fault = "len" THEN <<l + 1>> ELSE <<l>>)
    <3>1. file[Base(i - 1) + r].v = (IF i = MemberCount /\ content.fault = "len" THEN <<Length(i) + 1>> ELSE <<Length(i)>>)
          BY <2>4, SymbolAt
    <3> QED BY <1>1, <2>3, <3>1
  <2>7. c + 1 = Base(i)
    <3>1. Base(i) = Base(i - 1) + Length(i) + 7
          BY BaseFacts
    <3> QED BY <1>1, <2>1, <3>1
  <2>8. <<<<0, 0>>>> # Units(i, l)
    <3>1. i \in Nat /\ i > 0
          BY BaseFacts
    <3> QED BY <3>1, WrongCheck
  <2>9. <<l + 1>> # <<l>>
        BY <2>4
  <2>10. (m.check # out_check \/ Next1.v # <<out_tot>>) => content.fault # "none"
        BY <1>2, <2>1, <2>2, <2>5, <2>6
  <2>11. (m.check = out_check /\ Next1.v = <<out_tot>>) => (i = MemberCount => content.fault \notin {"check", "len"})
        BY <1>2, <2>1, <2>2, <2>5, <2>6, <2>8, <2>9
  <2>12. i = MemberCount => content.cut = 0
    <3> SUFFICES ASSUME i = MemberCount PROVE content.cut = 0
        OBVIOUS
    <3>1. PICK k \in Nat, j \in Nat, e \in Nat : k = content.cut /\ j = content.junk /\ e = Base(i) /\ z = e - k + j /\ (k = 0 \/ j = 0)
      <4>1. c + 1 \in Nat
            OBVIOUS
      <4>2. /\ content.cut \in Nat /\ content.junk \in Nat /\ Len(file) = Base(MemberCount) - content.cut + content.junk
            /\ content.cut = 0 \/ content.junk = 0
            BY FileFacts
      <4> QED BY <1>1, <2>7, <4>1, <4>2
    <3>2. e <= z
          BY <2>2, <2>7, <3>1
    <3> QED BY <3>1, <3>2
  <2>13. i = MemberCount => content.fault # "data" /\ content.fault \in {"none", "data", "check", "len"}
        BY <1>2, ContentType DEF BadData
  <2> QED BY <1>1, <2>7, <2>10, <2>11, <2>12, <2>13 DEF Damaged
<1> QED BY <1>4, <1>5

LEMMA GetLenParses ==
    ASSUME Inv, ParseType, ParseInv, GetLen
    PROVE  ParseType' /\ ParseInv'
<1>1. /\ Input /\ content \in Contents /\ m \in MainRecord /\ result = "none" /\ Parsing /\ m.pc = "len"
      /\ in.left > 0 \/ in.eof
      BY DEF Inv, Input, LoadType, GetLen, AtGet, ParseInv
<1>2. UNCHANGED <<content, force, out_buf, out_copy, more, out_check, output, out_tot, threads>> /\ Get
      BY DEF GetLen, mainRest, yarnVars, outVars
<1>3. ParseType'
      BY <1>2 DEF ParseType, ThreadsOK
<1>4. PICK i \in 1 .. MemberCount : InTrailer(i)
      BY <1>1, Where
<1>5. output = DataUpTo(i) /\ out_buf = <<>> /\ Freed
      BY <1>4 DEF InTrailer, Done
<1>6. MemberCount \in Nat /\ i \in 0 .. MemberCount
      BY <1>1, BaseFacts
<1>7. /\ in.eof => Damaged
      /\ ~in.eof => /\ consumed + 1 = Base(i)
                    /\ (m.check # out_check \/ Next1.v # <<out_tot>>) => Damaged
                    /\ (m.check = out_check /\ Next1.v = <<out_tot>>) => (i = MemberCount => content.cut = 0 /\ content.fault = "none")
      BY <1>1, <1>4, TrailerIs
<1>8. CASE in.eof \/ m.check # out_check \/ Next1.v # <<out_tot>>
  <2>1. Damaged
        BY <1>7, <1>8
  <2>2. result' = "bail"
        BY <1>8 DEF GetLen, Bail
  <2>3. IsPrefix(output, DataUpTo(MemberCount))
        BY <1>1, <1>5, <1>6, DataIsPrefix
  <2>4. Ended'
        BY <1>1, <1>2, <2>1, <2>2, <2>3, EndsBad
  <2> QED BY <1>3, <2>2, <2>4 DEF ParseInv
<1>9. CASE ~in.eof /\ m.check = out_check /\ Next1.v = <<out_tot>>
  <2>1. m' = [m EXCEPT !.pc = "magic1", !.first = FALSE] /\ result' = result /\ consumed' = consumed + 1
        BY <1>2, <1>9 DEF GetLen, Get
  <2>2. m'.pc = "magic1" /\ m'.first = FALSE
        BY <1>1, <2>1 DEF MainRecord
  <2>3. PICK k \in Nat : k = i + 1 /\ k - 1 = i /\ k # 1 /\ k \in 1 .. MemberCount + 1 /\ (k > MemberCount => i = MemberCount)
        BY <1>6
  <2>4. /\ MemberCount' = MemberCount /\ Base(k - 1)' = Base(k - 1) /\ DataUpTo(k - 1)' = DataUpTo(k - 1)
        BY <1>2, SameContent
  <2>5. /\ k > MemberCount => content.cut = 0 /\ content.fault = "none"
        /\ consumed' = Base(k - 1) /\ output = DataUpTo(k - 1)
        BY <1>5, <1>7, <1>9, <2>1, <2>3
  <2>6. InHeader(k)'
        BY <1>2, <1>5, <2>2, <2>3, <2>4, <2>5 DEF InHeader, Freed
  <2> QED BY <1>1, <1>3, <2>1, <2>3, <2>4, <2>6 DEF ParseInv, Parsing
<1> QED BY <1>8, <1>9

----------------------------------------------------------------------------
(* cat: copying what follows the members *)

\* The first n elements of s, each as a sequence of its own.
Singles(s, n) == [i \in 1 .. n |-> <<s[i]>>]

LEMMA SinglesStep ==
    ASSUME NEW s \in Seq(Val), NEW n \in 1 .. Len(s)
    PROVE  FlattenSeq(Singles(s, n)) = FlattenSeq(Singles(s, n - 1)) \o <<s[n]>>
<1>1. n \in Nat /\ n - 1 \in Nat /\ n \in 1 .. n /\ (\A i \in 1 .. n : i \in 1 .. Len(s)) /\ (\A i \in 1 .. n - 1 : i \in 1 .. n)
  <2>1. Len(s) \in Nat
        BY LenProperties
  <2> QED BY <2>1
<1>2. \A i \in 1 .. n : s[i] \in Val
      BY <1>1, ElementOfSeq
<1>3. PICK tt, ss : tt = Singles(s, n) /\ ss = Singles(s, n - 1)
      OBVIOUS
<1>4. tt \in [1 .. n -> Seq(Val)] /\ ss \in [1 .. n - 1 -> Seq(Val)]
  <2>1. \A i \in 1 .. n : <<s[i]>> \in Seq(Val)
        BY <1>2
  <2> QED BY <1>1, <1>3, <2>1 DEF Singles
<1>5. tt \in Seq(Seq(Val)) /\ Len(tt) = n /\ ss \in Seq(Seq(Val)) /\ Len(ss) = n - 1
      BY <1>1, <1>4, FunSeq
<1>6. /\ \A i \in 1 .. Len(ss) : tt[i] = ss[i]
      /\ tt[n] = <<s[n]>>
      BY <1>1, <1>3, <1>5 DEF Singles
<1>7. Len(tt) = Len(ss) + 1
      BY <1>1, <1>5
<1>8. FlattenSeq(tt) = FlattenSeq(ss) \o tt[Len(tt)]
      BY <1>5, <1>6, <1>7, FlattenStep
<1> QED BY <1>3, <1>5, <1>6, <1>8

LEMMA SinglesNone ==
    ASSUME NEW s
    PROVE  FlattenSeq(Singles(s, 0)) = <<>>
<1>1. PICK e : e = Singles(s, 0)
      OBVIOUS
<1>2. 1 .. 0 = {}
      OBVIOUS
<1>3. e \in [1 .. 0 -> Val]
      BY <1>1, <1>2 DEF Singles
<1>4. e \in Seq(Val) /\ Len(e) = 0
      BY <1>3, FunSeq
<1>5. FlattenSeq(e) = e /\ e = <<>>
      BY <1>4, EmptySeq DEF FlattenSeq
<1> QED BY <1>1, <1>5

\* The beginnings of a sequence grow by its elements.
LEMMA FirstPart ==
    ASSUME NEW s \in Seq(Val), NEW n \in 1 .. Len(s)
    PROVE  SubSeq(s, 1, n) = SubSeq(s, 1, n - 1) \o <<s[n]>>
<1>1. 1 \in 1 .. Len(s)
      BY LenProperties
<1> QED BY <1>1, SubSeqRecursiveSecond

LEMMA FlattenSingles ==
    ASSUME NEW s \in Seq(Val), NEW n \in 0 .. Len(s)
    PROVE  FlattenSeq(Singles(s, n)) = SubSeq(s, 1, n)
<1> DEFINE bad == {k \in 0 .. Len(s) : FlattenSeq(Singles(s, k)) # SubSeq(s, 1, k)}
<1>0. Len(s) \in Nat /\ n \in Nat
      BY LenProperties
<1> SUFFICES ASSUME bad # {} PROVE FALSE
  <2>1. bad = {} => FlattenSeq(Singles(s, n)) = SubSeq(s, 1, n)
        OBVIOUS
  <2> QED BY <2>1
<1>1. PICK k \in bad : \A j \in bad : k <= j
  <2>1. bad \subseteq Nat
        BY <1>0
  <2> HIDE DEF bad
  <2>2. Min(bad) \in bad /\ \A y \in bad : Min(bad) <= y
        BY <2>1, LeastPlace
  <2> QED BY <2>2
<1>2. k # 0
  <2>1. 1 \in Int /\ 0 \in Int /\ 0 < 1
        OBVIOUS
  <2>2. SubSeq(s, 1, 0) = <<>>
        BY <2>1, SubSeqEmpty
  <2>3. FlattenSeq(Singles(s, 0)) = SubSeq(s, 1, 0)
        BY <2>2, SinglesNone
  <2> QED BY <1>1, <2>3
<1>3. k \in 1 .. Len(s) /\ k - 1 \in 0 .. Len(s) /\ ~(k <= k - 1)
      BY <1>0, <1>1, <1>2
<1>4. FlattenSeq(Singles(s, k - 1)) = SubSeq(s, 1, k - 1)
      BY <1>1, <1>3
<1>5. FlattenSeq(Singles(s, k)) = SubSeq(s, 1, k)
      BY <1>3, <1>4, SinglesStep, FirstPart
<1> QED BY <1>1, <1>5

\* What follows the members in the file.
LEMMA RestAt ==
    ASSUME content \in Contents, content.fault = "none", content.cut = 0 \/ Missing
    PROVE  /\ ~Damaged /\ Base(Whole) \in Nat /\ Rest \in Seq(Val) /\ Len(Rest) \in Nat
           /\ Len(file) = Base(Whole) + Len(Rest)
           /\ \A j \in 1 .. Len(Rest) : file[Base(Whole) + j].v = <<Rest[j]>>
<1>1. CASE content.cut = 0
  <2>1. PICK n \in Nat, b \in Nat, j \in Nat : /\ n = MemberCount /\ b = Base(MemberCount) /\ j = content.junk /\ Whole = n
                                               /\ ~Damaged /\ Len(file) = b + j /\ Rest = Units(n + 1, j)
        BY <1>1, BehindAll
  <2>2. n + 1 \in Nat
        OBVIOUS
  <2>3. Rest \in Seq(Val) /\ Len(Rest) = j /\ \A k \in 1 .. j : Rest[k] = <<n + 1, k>>
        BY <2>1, <2>2, UnitsIs
  <2>4. ASSUME NEW k \in 1 .. j PROVE file[b + k].v = <<Rest[k]>>
    <3>1. file[b + k] = Sym("junk", <<<<n + 1, k>>>>)
          BY <2>1, FileFacts
    <3> QED BY <2>3, <3>1, SMTT(30) DEF Sym
  <2> QED BY <2>1, <2>3, <2>4
<1>2. CASE content.cut # 0
  <2>1. PICK n \in Nat, c \in Nat, l \in Nat, b \in Nat, e \in Nat :
           /\ n = MemberCount /\ c = content.cut /\ l = Length(n) /\ b = Base(n - 1) /\ e = Base(n) /\ e = b + l + 7
           /\ n \in 1 .. MemberCount
    <3>1. MemberCount \in 1 .. MemberCount /\ MemberCount \in Nat
          BY <1>2, WholeIs
    <3>2. Length(MemberCount) \in Nat /\ Base(MemberCount - 1) \in Nat /\ Base(MemberCount) = Base(MemberCount - 1) + Length(MemberCount) + 7
          BY <3>1, BaseFacts
    <3> QED BY <3>1, <3>2, FileFacts
  <2>2. Missing /\ c = l + 6 /\ Whole = n - 1 /\ Rest = <<<<n, 0>>>> /\ Rest \in Seq(Val)
        BY <1>2, <2>1, WholeIs
  <2>3. Len(file) = b + 1
    <3>1. Len(file) = e - c + 0
          BY <1>2, <2>1, FileFacts
    <3>2. e - c + 0 = b + 1
          BY <2>1, <2>2
    <3> QED BY <3>1, <3>2
  <2>4. Len(Rest) = 1 /\ Rest[1] = <<n, 0>>
        BY <2>2
  <2>5. file[b + 1].v = <<<<n, 0>>>>
    <3>1. 1 \in 1 .. Length(n) + 7 /\ Base(n - 1) + 1 <= Len(file)
          BY <2>1, <2>3, SMTT(30)
    <3>2. file[Base(n - 1) + 1] = Sym("magic1", <<<<n, 0>>>>)
          BY <2>1, <3>1, SymbolAt
    <3> QED BY <2>1, <3>2 DEF Sym
  <2>6. ~Damaged
    <3>1. ~(c <= l + 3)
          BY <2>2
    <3> QED BY <2>1, <3>1 DEF Damaged
  <2>7. Base(Whole) = b
        BY <2>1, <2>2
  <2>8. \A j \in 1 .. 1 : file[b + j].v = <<Rest[j]>>
        BY <2>4, <2>5
  <2> QED BY <2>2, <2>3, <2>4, <2>6, <2>7, <2>8
<1> QED BY <1>1, <1>2

\* cat goes on: k of the symbols behind the members were copied.
LEMMA CatOn ==
    ASSUME InCat, UNCHANGED <<content, force, more, result>>, result = "none", m'.pc = "copy",
           m'.load = "no" => in'.left > 0 \/ in'.eof,
           NEW k \in Nat, k > 0, Base(Whole) \in Nat, consumed' = Base(Whole) + k,
           output' = DataUpTo(Whole) \o SubSeq(Rest, 1, k)
    PROVE  ParseInv'
<1>0. PICK x, r : x = DataUpTo(Whole) /\ r = Rest
      OBVIOUS
<1>1. PICK b \in Nat : b = Base(Whole) /\ x = DataUpTo(Whole) /\ r = Rest
      BY <1>0
<1>2. Base(Whole)' = b /\ DataUpTo(Whole)' = x /\ Rest' = r /\ Missing' = Missing
      BY <1>1, SameContent
<1>3. consumed' > b /\ consumed' - b = k /\ output' = x \o SubSeq(r, 1, k)
      BY <1>1
<1>4. InCat'
      BY <1>2, <1>3 DEF InCat, Freed
<1> QED BY <1>4 DEF ParseInv, Parsing

LEMMA CatParses ==
    ASSUME Inv, ParseType, ParseInv, Cat
    PROVE  ParseType' /\ ParseInv'
<1>1. content \in Contents /\ m \in MainRecord /\ result = "none" /\ Parsing /\ m.pc = "cat" /\ Input
      BY DEF Inv, Input, LoadType, Cat, ParseInv
<1>2. /\ UNCHANGED <<content, force, in, consumed, out_buf, out_copy, more, out_check, threads, result>>
      /\ output' = output \o m.magic1.v /\ out_tot' = 1 /\ m' = [m EXCEPT !.pc = "copy"]
      BY DEF Cat, mainRest, yarnVars
<1>3. m'.pc = "copy" /\ m'.load = m.load /\ m.magic1.v \in Seq(Val)
      BY <1>1, <1>2 DEF MainRecord, Symbol
<1>4. ParseType'
  <2>1. output \in Seq(Val) /\ out_tot' \in Nat
        BY <1>2 DEF ParseType
  <2>2. output \o m.magic1.v \in Seq(Val)
        BY <1>3, <2>1, ConcatProperties
  <2> QED BY <1>2, <2>1, <2>2 DEF ParseType, ThreadsOK
<1>5. InCat
      BY <1>1, CatOnly
<1>6. /\ content.fault = "none" /\ (content.cut = 0 \/ Missing) /\ consumed = Base(Whole) + 1
      /\ output = DataUpTo(Whole) /\ m.magic1 = file[consumed] /\ (m.load = "no" => in.left > 0 \/ in.eof)
      BY <1>1, <1>5 DEF InCat
<1>7. PICK b \in Nat, n \in Nat, r \in Seq(Val) : /\ b = Base(Whole) /\ r = Rest /\ n = Len(Rest) /\ Len(file) = b + n
                                                 /\ \A j \in 1 .. n : file[b + j].v = <<r[j]>>
      BY <1>1, <1>6, RestAt
<1>8. consumed <= Len(file)
  <2>1. PICK l \in Nat, c \in Nat, z \in Nat : l = in.left /\ c = consumed /\ z = Len(file)
        BY <1>1, FileIs DEF Input, LoadType, InRecord
  <2>2. c + l <= z
        BY <1>1, <2>1 DEF Input, Taking, Ahead
  <2>3. c <= z
        BY <2>2
  <2> QED BY <2>1, <2>3
<1>9. 1 \in 1 .. n
      BY <1>6, <1>7, <1>8
<1>10. m.magic1.v = SubSeq(r, 1, 1)
  <2>1. 1 \in 1 .. Len(r) /\ 1 - 1 = 0 /\ r[1] \in Val
        BY <1>7, <1>9, ElementOfSeq
  <2>2. SubSeq(r, 1, 1) = SubSeq(r, 1, 0) \o <<r[1]>>
        BY <2>1, FirstPart
  <2>3. SubSeq(r, 1, 0) = <<>>
    <3>1. 1 \in Int /\ 0 \in Int /\ 0 < 1
          OBVIOUS
    <3> QED BY <3>1, SubSeqEmpty
  <2>4. <<r[1]>> \in Seq(Val) /\ <<>> \o <<r[1]>> = <<r[1]>>
    <3>1. <<r[1]>> \in Seq(Val)
          BY <2>1
    <3> QED BY <3>1, ConcatEmptySeq
  <2>5. m.magic1.v = <<r[1]>>
        BY <1>6, <1>7, <1>9
  <2> QED BY <2>2, <2>3, <2>4, <2>5
<1>11. ParseInv'
  <2>1. 1 \in Nat /\ 1 > 0 /\ Base(Whole) \in Nat /\ consumed' = Base(Whole) + 1
        BY <1>2, <1>6, <1>7
  <2>2. output' = DataUpTo(Whole) \o SubSeq(Rest, 1, 1)
        BY <1>2, <1>6, <1>7, <1>10
  <2>3. m'.load = "no" => in'.left > 0 \/ in'.eof
        BY <1>2, <1>3, <1>6
  <2> QED BY <1>1, <1>2, <1>3, <1>5, <2>1, <2>2, <2>3, CatOn
<1> QED BY <1>4, <1>11

\* l elements of r behind the first k.
LEMMA PartIs ==
    ASSUME NEW r \in Seq(Val), NEW k \in Nat, NEW l \in Nat, k + l <= Len(r)
    PROVE  /\ SubSeq(r, k + 1, k + l) \in Seq(Val) /\ Len(SubSeq(r, k + 1, k + l)) = l
           /\ \A i \in 1 .. l : SubSeq(r, k + 1, k + l)[i] = r[k + i]
           /\ SubSeq(r, 1, k) \in Seq(Val)
           /\ SubSeq(r, 1, k) \o SubSeq(r, k + 1, k + l) = SubSeq(r, 1, k + l)
<1>1. Len(r) \in Nat /\ \A i \in 1 .. Len(r) : r[i] \in Val
      BY LenProperties, ElementOfSeq
<1>2. /\ k + 1 \in Int /\ k + l \in Int /\ 1 \in Int /\ k \in Int
      /\ \A i \in k + 1 .. k + l : r[i] \in Val
      /\ \A i \in 1 .. k : r[i] \in Val
      BY <1>1
<1>0. PICK s : s = SubSeq(r, k + 1, k + l)
      OBVIOUS
<1>3. /\ s \in Seq(Val) /\ Len(s) = (IF k + 1 <= k + l THEN (k + l) - (k + 1) + 1 ELSE 0)
      /\ \A i \in 1 .. (k + l) - (k + 1) + 1 : s[i] = r[(k + 1) + i - 1]
      BY <1>0, <1>2, SubSeqProperties
<1>4. (k + l) - (k + 1) + 1 = l /\ (k + 1 <= k + l <=> l # 0)
      OBVIOUS
<1>5. \A i \in 1 .. l : (k + 1) + i - 1 = k + i
      OBVIOUS
<1>6. s \in Seq(Val) /\ Len(s) = l /\ (\A i \in 1 .. l : s[i] = r[k + i])
      BY <1>3, <1>4, <1>5
<1>7. SubSeq(r, 1, k) \in Seq(Val)
      BY <1>2, SubSeqProperties
<1>8. SubSeq(r, 1, k) \o s = SubSeq(r, 1, k + l)
  <2>1. 1 \in 1 .. Len(r) + 1 /\ k \in 1 - 1 .. Len(r) /\ k + l \in k .. Len(r)
        BY <1>1
  <2> QED BY <1>0, <2>1, ConcatAdjacentSubSeq
<1> QED BY <1>0, <1>6, <1>7, <1>8

\* Copying l more elements of r behind x and the first k.
Fits(r, x, k, l) == r \in Seq(Val) /\ x \in Seq(Val) /\ k \in Nat /\ l \in Nat /\ k + l <= Len(r)
Copied(r, x, k, l, s) ==
    /\ s \in Seq(Val) /\ Len(s) = l /\ \A i \in 1 .. l : s[i] = r[k + i]
    /\ (x \o SubSeq(r, 1, k)) \o s = x \o SubSeq(r, 1, k + l)

LEMMA CopyMore ==
    ASSUME NEW r, NEW x, NEW k, NEW l, Fits(r, x, k, l)
    PROVE  Copied(r, x, k, l, SubSeq(r, k + 1, k + l))
<1>0. r \in Seq(Val) /\ x \in Seq(Val) /\ k \in Nat /\ l \in Nat /\ k + l <= Len(r)
      BY DEF Fits
<1>1. PICK s, q, t : s = SubSeq(r, k + 1, k + l) /\ q = SubSeq(r, 1, k) /\ t = SubSeq(r, 1, k + l)
      OBVIOUS
<1>2. s \in Seq(Val) /\ Len(s) = l /\ (\A i \in 1 .. l : s[i] = r[k + i]) /\ q \in Seq(Val) /\ q \o s = t
      BY <1>0, <1>1, PartIs
<1>3. (x \o q) \o s = x \o (q \o s)
      BY <1>0, <1>2, AssocAll, Zenon
<1>4. (x \o q) \o s = x \o t
      BY <1>2, <1>3, Zenon
<1>5. (x \o SubSeq(r, 1, k)) \o s = x \o SubSeq(r, 1, k + l)
      BY <1>1, <1>4, Zenon
<1>6. Copied(r, x, k, l, s)
      BY <1>2, <1>5 DEF Copied
<1> QED BY <1>1, <1>6, Zenon

\* The end of cat: all was copied.
LEMMA CatEnds ==
    ASSUME Inv, ParseType, InCat, force, UNCHANGED <<content, force, more, output>>, result' = "ok",
           output = DataUpTo(Whole) \o Rest, ~Damaged
    PROVE  ParseInv'
<1>1. content \in Contents
      BY DEF Inv, LoadType
<1>2. /\ content' \in Contents /\ MemberCount' = MemberCount /\ (\A i : Length(i)' = Length(i))
      /\ (\A i : DataUpTo(i)' = DataUpTo(i)) /\ Whole' = Whole /\ Rest' = Rest /\ DataUpTo(Whole)' = DataUpTo(Whole)
      BY <1>1, SameContent
<1>3. DamageIsFound'
      BY <1>1, DamageIs DEF DamageIsFound
<1>4. IsPrefix(output, DataUpTo(Whole) \o Rest)
      BY StartsSelf, StartsIsPrefix DEF ParseType
<1>5. OutputIsData'
  <2>1. force' /\ IsPrefix(output, DataUpTo(Whole) \o Rest)'
        BY <1>2, <1>4
  <2>2. output' = DataUpTo(Whole)' \o (IF force' THEN Rest' ELSE <<>>)
        BY <1>2
  <2> QED BY <2>1, <2>2 DEF OutputIsData
<1>6. Freed'
      BY DEF InCat, Freed
<1> QED BY <1>3, <1>5, <1>6 DEF ParseInv, Ended

LEMMA CatRestParses ==
    ASSUME Inv, ParseType, ParseInv, CatRest
    PROVE  ParseType' /\ ParseInv'
<1>1. /\ content \in Contents /\ m \in MainRecord /\ in \in InRecord /\ result = "none" /\ Parsing /\ m.pc = "copy"
      /\ m.load = "no" /\ Input /\ Taking
      BY DEF Inv, Input, LoadType, CatRest, ParseInv
<1>2. UNCHANGED <<content, force, out_buf, out_copy, more, out_check, threads>>
      BY DEF CatRest, mainRest, yarnVars
<1>3. InCat
      BY <1>1, CatOnly
<1>4. /\ content.fault = "none" /\ (content.cut = 0 \/ Missing) /\ consumed > Base(Whole) /\ force
      /\ output = DataUpTo(Whole) \o SubSeq(Rest, 1, consumed - Base(Whole)) /\ (in.left > 0 \/ in.eof)
      BY <1>1, <1>3 DEF InCat
<1>5. PICK b \in Nat, n \in Nat, r \in Seq(Val) : /\ b = Base(Whole) /\ r = Rest /\ n = Len(r) /\ Len(file) = b + n
                                                 /\ \A j \in 1 .. n : file[b + j].v = <<r[j]>>
      BY <1>1, <1>4, RestAt
<1>6. ~Damaged
      BY <1>1, <1>4, RestAt
<1>7. PICK x \in Seq(Val) : x = DataUpTo(Whole)
      BY <1>1, WholeIs, DataType
<1>8. PICK l \in Nat, p \in Nat, c \in Nat, k \in Nat : l = in.left /\ p = in.next /\ c = consumed /\ c = b + k /\ k > 0 /\ k = c - b
  <2>1. in.left \in Nat /\ in.next \in Nat /\ consumed \in Nat
        BY <1>1 DEF Input, LoadType, InRecord
  <2>2. PICK c \in Nat : c = consumed /\ c > b
        BY <1>4, <1>5, <2>1
  <2>3. c - b \in Nat /\ c = b + (c - b) /\ c - b > 0
        BY <2>2
  <2> QED BY <2>1, <2>2, <2>3
<1>9. output = x \o SubSeq(r, 1, k)
      BY <1>4, <1>5, <1>7, <1>8
<1>10. c + l <= b + n /\ k + l <= n
  <2>1. c + l <= b + n
        BY <1>1, <1>5, <1>8 DEF Taking, Ahead
  <2> QED BY <1>8, <2>1
<1>11. CASE /\ in.left = 0 /\ result' = "ok" /\ UNCHANGED <<output, out_tot>>
  <2>1. consumed = Len(file)
        BY <1>1, <1>4, <1>8, <1>11, GetIs
  <2>2. k = Len(r)
    <3>1. b + k = b + n
          BY <1>5, <1>8, <2>1
    <3>2. k = n
          BY <3>1
    <3> QED BY <1>5, <3>2
  <2>3. output = x \o r
        BY <1>9, <2>2, SubSeqFull
  <2>4. ParseInv'
        BY <1>2, <1>3, <1>4, <1>5, <1>6, <1>7, <1>11, <2>3, CatEnds
  <2> QED BY <1>2, <1>11, <2>4 DEF ParseType, ThreadsOK
<1>12. CASE /\ in.left > 0
            /\ output' = output \o FlattenSeq([i \in 1 .. in.left |-> buf[in.cur][in.next + i - 1].v])
            /\ out_tot' = out_tot + in.left /\ consumed' = consumed + in.left
            /\ m' = [m EXCEPT !.load = "call"] /\ result' = result
  <2>1. PICK s : Copied(r, x, k, l, s)
    <3>1. Fits(r, x, k, l)
          BY <1>5, <1>10 DEF Fits
    <3> QED BY <3>1, CopyMore, Zenon
  <2>2. /\ s \in Seq(Val) /\ Len(s) = l /\ (\A i \in 1 .. l : s[i] = r[k + i])
        /\ (x \o SubSeq(r, 1, k)) \o s = x \o SubSeq(r, 1, k + l)
        BY <2>1 DEF Copied
  <2>3. [i \in 1 .. l |-> buf[in.cur][p + i - 1].v] = Singles(s, l)
    <3>1. ASSUME NEW i \in 1 .. l PROVE buf[in.cur][p + i - 1].v = <<s[i]>>
      <4>1. buf[in.cur][p + i - 1] = file[c + i]
            BY <1>1, <1>8 DEF Taking
      <4>2. c + i = b + (k + i) /\ k + i \in 1 .. n
            BY <1>8, <1>10
      <4>3. file[b + (k + i)].v = <<r[k + i]>>
            BY <1>5, <4>2
      <4> QED BY <2>2, <4>1, <4>2, <4>3
    <3> QED BY <3>1 DEF Singles
  <2>4. FlattenSeq(Singles(s, l)) = s
    <3>1. l \in 0 .. Len(s)
          BY <2>2
    <3>2. FlattenSeq(Singles(s, l)) = SubSeq(s, 1, Len(s))
          BY <2>2, <3>1, FlattenSingles
    <3> QED BY <2>2, <3>2, SubSeqFull
  <2>5. output' = x \o SubSeq(r, 1, k + l)
    <3>1. output' = output \o s
          BY <1>8, <1>12, <2>3, <2>4
    <3>2. (x \o SubSeq(r, 1, k)) \o s = x \o SubSeq(r, 1, k + l)
          BY <2>2
    <3> QED BY <1>9, <3>1, <3>2, Zenon
  <2>6. k + l \in Nat /\ k + l > 0 /\ consumed' = b + (k + l)
    <3>1. consumed' = (b + k) + l
          BY <1>8, <1>12
    <3>2. (b + k) + l = b + (k + l) /\ k + l \in Nat
          OBVIOUS
    <3>3. k + l > 0
          BY <1>8
    <3> QED BY <3>1, <3>2, <3>3
  <2>7. m'.pc = "copy" /\ m'.load = "call"
        BY <1>1, <1>12 DEF MainRecord
  <2>8. ParseInv'
    <3>1. /\ Base(Whole) \in Nat /\ consumed' = Base(Whole) + (k + l)
          /\ output' = DataUpTo(Whole) \o SubSeq(Rest, 1, k + l) /\ result' = result
          BY <1>5, <1>7, <1>12, <2>5, <2>6
    <3> QED BY <1>1, <1>2, <1>3, <2>6, <2>7, <3>1, CatOn
  <2>9. ParseType'
    <3>1. output \in Seq(Val) /\ output' = output \o s
          BY <1>8, <1>12, <2>3, <2>4 DEF ParseType
    <3>2. output \o s \in Seq(Val)
          BY <2>2, <3>1, ConcatProperties
    <3>3. out_tot' \in Nat
          BY <1>8, <1>12, SMTT(30) DEF ParseType
    <3> QED BY <1>2, <3>1, <3>2, <3>3 DEF ParseType, ThreadsOK
  <2> QED BY <2>8, <2>9
<1> QED BY <1>11, <1>12 DEF CatRest

----------------------------------------------------------------------------
(* What is written, and damage *)

LEMMA InitParses ==
    ASSUME Init
    PROVE  ParseType /\ ParseInv
<1>1. /\ content \in Contents /\ consumed = 0 /\ out_buf = <<>> /\ more = [write |-> -1, check |-> -1]
      /\ out_check = <<>> /\ out_tot = 0 /\ output = <<>> /\ result = "none" /\ threads = <<>>
      /\ m.pc = "magic1" /\ m.first
      BY DEF Init, YarnInit
<1>2. ParseType
  <2>1. <<>> \in Seq(Val) /\ <<>> \in Seq([id : HelperIds, done : BOOLEAN])
        BY EmptySeq
  <2> QED BY <1>1, <2>1 DEF ParseType, ThreadsOK
<1>3. MemberCount \in Nat /\ Base(0) = 0 /\ 0 \in 0 .. MemberCount
      BY <1>1, BaseFacts
<1>4. DataUpTo(0) = <<>>
      BY <1>1, <1>3, DataType
<1>5. 1 > MemberCount => content.cut = 0 /\ content.fault = "none"
  <2>1. 1 > MemberCount => MemberCount = 0
        BY <1>3
  <2> QED BY <1>1, <2>1, FileFacts
<1>6. Freed
      BY <1>1 DEF Freed
<1>7. InHeader(1)
  <2>1. 1 - 1 = 0
        OBVIOUS
  <2> QED BY <1>1, <1>3, <1>4, <1>5, <1>6, <2>1 DEF InHeader
<1>8. 1 \in 1 .. MemberCount + 1
      BY <1>3
<1> QED BY <1>1, <1>2, <1>7, <1>8 DEF ParseInv, Parsing

LEMMA NextParses ==
    ASSUME Inv, ParseType, ParseInv, [Next]_vars
    PROVE  ParseType' /\ ParseInv'
<1>1. CASE UNCHANGED vars
  <2>1. /\ UNCHANGED <<content, force, consumed, m, in, out_buf, outVars, out_tot, result>>
        /\ threads' = threads
        BY <1>1 DEF vars, yarnVars
  <2>2. ThreadsOK' /\ ("write" \in Ids => "write" \in Ids')
        BY <2>1 DEF ThreadsOK, Ids, ParseType
  <2> QED BY <2>1, <2>2, Quiet
<1>2. CASE LoadCall \/ LoadTake \/ LoadJoin
      BY <1>2, LoadCallParses, LoadTakeParses, LoadJoinParses
<1>3. CASE GetMagic1 \/ GetMagic2 \/ GetHead \/ GetName
      BY <1>3, GetMagic1Parses, GetMagic2Parses, GetHeadParses, GetNameParses
<1>4. CASE Cat \/ CatRest
      BY <1>4, CatParses, CatRestParses
<1>5. CASE Inflate \/ Outb
      BY <1>5, InflateParses, OutbParses
<1>6. CASE \E t \in OutThreads : OutbLaunch(t)
      BY <1>6, OutbLaunchParses
<1>7. CASE JoinCheck \/ JoinWrite
      BY <1>7, JoinsParse
<1>8. CASE GetCheck \/ GetLen
      BY <1>8, GetCheckParses, GetLenParses
<1>9. CASE OutbWrite \/ OutbCheck
      BY <1>9, OutbWriteParses, OutbCheckParses
<1>10. CASE LoadRead \/ \E t \in HelperIds : ThreadEnds(t)
      BY <1>10, QuietParses
<1> QED BY <1>1, <1>2, <1>3, <1>4, <1>5, <1>6, <1>7, <1>8, <1>9, <1>10 DEF Next, MainStep

\* While cat copies, what was written is the data of the complete members and a part of the rest.
LEMMA CatPrefix ==
    ASSUME Inv, ParseType, InCat, m.pc = "copy"
    PROVE  IsPrefix(output, DataUpTo(Whole) \o Rest)
<1>1. /\ content \in Contents /\ content.fault = "none" /\ (content.cut = 0 \/ Missing) /\ Taking
      /\ output = DataUpTo(Whole) \o SubSeq(Rest, 1, consumed - Base(Whole)) /\ consumed > Base(Whole)
      /\ in.left \in Nat /\ consumed \in Nat
      BY DEF Inv, LoadType, InCat, InRecord
<1>2. PICK r \in Seq(Val), b \in Nat, n \in Nat : r = Rest /\ b = Base(Whole) /\ n = Len(r) /\ Len(file) = b + n
      BY <1>1, RestAt
<1>3. PICK k \in Nat : k = consumed - b /\ k <= n
  <2>1. PICK c \in Nat, l \in Nat : c = consumed /\ l = in.left /\ c > b /\ c + l <= b + n
        BY <1>1, <1>2 DEF Taking, Ahead
  <2>2. c - b \in Nat /\ c - b <= n
        BY <2>1
  <2> QED BY <2>1, <2>2
<1>4. PICK l \in Nat : k + l = n
  <2>1. n - k \in Nat /\ k + (n - k) = n
        BY <1>3
  <2> QED BY <2>1
<1>5. PICK q, s : q = SubSeq(r, 1, k) /\ s = SubSeq(r, k + 1, k + l)
      OBVIOUS
<1>6. q \in Seq(Val) /\ s \in Seq(Val) /\ q \o s = SubSeq(r, 1, k + l)
  <2>1. k + l <= Len(r)
        BY <1>2, <1>4
  <2> QED BY <1>5, <2>1, PartIs
<1>7. q \o s = r
  <2>1. SubSeq(r, 1, Len(r)) = r
        BY <1>2, SubSeqFull
  <2> QED BY <1>2, <1>4, <1>6, <2>1
<1>8. PICK x : x = DataUpTo(Whole) /\ x \in Seq(Val)
      BY <1>1, WholeIs, DataType
<1>9. Starts(x \o q, x \o r)
      BY <1>6, <1>7, <1>8, StartsMore
<1>10. x \o q \in Seq(Val) /\ x \o r \in Seq(Val)
      BY <1>2, <1>6, <1>8, ConcatProperties
<1>11. IsPrefix(x \o q, x \o r)
      BY <1>9, <1>10, StartsIsPrefix
<1>12. output = x \o q
      BY <1>1, <1>2, <1>3, <1>5, <1>8
<1> QED BY <1>2, <1>8, <1>11, <1>12

LEMMA ParsesRight ==
    ASSUME Inv, ParseType, ParseInv
    PROVE  OutputIsData /\ DamageIsFound
<1>1. CASE result # "none"
      BY <1>1 DEF ParseInv, Ended
<1>2. CASE result = "none"
  <2>1. content \in Contents /\ OutType /\ Parsing /\ MemberCount \in Nat
        BY <1>2, BaseFacts DEF Inv, LoadType, ParseInv
  <2>2. IsPrefix(output, DataUpTo(MemberCount)) \/ (force /\ IsPrefix(output, DataUpTo(Whole) \o Rest))
    <3>1. ASSUME NEW i \in 1 .. MemberCount + 1, InHeader(i)
          PROVE  IsPrefix(output, DataUpTo(MemberCount))
      <4>1. i - 1 \in 0 .. MemberCount
            BY <2>1
      <4>2. output = DataUpTo(i - 1)
            BY <3>1 DEF InHeader
      <4> QED BY <2>1, <4>1, <4>2, DataIsPrefix
    <3>2. ASSUME NEW i \in 1 .. MemberCount, InJoin(i) \/ InTrailer(i)
          PROVE  IsPrefix(output, DataUpTo(MemberCount))
      <4>1. i \in 0 .. MemberCount
            BY <2>1
      <4>2. output = DataUpTo(i)
            BY <3>2 DEF InJoin, InTrailer, Done
      <4> QED BY <2>1, <4>1, <4>2, DataIsPrefix
    <3>3. ASSUME NEW i \in 1 .. MemberCount, NEW d \in 0 .. Length(i), InData(i, d)
          PROVE  IsPrefix(output, DataUpTo(MemberCount))
          BY <2>1, <3>3, PipedStarts DEF InData
    <3>4. ASSUME NEW i \in 1 .. MemberCount, InFlush(i)
          PROVE  IsPrefix(output, DataUpTo(MemberCount))
      <4>1. Length(i) \in 0 .. Length(i)
            BY <2>1, BaseFacts
      <4>2. Piped(i, Length(i))
            BY <3>4 DEF InFlush
      <4> QED BY <2>1, <4>1, <4>2, PipedStarts
    <3>5. ASSUME InCat
          PROVE  IsPrefix(output, DataUpTo(MemberCount)) \/ (force /\ IsPrefix(output, DataUpTo(Whole) \o Rest))
      <4>1. CASE m.pc = "copy"
            BY <3>5, <4>1, CatPrefix DEF InCat
      <4>2. CASE output = DataUpTo(Whole)
            BY <2>1, <4>2, WholeIs, DataIsPrefix
      <4> QED BY <3>5, <4>1, <4>2 DEF InCat
    <3> QED BY <2>1, <3>1, <3>2, <3>3, <3>4, <3>5 DEF Parsing
  <2>3. OutputIsData
        BY <1>2, <2>2 DEF OutputIsData, MemberCount
  <2>4. DamageIsFound
        BY <1>2 DEF DamageIsFound
  <2> QED BY <2>3, <2>4
<1> QED BY <1>1, <1>2

\* infchk, cat, outb and the output threads, for every file and every size of the buffers: what is
\* written is at any time a beginning of the data of the members in order, and at the end all of it.
THEOREM OutputRight == Spec => []OutputIsData
<1>1. Init => Inv /\ ParseType /\ ParseInv
      BY InitInv, InitParses
<1>2. Inv /\ ParseType /\ ParseInv /\ [Next]_vars => Inv' /\ ParseType' /\ ParseInv'
      BY NextInv, NextParses
<1>3. Inv /\ ParseType /\ ParseInv => OutputIsData
      BY ParsesRight
<1> QED BY <1>1, <1>2, <1>3, PTL DEF Spec

\* infchk and its trailer, for every file and every size of the buffers: decompression ends with an
\* error exactly when a member is damaged or cut in its data or trailer.
THEOREM DamageFound == Spec => []DamageIsFound
<1>1. Init => Inv /\ ParseType /\ ParseInv
      BY InitInv, InitParses
<1>2. Inv /\ ParseType /\ ParseInv /\ [Next]_vars => Inv' /\ ParseType' /\ ParseInv'
      BY NextInv, NextParses
<1>3. Inv /\ ParseType /\ ParseInv => DamageIsFound
      BY ParsesRight
<1> QED BY <1>1, <1>2, <1>3, PTL DEF Spec

=============================================================================
