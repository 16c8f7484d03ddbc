-------------------------- MODULE FdmiTablesProofs --------------------------
(***************************************************************************)
(* Proofs about the linked list of fdmi_queue.c, for any number of nodes,  *)
(* elements and threads: that it stays in order as a queue with walks that *)
(* remove, as a bucket of the hash table and as the cache of fdmi_reg_mr;  *)
(* that lookups in the table find what was added; that the cache holds     *)
(* what is registered; and that the list implements the sequence of        *)
(* ListQueue, step by step.                                                *)
(***************************************************************************)
EXTENDS FdmiTables, QueueLemmas, FiniteSetTheorems

----------------------------------------------------------------------------
(* The inductive invariant *)

\* What the variables of the list hold.
QueueType ==
    /\ list \in Seq(Node) /\ next \in [Node -> Node \cup {NULL}]
    /\ data \in [Node -> Data \cup {NULL}]
    /\ live \subseteq Node /\ length \in Int /\ at \in Int /\ ite \in Node \cup {NULL}

OpRecord ==
    [pc : {"idle", "walk", "remove", "destroy", "gone"}, d : Data \cup {NULL},
     held : BOOLEAN, old_d : Node \cup {NULL}, cur_d : Node \cup {NULL},
     k : Int, back : {"idle", "walk"}]
OpType == op \in OpRecord

\* A lookup and a registration.
GetType ==
    get \in [Walkers -> [pc : {"idle", "next"}, key : Key \cup {NULL}, must : BOOLEAN,
                         disturbed : BOOLEAN, ret : Data \cup {NULL}]]

RegType ==
    reg \in [Thread -> [pc : {"idle", "register", "insert"}, key : Key \cup {NULL},
                        size : Nat, try : Int, ret : Data \cup {NULL}]]

\* Following next from head gives the nodes in list, allocated and none twice.
Chain ==
    /\ \A i \in 1 .. Len(list) :
          /\ list[i] \in live /\ next[list[i]] = Entry(i + 1)
          /\ \A j \in 1 .. i - 1 : list[j] # list[i]
    /\ head = Entry(1)

\* tail and length lag behind by one while fdmi_hashtable_add is between its two steps.
Pending == IF adding = NULL THEN 0 ELSE 1
Ends == tail = Entry(Len(list) - Pending) /\ length = Len(list) - Pending

AddingInv == adding # NULL => use = "itop" /\ Len(list) > 0 /\ adding = list[Len(list)]

\* Who uses the list.
UseInv ==
    /\ op.pc # "idle" => use = "queue"
    /\ \A w \in Walkers : get[w].pc # "idle" => use = "itop"
    /\ \A t \in Thread : reg[t].pc # "idle" => use = "mr" /\ reg[t].key \in Key /\ reg[t].size \in Val

\* A removal in progress is at entry k, and the element that a walk removes is still to
\* come, before the iterator.
RemoveInv ==
    op.pc = "remove" =>
       /\ op.k \in 2 .. Len(list) + 1 /\ ~ op.held
       /\ op.back = "walk" => \E j \in op.k .. at - 1 : data[list[j]] = op.d

\* The list with its walk, and the whole.
QueueInv == QueueType /\ OpType /\ Chain /\ Ends /\ WalkOK /\ RemoveInv
ListInv  == QueueInv /\ GetType /\ RegType /\ AddingInv /\ UseInv

----------------------------------------------------------------------------
(* Sequences, point by point *)

----------------------------------------------------------------------------
(* What the operations do to the list *)

\* The node of an entry, and what is not an entry.
LEMMA Entries ==
    ASSUME QueueType
    PROVE  /\ Len(list) \in Nat
           /\ \A i \in 1 .. Len(list) : list[i] \in Node /\ Entry(i) = list[i] /\ Entry(i) # NULL
           /\ \A i \in Int : i \notin 1 .. Len(list) => Entry(i) = NULL
<1>1. Len(list) \in Nat
      BY LenProperties DEF QueueType
<1>2. \A i \in 1 .. Len(list) : list[i] \in Node
      BY <1>1, ElementOfSeq DEF QueueType
<1> QED BY <1>1, <1>2, QueueAssumption DEF Entry

\* Chain, point by point.
LEMMA ChainPoints ==
    ASSUME QueueType, Chain
    PROVE  /\ \A i \in 1 .. Len(list) : list[i] \in live
           /\ \A i \in 1 .. Len(list) - 1 : next[list[i]] = list[i + 1]
           /\ Len(list) > 0 => next[list[Len(list)]] = NULL
           /\ \A i, j \in 1 .. Len(list) : i # j => list[i] # list[j]
           /\ Len(list) > 0 => head = list[1]
           /\ Len(list) = 0 => head = NULL
<1>1. /\ Len(list) \in Nat
      /\ \A i \in 1 .. Len(list) : Entry(i) = list[i]
      /\ \A i \in Int : i \notin 1 .. Len(list) => Entry(i) = NULL
      BY Entries
<1>2. \A i \in 1 .. Len(list) : list[i] \in live /\ next[list[i]] = Entry(i + 1)
      BY DEF Chain
<1>3. ASSUME NEW i \in 1 .. Len(list), NEW j \in 1 .. Len(list), i < j
      PROVE  list[i] # list[j]
  <2>1. i \in 1 .. j - 1
        BY <1>1, <1>3
  <2> QED BY <2>1 DEF Chain
<1>4. \A i, j \in 1 .. Len(list) : i # j => list[i] # list[j]
  <2> SUFFICES ASSUME NEW i \in 1 .. Len(list), NEW j \in 1 .. Len(list), i # j
               PROVE  list[i] # list[j]
      OBVIOUS
  <2>1. i < j \/ j < i
        BY <1>1
  <2> QED BY <1>3, <2>1
<1> HIDE DEF Entry
<1> QED BY <1>1, <1>2, <1>4 DEF Chain

\* Chain from its points, for any list, next, live and head: those after a step too.
LEMMA PointsChain ==
    ASSUME NEW l \in Seq(Node), NEW nx, NEW lv, NEW hd,
           \A i \in 1 .. Len(l) : l[i] \in lv,
           \A i \in 1 .. Len(l) - 1 : nx[l[i]] = l[i + 1],
           Len(l) > 0 => nx[l[Len(l)]] = NULL,
           \A i, j \in 1 .. Len(l) : i # j => l[i] # l[j],
           Len(l) > 0 => hd = l[1],
           Len(l) = 0 => hd = NULL
    PROVE  /\ \A i \in 1 .. Len(l) :
                /\ l[i] \in lv
                /\ nx[l[i]] = IF i + 1 \in 1 .. Len(l) THEN l[i + 1] ELSE NULL
                /\ \A j \in 1 .. i - 1 : l[j] # l[i]
           /\ hd = IF 1 \in 1 .. Len(l) THEN l[1] ELSE NULL
<1>1. Len(l) \in Nat
      BY LenProperties
<1>2. ASSUME NEW i \in 1 .. Len(l)
      PROVE  /\ nx[l[i]] = IF i + 1 \in 1 .. Len(l) THEN l[i + 1] ELSE NULL
             /\ \A j \in 1 .. i - 1 : l[j] # l[i]
  <2>1. nx[l[i]] = IF i + 1 \in 1 .. Len(l) THEN l[i + 1] ELSE NULL
    <3>1. CASE i = Len(l)
          BY <1>1, <3>1
    <3>2. CASE i < Len(l)
          BY <1>1, <3>2
    <3> QED BY <1>1, <3>1, <3>2
  <2>2. \A j \in 1 .. i - 1 : l[j] # l[i]
        BY <1>1
  <2> QED BY <2>1, <2>2
<1> QED BY <1>1, <1>2

\* fdmi_queue_enq: a node that malloc has returned goes to the end of the chain.
LEMMA LinkKeepsChain ==
    ASSUME QueueType, Chain, Ends, adding = NULL, NEW n \in Node, NEW d \in Data, EnqLink(n, d)
    PROVE  /\ list' \in Seq(Node) /\ next' \in [Node -> Node \cup {NULL}]
           /\ data' \in [Node -> Data \cup {NULL}] /\ live' \subseteq Node
           /\ Chain'
           /\ Len(list') = Len(list) + 1 /\ list'[Len(list) + 1] = n
           /\ \A i \in 1 .. Len(list) : list'[i] = list[i]
<1>1. /\ Len(list) \in Nat
      /\ \A i \in 1 .. Len(list) : list[i] \in Node /\ Entry(i) = list[i] /\ Entry(i) # NULL
      /\ \A i \in Int : i \notin 1 .. Len(list) => Entry(i) = NULL
      BY Entries
<1>2. /\ list' \in Seq(Node) /\ Len(list') = Len(list) + 1 /\ list'[Len(list) + 1] = n
      /\ \A i \in 1 .. Len(list) : list'[i] = list[i]
      BY AppendProperties DEF QueueType, EnqLink
<1>3. n \notin live /\ live' = live \cup {n} /\ data' = [data EXCEPT ![n] = d]
      BY DEF EnqLink
<1>c. /\ \A i \in 1 .. Len(list) : list[i] \in live
      /\ \A i \in 1 .. Len(list) - 1 : next[list[i]] = list[i + 1]
      /\ \A i, j \in 1 .. Len(list) : i # j => list[i] # list[j]
      BY ChainPoints
<1>4. \A i \in 1 .. Len(list) : list[i] # n
      BY <1>3, <1>c
<1>5. tail = Entry(Len(list)) /\ head = Entry(1)
      BY <1>1 DEF Ends, Pending, Chain
<1>6. \A i \in 1 .. Len(list) + 1 :
         next'[list'[i]] = IF i < Len(list) + 1 THEN list'[i + 1] ELSE NULL
  <2>1. CASE Len(list) = 0
    <3>1. next' = [next EXCEPT ![n] = NULL]
          BY <1>1, <1>5, <2>1 DEF EnqLink
    <3> QED BY <1>1, <1>2, <2>1, <3>1 DEF QueueType
  <2>2. CASE Len(list) > 0
    <3>1. tail = list[Len(list)] /\ tail \in Node /\ tail # NULL /\ tail # n
          BY <1>1, <1>4, <1>5, <2>2
    <3>2. next' = [next EXCEPT ![n] = NULL, ![tail] = n]
          BY <3>1 DEF EnqLink
    <3>3. \A x \in Node : next'[x] = IF x = tail THEN n ELSE IF x = n THEN NULL ELSE next[x]
          BY <3>1, <3>2 DEF QueueType
    <3>4. ASSUME NEW i \in 1 .. Len(list)
          PROVE  next'[list'[i]] = list'[i + 1]
      <4>1. list'[i] = list[i] /\ list[i] \in Node /\ list[i] # n
            BY <1>1, <1>2, <1>4
      <4>2. CASE i = Len(list)
            BY <1>2, <3>1, <3>3, <4>1, <4>2
      <4>3. CASE i < Len(list)
        <5>0. Len(list) \in 1 .. Len(list) /\ i \in 1 .. Len(list) - 1 /\ i # Len(list)
              BY <1>1, <4>3
        <5>1. list[Len(list)] # list[i] /\ next[list[i]] = list[i + 1]
              BY <1>c, <5>0
        <5>2. list'[i + 1] = list[i + 1]
              BY <1>1, <1>2, <4>3
        <5> QED BY <3>1, <3>3, <4>1, <5>1, <5>2
      <4> QED BY <1>1, <4>2, <4>3
    <3>5. next'[n] = NULL
          BY <3>1, <3>3
    <3> QED BY <1>1, <1>2, <3>4, <3>5
  <2> QED BY <1>1, <2>1, <2>2
<1>7. next' \in [Node -> Node \cup {NULL}]
      BY <1>1, <1>5 DEF QueueType, EnqLink
<1>8. head' = Entry(1)'
  <2>1. CASE Len(list) = 0
        BY <1>1, <1>2, <1>5, <2>1 DEF EnqLink, Entry
  <2>2. CASE Len(list) > 0
        BY <1>1, <1>2, <1>5, <2>2 DEF EnqLink, Entry
  <2> QED BY <1>1, <2>1, <2>2
<1>9. \A i \in 1 .. Len(list') :
         /\ list'[i] \in live' /\ next'[list'[i]] = Entry(i + 1)'
         /\ \A j \in 1 .. i - 1 : list'[j] # list'[i]
  <2> SUFFICES ASSUME NEW i \in 1 .. Len(list) + 1
               PROVE  /\ list'[i] \in live' /\ next'[list'[i]] = Entry(i + 1)'
                      /\ \A j \in 1 .. i - 1 : list'[j] # list'[i]
      BY <1>2
  <2>1. next'[list'[i]] = Entry(i + 1)'
        BY <1>1, <1>2, <1>6 DEF Entry
  <2>2. CASE i = Len(list) + 1
        BY <1>1, <1>2, <1>3, <1>4, <2>1, <2>2
  <2>3. CASE i \in 1 .. Len(list)
    <3>1. \A j \in 1 .. i - 1 : list'[j] # list'[i]
          BY <1>1, <1>2, <1>c, <2>3
    <3> QED BY <1>2, <1>3, <1>c, <2>1, <2>3, <3>1
  <2> QED BY <1>1, <2>2, <2>3
<1> QED BY <1>2, <1>3, <1>7, <1>8, <1>9 DEF Chain, QueueType

\* fdmi_queue_deq and the removal of the head: the second node becomes the head.
LEMMA TakeKeepsChain ==
    ASSUME QueueType, Chain, Ends, adding = NULL, head # NULL, TakeHead,
           next' = next, adding' = adding
    PROVE  /\ list' \in Seq(Node) /\ live' \subseteq Node /\ length' \in Int
           /\ Chain' /\ Ends'
           /\ Len(list) > 0 /\ head = list[1]
           /\ next[head] = NULL <=> Len(list) = 1
           /\ Len(list') = Len(list) - 1
           /\ \A i \in 1 .. Len(list) - 1 : list'[i] = list[i + 1]
<1>1. /\ Len(list) \in Nat
      /\ \A i \in 1 .. Len(list) : list[i] \in Node /\ Entry(i) = list[i] /\ Entry(i) # NULL
      /\ \A i \in Int : i \notin 1 .. Len(list) => Entry(i) = NULL
      BY Entries
<1>2. /\ \A i \in 1 .. Len(list) : list[i] \in live
      /\ \A i \in 1 .. Len(list) - 1 : next[list[i]] = list[i + 1]
      /\ Len(list) > 0 => next[list[Len(list)]] = NULL
      /\ \A i, j \in 1 .. Len(list) : i # j => list[i] # list[j]
      /\ Len(list) > 0 => head = list[1]
      /\ Len(list) = 0 => head = NULL
      BY ChainPoints
<1>3. Len(list) > 0 /\ head = list[1] /\ list # <<>>
      BY <1>1, <1>2
<1>n. Len(list) = 1 \/ Len(list) > 1
  <2>1. Len(list) \in Nat /\ Len(list) > 0
        BY <1>1, <1>3
  <2>2. \A n \in Nat : n > 0 => n = 1 \/ n > 1
        OBVIOUS
  <2> QED BY <2>1, <2>2
<1>4. /\ list' \in Seq(Node) /\ Len(list') = Len(list) - 1
      /\ \A i \in 1 .. Len(list) - 1 : list'[i] = list[i + 1]
      BY <1>3, HeadTailProperties DEF TakeHead, QueueType
<1>5. next[head] = IF Len(list) = 1 THEN NULL ELSE list[2]
  <2>1. CASE Len(list) = 1
        BY <1>2, <1>3, <2>1
  <2>2. CASE Len(list) > 1
    <3>1. 1 \in 1 .. Len(list) - 1
          BY <1>1, <2>2
    <3>2. next[list[1]] = list[1 + 1]
          BY <1>2, <3>1
    <3> QED BY <1>1, <1>3, <2>2, <3>2
  <2> QED BY <1>n, <2>1, <2>2
<1>6. next[head] = NULL <=> Len(list) = 1
  <2>1. CASE Len(list) = 1
        BY <1>5, <2>1
  <2>2. CASE Len(list) > 1
    <3>1. 2 \in 1 .. Len(list)
          BY <1>1, <2>2
    <3>2. list[2] # NULL
          BY <1>1, <3>1
    <3> QED BY <1>1, <1>5, <2>2, <3>2
  <2> QED BY <1>n, <2>1, <2>2
<1>7. /\ head' = next[head] /\ live' = live \ {head} /\ length' = length - 1
      /\ tail' = IF next[head] = NULL THEN NULL ELSE tail
      BY DEF TakeHead
<1>8. length = Len(list) /\ tail = list[Len(list)]
      BY <1>1, <1>3 DEF Ends, Pending
<1>9. Chain'
  <2>1. \A i \in 1 .. Len(list') : list'[i] \in live'
    <3> SUFFICES ASSUME NEW i \in 1 .. Len(list) - 1
                 PROVE  list[i + 1] \in live /\ list[i + 1] # list[1]
        BY <1>3, <1>4, <1>7
    <3>1. i + 1 \in 1 .. Len(list) /\ 1 \in 1 .. Len(list) /\ i + 1 # 1
          BY <1>1
    <3> QED BY <1>2, <3>1
  <2>2. \A i \in 1 .. Len(list') - 1 : next'[list'[i]] = list'[i + 1]
    <3> SUFFICES ASSUME NEW i \in 1 .. Len(list) - 2
                 PROVE  next[list'[i]] = list'[i + 1]
        BY <1>1, <1>4
    <3>1. i \in 1 .. Len(list) - 1 /\ i + 1 \in 1 .. Len(list) - 1
          BY <1>1
    <3>2. next[list[i + 1]] = list[i + 1 + 1]
          BY <1>2, <3>1
    <3> QED BY <1>4, <3>1, <3>2
  <2>3. Len(list') > 0 => next'[list'[Len(list')]] = NULL
    <3> HAVE Len(list') > 0
    <3>1. Len(list) - 1 \in 1 .. Len(list) - 1 /\ Len(list) - 1 + 1 = Len(list)
          BY <1>1, <1>4
    <3>2. list'[Len(list')] = list[Len(list)]
          BY <1>4, <3>1
    <3> QED BY <1>2, <1>3, <3>2
  <2>4. \A i, j \in 1 .. Len(list') : i # j => list'[i] # list'[j]
    <3> SUFFICES ASSUME NEW i \in 1 .. Len(list) - 1, NEW j \in 1 .. Len(list) - 1, i # j
                 PROVE  list[i + 1] # list[j + 1]
        BY <1>4
    <3>1. i + 1 \in 1 .. Len(list) /\ j + 1 \in 1 .. Len(list) /\ i + 1 # j + 1
          BY <1>1
    <3> QED BY <1>2, <3>1
  <2>5. /\ Len(list') > 0 => head' = list'[1]
        /\ Len(list') = 0 => head' = NULL
    <3>1. CASE Len(list) = 1
          BY <1>4, <1>5, <1>7, <3>1
    <3>2. CASE Len(list) > 1
      <4>1. 1 \in 1 .. Len(list) - 1 /\ Len(list) # 1 /\ Len(list') # 0
            BY <1>1, <1>4, <3>2
      <4>2. list'[1] = list[1 + 1]
            BY <1>4, <4>1
      <4> QED BY <1>5, <1>7, <4>1, <4>2
    <3> QED BY <1>n, <3>1, <3>2
  <2> QED BY <1>4, <2>1, <2>2, <2>3, <2>4, <2>5, PointsChain DEF Chain, Entry
<1>10. Ends'
  <2>1. CASE Len(list) = 1
    <3>1. tail' = NULL /\ length' = 0 /\ Len(list') = 0
          BY <1>4, <1>6, <1>7, <1>8, <2>1
    <3> QED BY <3>1 DEF Ends, Pending, Entry
  <2>2. CASE Len(list) > 1
    <3>1. tail' = list[Len(list)] /\ length' = Len(list) - 1
          BY <1>1, <1>6, <1>7, <1>8, <2>2
    <3>2. Len(list') \in 1 .. Len(list') /\ list'[Len(list')] = list[Len(list)]
          BY <1>1, <1>4, <2>2
    <3> QED BY <1>4, <3>1, <3>2 DEF Ends, Pending, Entry
  <2> QED BY <1>n, <2>1, <2>2
<1>11. live' \subseteq Node /\ length' \in Int
       BY <1>7 DEF QueueType
<1> QED BY <1>3, <1>4, <1>6, <1>9, <1>10, <1>11

\* fdmi_queue_remove of an entry k after the head: its predecessor is linked to its
\* successor, and is the tail if there is none.
LEMMA UnlinkKeepsChain ==
    ASSUME QueueType, Chain, Ends, adding = NULL, adding' = adding,
           NEW k \in 2 .. Len(list),
           next' = [next EXCEPT ![list[k - 1]] = next[list[k]]],
           tail' = (IF tail = list[k] THEN list[k - 1] ELSE tail),
           live' = live \ {list[k]}, length' = length - 1, head' = head,
           list' = RemoveAt(list, k)
    PROVE  /\ list' \in Seq(Node) /\ live' \subseteq Node /\ length' \in Int
           /\ next' \in [Node -> Node \cup {NULL}]
           /\ Chain' /\ Ends'
           /\ Len(list') = Len(list) - 1
           /\ \A j \in 1 .. Len(list) - 1 : list'[j] = IF j < k THEN list[j] ELSE list[j + 1]
<1>1. /\ Len(list) \in Nat
      /\ \A i \in 1 .. Len(list) : list[i] \in Node /\ Entry(i) = list[i] /\ Entry(i) # NULL
      /\ \A i \in Int : i \notin 1 .. Len(list) => Entry(i) = NULL
      BY Entries
<1>2. /\ \A i \in 1 .. Len(list) : list[i] \in live
      /\ \A i \in 1 .. Len(list) - 1 : next[list[i]] = list[i + 1]
      /\ Len(list) > 0 => next[list[Len(list)]] = NULL
      /\ \A i, j \in 1 .. Len(list) : i # j => list[i] # list[j]
      /\ Len(list) > 0 => head = list[1]
      BY ChainPoints
<1>3. /\ k \in 1 .. Len(list) /\ k - 1 \in 1 .. Len(list) /\ k - 1 \in 1 .. Len(list) - 1
      /\ Len(list) - 1 \in Nat /\ Len(list) - 1 > 0 /\ Len(list) \in 1 .. Len(list)
      /\ k \in Int /\ Len(list) \in Int
      BY <1>1
<1>4. /\ list' \in Seq(Node) /\ Len(list') = Len(list) - 1
      /\ \A j \in 1 .. Len(list) - 1 : list'[j] = IF j < k THEN list[j] ELSE list[j + 1]
      BY <1>3, RemoveAtPoints DEF QueueType
<1>5. list[k - 1] \in Node /\ list[k] \in Node
      BY <1>1, <1>3
<1>6. /\ next' \in [Node -> Node \cup {NULL}]
      /\ \A x \in Node : next'[x] = IF x = list[k - 1] THEN next[list[k]] ELSE next[x]
      BY <1>5 DEF QueueType
<1>7. length = Len(list) /\ tail = list[Len(list)]
      BY <1>1, <1>3 DEF Ends, Pending
<1>8. Chain'
  <2>1. \A i \in 1 .. Len(list') : list'[i] \in live'
    <3> SUFFICES ASSUME NEW i \in 1 .. Len(list) - 1
                 PROVE  list'[i] \in live /\ list'[i] # list[k]
        BY <1>4
    <3>1. CASE i < k
      <4>1. i \in 1 .. Len(list) /\ i # k
            BY <1>3, <3>1
      <4> QED BY <1>2, <1>3, <1>4, <3>1, <4>1
    <3>2. CASE ~ (i < k)
      <4>1. i + 1 \in 1 .. Len(list) /\ i + 1 # k
            BY <1>3, <3>2
      <4> QED BY <1>2, <1>3, <1>4, <3>2, <4>1
    <3> QED BY <3>1, <3>2
  <2>2. \A i \in 1 .. Len(list') - 1 : next'[list'[i]] = list'[i + 1]
    <3> SUFFICES ASSUME NEW i \in 1 .. Len(list) - 2
                 PROVE  next'[list'[i]] = list'[i + 1]
        BY <1>3, <1>4
    <3>0. i \in 1 .. Len(list) - 1 /\ i + 1 \in 1 .. Len(list) - 1 /\ i \in 1 .. Len(list)
          BY <1>3
    <3>1. CASE i < k - 1
      <4>1. i < k /\ i + 1 < k /\ i # k - 1
            BY <1>3, <3>1
      <4>2. list'[i] = list[i] /\ list'[i + 1] = list[i + 1]
            BY <1>4, <3>0, <4>1
      <4>3. list[i] # list[k - 1] /\ list[i] \in Node /\ next[list[i]] = list[i + 1]
            BY <1>1, <1>2, <1>3, <3>0, <4>1
      <4> QED BY <1>6, <4>2, <4>3
    <3>2. CASE i = k - 1
      <4>1. i < k /\ ~ (i + 1 < k) /\ i + 1 = k /\ k \in 1 .. Len(list) - 1
            BY <1>3, <3>0, <3>2
      <4>2. list'[i] = list[k - 1] /\ list'[i + 1] = list[k + 1]
            BY <1>4, <3>0, <3>2, <4>1
      <4>3. next[list[k]] = list[k + 1]
            BY <1>2, <4>1
      <4> QED BY <1>5, <1>6, <4>2, <4>3
    <3>3. CASE i > k - 1
      <4>1. ~ (i < k) /\ ~ (i + 1 < k) /\ i + 1 # k - 1 /\ i + 1 \in 1 .. Len(list)
            BY <1>3, <3>0, <3>3
      <4>2. list'[i] = list[i + 1] /\ list'[i + 1] = list[i + 1 + 1]
            BY <1>4, <3>0, <4>1
      <4>3. list[i + 1] # list[k - 1] /\ list[i + 1] \in Node
            BY <1>1, <1>2, <1>3, <4>1
      <4>4. next[list[i + 1]] = list[i + 1 + 1]
            BY <1>2, <3>0
      <4> QED BY <1>6, <4>2, <4>3, <4>4
    <3> QED BY <1>3, <3>1, <3>2, <3>3
  <2>3. Len(list') > 0 => next'[list'[Len(list')]] = NULL
    <3>0. Len(list) - 1 \in 1 .. Len(list) - 1 /\ Len(list) - 1 + 1 = Len(list)
          BY <1>3
    <3>1. CASE k = Len(list)
      <4>1. list'[Len(list')] = list[k - 1]
            BY <1>3, <1>4, <3>0, <3>1
      <4>2. next[list[k]] = NULL
            BY <1>2, <1>3, <3>1
      <4> QED BY <1>5, <1>6, <4>1, <4>2
    <3>2. CASE k < Len(list)
      <4>1. ~ (Len(list) - 1 < k) /\ Len(list) # k - 1
            BY <1>3, <3>2
      <4>2. list'[Len(list')] = list[Len(list)]
            BY <1>4, <3>0, <4>1
      <4>3. list[Len(list)] # list[k - 1] /\ list[Len(list)] \in Node
            BY <1>1, <1>2, <1>3, <4>1
      <4>4. next[list[Len(list)]] = NULL
            BY <1>2, <1>3
      <4> QED BY <1>6, <4>2, <4>3, <4>4
    <3> QED BY <1>3, <3>1, <3>2
  <2>4. \A i, j \in 1 .. Len(list') : i # j => list'[i] # list'[j]
    <3> SUFFICES ASSUME NEW i \in 1 .. Len(list) - 1, NEW j \in 1 .. Len(list) - 1, i # j
                 PROVE  list'[i] # list'[j]
        BY <1>4
    <3> DEFINE f(x) == IF x < k THEN x ELSE x + 1
    <3>1. f(i) \in 1 .. Len(list) /\ f(j) \in 1 .. Len(list) /\ f(i) # f(j)
          BY <1>3
    <3>2. list'[i] = list[f(i)] /\ list'[j] = list[f(j)]
          BY <1>4
    <3> HIDE DEF f
    <3> QED BY <1>2, <3>1, <3>2
  <2>5. /\ Len(list') > 0 => head' = list'[1]
        /\ Len(list') = 0 => head' = NULL
    <3>1. 1 \in 1 .. Len(list) - 1 /\ 1 < k /\ Len(list) > 0
          BY <1>3
    <3>2. list'[1] = list[1]
          BY <1>4, <3>1
    <3> QED BY <1>2, <1>3, <1>4, <3>1, <3>2
  <2>6. /\ \A i \in 1 .. Len(list') :
              /\ list'[i] \in live'
              /\ next'[list'[i]] = IF i + 1 \in 1 .. Len(list') THEN list'[i + 1] ELSE NULL
              /\ \A j \in 1 .. i - 1 : list'[j] # list'[i]
        /\ head' = IF 1 \in 1 .. Len(list') THEN list'[1] ELSE NULL
    <3>1. list' \in Seq(Node)
          BY <1>4
    <3> QED BY ONLY <3>1, <2>1, <2>2, <2>3, <2>4, <2>5, PointsChain
  <2> QED BY ONLY <2>6 DEF Chain, Entry
<1>9. Ends'
  <2>0. Len(list') \in 1 .. Len(list') /\ length' = Len(list') /\ Len(list') \in 1 .. Len(list) - 1
        BY <1>3, <1>4, <1>7
  <2>1. tail' = list'[Len(list')]
    <3>1. CASE k = Len(list)
      <4>1. list'[Len(list')] = list[k - 1]
            BY <1>3, <1>4, <2>0, <3>1
      <4> QED BY <1>7, <3>1, <4>1
    <3>2. CASE k < Len(list)
      <4>1. ~ (Len(list) - 1 < k) /\ Len(list) # k /\ Len(list) - 1 + 1 = Len(list)
            BY <1>3, <3>2
      <4>2. list'[Len(list')] = list[Len(list)]
            BY <1>4, <2>0, <4>1
      <4>3. list[Len(list)] # list[k]
            BY <1>2, <1>3, <4>1
      <4> QED BY <1>7, <4>2, <4>3
    <3> QED BY <1>3, <3>1, <3>2
  <2> QED BY <2>0, <2>1 DEF Ends, Pending, Entry
<1>10. live' \subseteq Node /\ length' \in Int
       BY <1>3, <1>7 DEF QueueType
<1> QED BY <1>4, <1>6, <1>8, <1>9, <1>10

----------------------------------------------------------------------------
(* The operations of a queue *)

\* Nothing is claimed of a walk when there is none.
LEMMA NoWalk ==
    ASSUME op'.pc \in {"idle", "destroy", "gone"}
    PROVE  WalkOK' /\ RemoveInv'
BY DEF WalkOK, RemoveInv, Walking

\* A step that leaves the nodes alone leaves the list alone.
LEMMA SameList ==
    ASSUME QueueInv, UNCHANGED <<next, data, live, head, tail, length, list, adding>>,
           at' \in Int, ite' \in Node \cup {NULL}
    PROVE  QueueType' /\ Chain' /\ Ends'
BY DEF QueueInv, QueueType, Chain, Ends, Entry, Pending

\* The record of an operation that has not begun.
LEMMA IdleOp == Idle \in OpRecord /\ Idle.pc = "idle"
BY DEF Idle, OpRecord

\* Updates of the record of an operation.
LEMMA OpUpdates ==
    ASSUME NEW o \in OpRecord, NEW x \in Data \cup {NULL}, NEW a \in Node \cup {NULL},
           NEW b \in Node \cup {NULL}, NEW i \in Int, NEW bk \in {"idle", "walk"}
    PROVE  /\ [o EXCEPT !.pc = "remove", !.d = x, !.held = FALSE, !.old_d = a, !.cur_d = b,
                        !.k = i, !.back = bk] \in OpRecord
           /\ [o EXCEPT !.old_d = a, !.cur_d = b, !.k = i] \in OpRecord
           /\ [o EXCEPT !.pc = bk, !.old_d = a, !.cur_d = b, !.k = i, !.back = "idle"]
                \in OpRecord
<1>1. [o EXCEPT !.pc = "remove", !.d = x, !.held = FALSE, !.old_d = a, !.cur_d = b,
                !.k = i, !.back = bk] \in OpRecord
      BY DEF OpRecord
<1>2. [o EXCEPT !.old_d = a, !.cur_d = b, !.k = i] \in OpRecord
      BY DEF OpRecord
<1>3. [o EXCEPT !.pc = bk, !.old_d = a, !.cur_d = b, !.k = i, !.back = "idle"] \in OpRecord
      BY DEF OpRecord
<1> QED BY <1>1, <1>2, <1>3

\* fdmi_queue_enq.
LEMMA EnqKeeps ==
    ASSUME QueueInv, adding = NULL, adding' = adding, NEW n \in Node, NEW d \in Data,
           EnqLink(n, d), EnqEnds(n), op.pc = "idle", UNCHANGED <<ite, op, at>>
    PROVE  QueueInv'
<1>1. /\ list' \in Seq(Node) /\ next' \in [Node -> Node \cup {NULL}]
      /\ data' \in [Node -> Data \cup {NULL}] /\ live' \subseteq Node
      /\ Chain'
      /\ Len(list') = Len(list) + 1 /\ list'[Len(list) + 1] = n
      BY LinkKeepsChain DEF QueueInv
<1>2. Len(list) \in Nat
      BY LenProperties DEF QueueInv, QueueType
<1>3. tail' = n /\ length' = length + 1 /\ length = Len(list)
      BY <1>2 DEF EnqEnds, QueueInv, Ends, Pending
<1>4. Ends'
      BY <1>1, <1>2, <1>3 DEF Ends, Pending, Entry
<1>5. QueueType' /\ OpType'
      BY <1>1, <1>2, <1>3 DEF QueueInv, QueueType, OpType
<1>6. WalkOK' /\ RemoveInv'
      BY NoWalk
<1> QED BY <1>1, <1>4, <1>5, <1>6 DEF QueueInv

\* fdmi_queue_deq.
LEMMA DeqKeeps ==
    ASSUME QueueInv, adding = NULL, adding' = adding, Deq
    PROVE  QueueInv'
<1>1. /\ list' \in Seq(Node) /\ live' \subseteq Node /\ length' \in Int
      /\ Chain' /\ Ends'
      BY TakeKeepsChain DEF QueueInv, Deq
<1>2. QueueType' /\ OpType'
      BY <1>1 DEF QueueInv, QueueType, OpType, Deq
<1>3. WalkOK' /\ RemoveInv'
      BY NoWalk DEF Deq
<1> QED BY <1>1, <1>2, <1>3 DEF QueueInv

\* Destroy, DestroyEnds and WalkEnds: a step to where nobody walks.
LEMMA RestKeeps ==
    ASSUME QueueInv, adding' = adding, Destroy \/ DestroyEnds \/ WalkEnds
    PROVE  QueueInv'
<1>1. /\ UNCHANGED <<next, data, live, head, tail, length, list, ite, at>>
      /\ op'.pc \in {"idle", "destroy", "gone"} /\ OpType'
  <2>1. CASE Destroy
        BY <2>1, IdleOp DEF Destroy, pointers, OpType, OpRecord
  <2>2. CASE DestroyEnds
        BY <2>2, IdleOp DEF DestroyEnds, pointers, OpType, OpRecord
  <2>3. CASE WalkEnds
        BY <2>3, IdleOp DEF WalkEnds, pointers, OpType
  <2> QED BY <2>1, <2>2, <2>3
<1>2. QueueType' /\ Chain' /\ Ends'
  <2>1. at' \in Int /\ ite' \in Node \cup {NULL}
        BY <1>1 DEF QueueInv, QueueType
  <2> QED BY <1>1, <2>1, SameList
<1>3. WalkOK' /\ RemoveInv'
      BY <1>1, NoWalk
<1> QED BY <1>1, <1>2, <1>3 DEF QueueInv

\* A walk begins: fdmi_queue_iterate with FDMI_QUEUE_HEAD.
LEMMA IterateHeadKeeps ==
    ASSUME QueueInv, adding' = adding, IterateHead
    PROVE  QueueInv'
<1>1. /\ UNCHANGED <<next, data, live, head, tail, length, list>>
      /\ ite' = next[head] /\ at' = 2 /\ head # NULL
      /\ op' = [Idle EXCEPT !.pc = "walk", !.d = data[head], !.held = TRUE]
      BY DEF IterateHead
<1>2. /\ Len(list) \in Nat
      /\ \A i \in 1 .. Len(list) : list[i] \in Node /\ Entry(i) = list[i] /\ Entry(i) # NULL
      /\ \A i \in Int : i \notin 1 .. Len(list) => Entry(i) = NULL
      BY Entries DEF QueueInv
<1>3. head = Entry(1)
      BY DEF QueueInv, Chain
<1>4. 1 \in 1 .. Len(list) /\ head = list[1] /\ head \in Node
      BY <1>1, <1>2, <1>3
<1>5. next[head] = Entry(2)
  <2>1. next[list[1]] = Entry(1 + 1)
        BY <1>4 DEF QueueInv, Chain
  <2> QED BY <1>4, <2>1
<1>6. next[head] \in Node \cup {NULL} /\ data[head] \in Data \cup {NULL}
      BY <1>4 DEF QueueInv, QueueType
<1>7. /\ op'.pc = "walk" /\ op'.d = data[head] /\ OpType'
      BY <1>1, <1>6, IdleOp DEF OpRecord, OpType
<1>8. QueueType' /\ Chain' /\ Ends'
  <2>1. at' \in Int /\ ite' \in Node \cup {NULL}
        BY <1>1, <1>6
  <2> QED BY <1>1, <2>1, SameList
<1>9. at' \in 1 .. Len(list') + 1 /\ ite' = Entry(at)' /\ data'[list'[at' - 1]] = op'.d
  <2>1. Entry(at)' = Entry(2)
        BY <1>1 DEF Entry
  <2>2. 2 \in 1 .. Len(list) + 1
        BY <1>2, <1>4
  <2>3. at' - 1 = 1
        BY <1>1
  <2> QED BY <1>1, <1>4, <1>5, <1>7, <2>1, <2>2, <2>3
<1>10. WalkOK' /\ RemoveInv'
       BY <1>1, <1>7, <1>9 DEF WalkOK, RemoveInv, Walking
<1> QED BY <1>7, <1>8, <1>10 DEF QueueInv

\* A walk goes on: fdmi_queue_iterate with FDMI_QUEUE_NEXT.
LEMMA IterateNextKeeps ==
    ASSUME QueueInv, adding' = adding, IterateNext
    PROVE  QueueInv'
<1>1. /\ UNCHANGED <<next, data, live, head, tail, length, list>>
      /\ ite' = next[ite] /\ at' = at + 1 /\ ite # NULL /\ op.pc = "walk"
      /\ op' = [op EXCEPT !.d = data[ite], !.held = TRUE]
      BY DEF IterateNext
<1>2. /\ Len(list) \in Nat
      /\ \A i \in 1 .. Len(list) : list[i] \in Node /\ Entry(i) = list[i] /\ Entry(i) # NULL
      /\ \A i \in Int : i \notin 1 .. Len(list) => Entry(i) = NULL
      BY Entries DEF QueueInv
<1>3. at \in 1 .. Len(list) + 1 /\ ite = Entry(at)
      BY <1>1 DEF QueueInv, WalkOK, Walking
<1>4. at \in 1 .. Len(list) /\ ite = list[at] /\ ite \in Node
      BY <1>1, <1>2, <1>3
<1>5. next[ite] = Entry(at + 1)
      BY <1>4 DEF QueueInv, Chain
<1>6. next[ite] \in Node \cup {NULL} /\ data[ite] \in Data \cup {NULL}
      BY <1>4 DEF QueueInv, QueueType
<1>7. /\ op'.pc = "walk" /\ op'.d = data[ite] /\ OpType'
      BY <1>1, <1>6 DEF OpType, OpRecord, QueueInv
<1>8. QueueType' /\ Chain' /\ Ends'
  <2>1. at' \in Int /\ ite' \in Node \cup {NULL}
        BY <1>1, <1>4, <1>6
  <2> QED BY <1>1, <2>1, SameList
<1>9. /\ at' \in 1 .. Len(list') + 1 /\ at' > 1 /\ ite' = Entry(at)'
      /\ data'[list'[at' - 1]] = op'.d
  <2>1. Entry(at)' = Entry(at + 1)
        BY <1>1 DEF Entry
  <2>2. at + 1 \in 1 .. Len(list) + 1 /\ at + 1 > 1 /\ at + 1 - 1 = at
        BY <1>2, <1>4
  <2> QED BY <1>1, <1>4, <1>5, <1>7, <2>1, <2>2
<1>10. WalkOK' /\ RemoveInv'
       BY <1>7, <1>9 DEF WalkOK, RemoveInv, Walking
<1> QED BY <1>7, <1>8, <1>10 DEF QueueInv

\* The third case of fdmi_queue_remove and each turn of its loop: the search is at entry k.
LEMMA SearchKeeps ==
    ASSUME QueueInv, adding' = adding, UNCHANGED <<pointers, list, at>>,
           op' \in OpRecord, op'.pc = "remove", ~ op'.held,
           op'.k \in 2 .. Len(list) + 1,
           op'.cur_d = Entry(op'.k), op'.old_d = Entry(op'.k - 1),
           op'.back = "walk" =>
              /\ at \in 1 .. Len(list) + 1 /\ ite = Entry(at)
              /\ \E j \in op'.k .. at - 1 : data[list[j]] = op'.d
    PROVE  QueueInv'
<1>1. UNCHANGED <<next, data, live, head, tail, length, list, ite, at>>
      BY DEF pointers
<1>2. QueueType' /\ Chain' /\ Ends'
  <2>1. at' \in Int /\ ite' \in Node \cup {NULL}
        BY <1>1 DEF QueueInv, QueueType
  <2> QED BY <1>1, <2>1, SameList
<1>3. /\ Entry(at)' = Entry(at) /\ Entry(op.k)' = Entry(op'.k)
      /\ Entry(op.k - 1)' = Entry(op'.k - 1)
      BY <1>1 DEF Entry
<1>4. WalkOK'
      BY <1>1, <1>3 DEF WalkOK, Walking
<1>5. RemoveInv'
      BY <1>1 DEF RemoveInv
<1> QED BY <1>2, <1>4, <1>5 DEF QueueInv, OpType

\* fdmi_queue_remove up to its loop, called by a walk or by itself.
LEMMA RemoveBeginKeeps ==
    ASSUME QueueInv, adding = NULL, adding' = adding,
           NEW d \in Data \cup {NULL}, NEW back \in {"idle", "walk"}, op.pc = back,
           back = "walk" => op.held /\ op.d = d,
           RemoveBegin(d, back)
    PROVE  QueueInv'
<1>1. /\ Len(list) \in Nat
      /\ \A i \in 1 .. Len(list) : list[i] \in Node /\ Entry(i) = list[i] /\ Entry(i) # NULL
      /\ \A i \in Int : i \notin 1 .. Len(list) => Entry(i) = NULL
      BY Entries DEF QueueInv
<1>2. back = "walk" =>
         /\ at \in 1 .. Len(list) + 1 /\ ite = Entry(at) /\ at > 1 /\ data[list[at - 1]] = d
      BY DEF QueueInv, WalkOK, Walking
<1>3. head = Entry(1) /\ op \in OpRecord
      BY DEF QueueInv, Chain, OpType
<1>4. CASE /\ head = NULL
           /\ op' = [op EXCEPT !.pc = back, !.held = FALSE]
           /\ UNCHANGED <<pointers, list, at>>
  <2>1. back # "walk"
    <3>1. 1 \notin 1 .. Len(list)
          BY <1>1, <1>3, <1>4
    <3> QED BY <1>1, <1>2, <3>1
  <2>2. op'.pc = "idle" /\ OpType'
        BY <1>3, <1>4, <2>1 DEF OpType, OpRecord
  <2>3. QueueType' /\ Chain' /\ Ends'
    <3>1. at' \in Int /\ ite' \in Node \cup {NULL}
          BY <1>4 DEF QueueInv, QueueType, pointers
    <3> QED BY <1>4, <3>1, SameList DEF pointers
  <2> QED BY <2>2, <2>3, NoWalk DEF QueueInv
<1>5. CASE /\ head # NULL /\ data[head] = d
           /\ TakeHead
           /\ ite' = (IF next[head] = NULL THEN NULL ELSE ite)
           /\ at' = (IF back = "walk" THEN at - 1 ELSE at)
           /\ op' = [op EXCEPT !.pc = back, !.held = FALSE]
           /\ UNCHANGED <<next, data>>
  <2>1. /\ list' \in Seq(Node) /\ live' \subseteq Node /\ length' \in Int
        /\ Chain' /\ Ends'
        /\ next[head] = NULL <=> Len(list) = 1
        /\ Len(list') = Len(list) - 1
        /\ \A i \in 1 .. Len(list) - 1 : list'[i] = list[i + 1]
        BY <1>5, TakeKeepsChain DEF QueueInv
  <2>2. QueueType'
        BY <1>5, <2>1 DEF QueueInv, QueueType
  <2>3. op'.pc = back /\ op'.held = FALSE /\ OpType'
        BY <1>3, <1>5 DEF OpType, OpRecord
  <2>4. back = "walk" => at' \in 1 .. Len(list') + 1 /\ ite' = Entry(at)'
    <3> HAVE back = "walk"
    <3>1. at' = at - 1 /\ at - 1 \in 1 .. Len(list)
          BY <1>1, <1>2, <1>5
    <3>2. CASE at = Len(list) + 1
      <4>1. ite = NULL
            BY <1>1, <1>2, <3>2
      <4>2. at' \notin 1 .. Len(list')
            BY <1>1, <2>1, <3>1, <3>2
      <4> QED BY <1>1, <1>5, <2>1, <3>1, <4>1, <4>2 DEF Entry
    <3>3. CASE at # Len(list) + 1
      <4>1. at - 1 \in 1 .. Len(list) - 1 /\ at \in 1 .. Len(list) /\ Len(list) # 1
            BY <1>1, <1>2, <3>3
      <4>2. ite = list[at] /\ list'[at - 1] = list[at - 1 + 1] /\ at - 1 + 1 = at
            BY <1>1, <1>2, <2>1, <4>1
      <4>3. ite' = ite
            BY <1>5, <2>1, <4>1
      <4> QED BY <1>1, <2>1, <3>1, <4>1, <4>2, <4>3 DEF Entry
    <3> QED BY <3>2, <3>3
  <2>5. WalkOK' /\ RemoveInv'
        BY <2>3, <2>4 DEF WalkOK, RemoveInv, Walking
  <2> QED BY <2>1, <2>2, <2>3, <2>5 DEF QueueInv
<1>6. CASE /\ head # NULL /\ data[head] # d
           /\ op' = [op EXCEPT !.pc = "remove", !.d = d, !.held = FALSE, !.old_d = head,
                               !.cur_d = next[head], !.k = 2, !.back = back]
           /\ UNCHANGED <<pointers, list, at>>
  <2>1. 1 \in 1 .. Len(list) /\ head = list[1] /\ head \in Node
        BY <1>1, <1>3, <1>6
  <2>2. next[head] = Entry(2) /\ next[head] \in Node \cup {NULL}
    <3>1. next[list[1]] = Entry(1 + 1)
          BY <2>1 DEF QueueInv, Chain
    <3> QED BY <2>1, <3>1 DEF QueueInv, QueueType
  <2>3. /\ op' \in OpRecord /\ op'.pc = "remove" /\ ~ op'.held /\ op'.k = 2
        /\ op'.cur_d = Entry(2) /\ op'.old_d = Entry(1) /\ op'.back = back /\ op'.d = d
    <3>1. op' \in OpRecord
      <4>1. head \in Node \cup {NULL} /\ 2 \in Int
            BY <2>1
      <4>2. op' = [op EXCEPT !.pc = "remove", !.d = d, !.held = FALSE, !.old_d = head,
                             !.cur_d = next[head], !.k = 2, !.back = back]
            BY <1>6
      <4>3. op \in OpRecord /\ next[head] \in Node \cup {NULL}
            BY <1>3, <2>2
      <4>4. d \in Data \cup {NULL} /\ back \in {"idle", "walk"}
            OBVIOUS
      <4>5. [op EXCEPT !.pc = "remove", !.d = d, !.held = FALSE, !.old_d = head,
                       !.cur_d = next[head], !.k = 2, !.back = back] \in OpRecord
            BY ONLY <4>1, <4>3, <4>4 DEF OpRecord
      <4> QED BY <4>2, <4>5
    <3>2. op'.pc = "remove" /\ op'.k = 2 /\ op'.back = back /\ op'.d = d
          BY <1>3, <1>6 DEF OpRecord
    <3>3. op'.held = FALSE /\ op'.cur_d = next[head] /\ op'.old_d = head
          BY <1>3, <1>6 DEF OpRecord
    <3> QED BY <1>3, <2>2, <3>1, <3>2, <3>3
  <2>4. op'.k \in 2 .. Len(list) + 1 /\ op'.k - 1 = 1
        BY <1>1, <2>1, <2>3
  <2>5. back = "walk" => \E j \in 2 .. at - 1 : data[list[j]] = d
    <3> HAVE back = "walk"
    <3>1. at - 1 # 1
          BY <1>2, <1>6, <2>1
    <3>2. at - 1 \in 2 .. at - 1
          BY <1>1, <1>2, <3>1
    <3> QED BY <1>2, <3>2
  <2> QED BY <1>2, <1>6, <2>3, <2>4, <2>5, SearchKeeps
<1> QED BY <1>4, <1>5, <1>6 DEF RemoveBegin

\* fdmi_queue_remove looks at the next node.
LEMMA RemoveSkipsKeeps ==
    ASSUME QueueInv, adding' = adding, RemoveSkips
    PROVE  QueueInv'
<1>1. /\ op.pc = "remove" /\ op.cur_d # NULL /\ data[op.cur_d] # op.d
      /\ op' = [op EXCEPT !.old_d = op.cur_d, !.cur_d = next[op.cur_d], !.k = @ + 1]
      /\ UNCHANGED <<pointers, list, at>>
      BY DEF RemoveSkips
<1>2. /\ Len(list) \in Nat
      /\ \A i \in 1 .. Len(list) : list[i] \in Node /\ Entry(i) = list[i] /\ Entry(i) # NULL
      /\ \A i \in Int : i \notin 1 .. Len(list) => Entry(i) = NULL
      BY Entries DEF QueueInv
<1>3. /\ op \in OpRecord /\ op.cur_d = Entry(op.k) /\ op.k \in 2 .. Len(list) + 1 /\ ~ op.held
      /\ op.back = "walk" =>
            /\ at \in 1 .. Len(list) + 1 /\ ite = Entry(at)
            /\ \E j \in op.k .. at - 1 : data[list[j]] = op.d
      BY <1>1 DEF QueueInv, OpType, WalkOK, RemoveInv, Walking
<1>4. op.k \in 1 .. Len(list) /\ op.cur_d = list[op.k] /\ op.cur_d \in Node
      BY <1>1, <1>2, <1>3
<1>5. next[op.cur_d] = Entry(op.k + 1) /\ next[op.cur_d] \in Node \cup {NULL}
      BY <1>4 DEF QueueInv, QueueType, Chain
<1>6. /\ op' \in OpRecord /\ op'.pc = "remove" /\ ~ op'.held /\ op'.k = op.k + 1
      /\ op'.cur_d = Entry(op.k + 1) /\ op'.old_d = Entry(op.k) /\ op'.back = op.back
      /\ op'.d = op.d
  <2>1. op' \in OpRecord
    <3>1. op.cur_d \in Node \cup {NULL} /\ op.k + 1 \in Int
          BY <1>3, <1>4
    <3> QED BY <1>1, <1>3, <1>5, <3>1, OpUpdates
  <2>2. op'.pc = op.pc /\ op'.k = op.k + 1 /\ op'.back = op.back /\ op'.d = op.d
        BY <1>1, <1>3 DEF OpRecord
  <2>3. op'.held = op.held /\ op'.cur_d = next[op.cur_d] /\ op'.old_d = op.cur_d
        BY <1>1, <1>3 DEF OpRecord
  <2> QED BY <1>1, <1>3, <1>5, <2>1, <2>2, <2>3
<1>7. op'.k \in 2 .. Len(list) + 1 /\ op'.k - 1 = op.k
      BY <1>2, <1>3, <1>4, <1>6
<1>8. op.back = "walk" => \E j \in op.k + 1 .. at - 1 : data[list[j]] = op.d
  <2> HAVE op.back = "walk"
  <2>1. PICK j \in op.k .. at - 1 : data[list[j]] = op.d
        BY <1>3
  <2>2. j # op.k
        BY <1>1, <1>4, <2>1
  <2>3. j \in op.k + 1 .. at - 1
        BY <1>2, <1>3, <1>4, <2>2
  <2> QED BY <2>1, <2>3
<1> QED BY <1>1, <1>3, <1>6, <1>7, <1>8, SearchKeeps

\* RemoveEnds: back to where fdmi_queue_remove was called.
LEMMA RemoveEndsOp ==
    ASSUME OpType, RemoveInv, op.pc = "remove", RemoveEnds
    PROVE  OpType' /\ op'.pc = op.back /\ op'.held = FALSE
<1>1. op' = [op EXCEPT !.pc = op.back, !.old_d = NULL, !.cur_d = NULL, !.k = 0, !.back = "idle"]
      BY DEF RemoveEnds
<1>2. op \in OpRecord /\ op.held = FALSE /\ op.back \in {"idle", "walk"}
      BY DEF OpType, OpRecord, RemoveInv
<1>3. op'.pc = op.back /\ op'.held = op.held
      BY <1>1, <1>2 DEF OpRecord
<1>4. op' \in OpRecord
  <2>1. NULL \in Node \cup {NULL} /\ 0 \in Int
        OBVIOUS
  <2> QED BY ONLY <1>1, <1>2, <2>1, OpUpdates
<1> QED BY <1>2, <1>3, <1>4 DEF OpType

\* fdmi_queue_remove reaches the end.
LEMMA RemoveFinds0Keeps ==
    ASSUME QueueInv, adding' = adding, RemoveFinds0
    PROVE  QueueInv'
<1>1. /\ op.pc = "remove" /\ RemoveEnds /\ UNCHANGED <<pointers, list, at>>
      BY DEF RemoveFinds0
<1>2. UNCHANGED <<next, data, live, head, tail, length, list, ite, at>>
      BY <1>1 DEF pointers
<1>3. OpType' /\ op'.pc = op.back /\ op'.held = FALSE
      BY <1>1, RemoveEndsOp DEF QueueInv
<1>4. QueueType' /\ Chain' /\ Ends'
  <2>1. at' \in Int /\ ite' \in Node \cup {NULL}
        BY <1>2 DEF QueueInv, QueueType
  <2> QED BY <1>2, <2>1, SameList
<1>5. op.back = "walk" => at \in 1 .. Len(list) + 1 /\ ite = Entry(at)
      BY <1>1 DEF QueueInv, WalkOK, Walking
<1>6. op.back \in {"idle", "walk"}
      BY DEF QueueInv, OpType, OpRecord
<1>7. WalkOK' /\ RemoveInv'
  <2>1. Entry(at)' = Entry(at)
        BY <1>2 DEF Entry
  <2> QED BY <1>2, <1>3, <1>5, <1>6, <2>1 DEF WalkOK, RemoveInv, Walking
<1> QED BY <1>3, <1>4, <1>7 DEF QueueInv

\* fdmi_queue_remove unlinks the node it has found, and a walk that called it goes on.
LEMMA RemoveUnlinksKeeps ==
    ASSUME QueueInv, adding = NULL, adding' = adding, RemoveUnlinks
    PROVE  QueueInv'
<1>1. /\ op.pc = "remove" /\ op.cur_d # NULL /\ data[op.cur_d] = op.d
      /\ next' = [next EXCEPT ![op.old_d] = next[op.cur_d]]
      /\ tail' = (IF tail = op.cur_d THEN op.old_d ELSE tail)
      /\ ite' = (IF ite = op.cur_d THEN next[op.cur_d] ELSE ite)
      /\ live' = live \ {op.cur_d} /\ length' = length - 1
      /\ list' = RemoveAt(list, op.k)
      /\ at' = (IF op.back = "walk" THEN at - 1 ELSE at)
      /\ RemoveEnds /\ data' = data /\ head' = head
      BY DEF RemoveUnlinks
<1>2. /\ Len(list) \in Nat
      /\ \A i \in 1 .. Len(list) : list[i] \in Node /\ Entry(i) = list[i] /\ Entry(i) # NULL
      /\ \A i \in Int : i \notin 1 .. Len(list) => Entry(i) = NULL
      BY Entries DEF QueueInv
<1>3. /\ op \in OpRecord /\ op.k \in 2 .. Len(list) + 1
      /\ op.cur_d = Entry(op.k) /\ op.old_d = Entry(op.k - 1)
      /\ op.back = "walk" =>
            /\ at \in 1 .. Len(list) + 1 /\ ite = Entry(at)
            /\ \E j \in op.k .. at - 1 : data[list[j]] = op.d
      BY <1>1 DEF QueueInv, OpType, WalkOK, RemoveInv, Walking
<1>4. op.k \in 2 .. Len(list) /\ op.k \in 1 .. Len(list) /\ op.k - 1 \in 1 .. Len(list)
      BY <1>1, <1>2, <1>3
<1>5. op.cur_d = list[op.k] /\ op.old_d = list[op.k - 1] /\ op.cur_d \in Node
      BY <1>2, <1>3, <1>4
<1>6. /\ list' \in Seq(Node) /\ live' \subseteq Node /\ length' \in Int
      /\ next' \in [Node -> Node \cup {NULL}]
      /\ Chain' /\ Ends'
      /\ Len(list') = Len(list) - 1
      /\ \A j \in 1 .. Len(list) - 1 : list'[j] = IF j < op.k THEN list[j] ELSE list[j + 1]
  <2>1. /\ next' = [next EXCEPT ![list[op.k - 1]] = next[list[op.k]]]
        /\ tail' = (IF tail = list[op.k] THEN list[op.k - 1] ELSE tail)
        /\ live' = live \ {list[op.k]}
        BY <1>1, <1>5
  <2> QED BY <1>1, <1>4, <2>1, UnlinkKeepsChain DEF QueueInv
<1>7. OpType' /\ op'.pc = op.back /\ op'.held = FALSE
      BY <1>1, RemoveEndsOp DEF QueueInv
<1>8. QueueType'
      BY <1>1, <1>5, <1>6 DEF QueueInv, QueueType
<1>9. op.back = "walk" => at' \in 1 .. Len(list') + 1 /\ ite' = Entry(at)'
  <2> HAVE op.back = "walk"
  <2>1. PICK j \in op.k .. at - 1 : data[list[j]] = op.d
        BY <1>3
  <2>2. op.k <= at - 1 /\ at \in 1 .. Len(list) + 1 /\ ite = Entry(at) /\ op.k \in Int /\ at \in Int
        BY <1>3, <1>4, <2>1
  <2>3. at' = at - 1 /\ at - 1 \in 1 .. Len(list') + 1
        BY <1>1, <1>2, <1>4, <1>6, <2>2
  <2>4. CASE at = Len(list) + 1
    <3>1. ite = NULL
          BY <1>2, <2>2, <2>4
    <3>2. ite' = NULL
          BY <1>1, <3>1
    <3>3. at' \notin 1 .. Len(list')
          BY <1>2, <1>6, <2>3, <2>4
    <3> QED BY <2>3, <3>2, <3>3 DEF Entry
  <2>5. CASE at # Len(list) + 1
    <3>1. /\ at \in 1 .. Len(list) /\ at - 1 \in 1 .. Len(list) - 1 /\ ~ (at - 1 < op.k)
          /\ at # op.k /\ at - 1 + 1 = at
          BY <1>2, <1>4, <2>2, <2>5, SMTT(60)
    <3>2. ite = list[at]
          BY <1>2, <2>2, <3>1
    <3>3. list[at] # list[op.k]
          BY <1>4, <3>1, ChainPoints DEF QueueInv
    <3>4. ite' = ite
          BY <1>1, <1>5, <3>2, <3>3
    <3>5. list'[at - 1] = list[at]
          BY <1>6, <3>1
    <3>6. at' \in 1 .. Len(list')
          BY <1>6, <2>3, <3>1
    <3> QED BY <2>3, <3>2, <3>4, <3>5, <3>6 DEF Entry
  <2> QED BY <2>4, <2>5
<1>10. op.back \in {"idle", "walk"}
       BY <1>3 DEF OpRecord
<1>11. WalkOK' /\ RemoveInv'
       BY <1>7, <1>9, <1>10 DEF WalkOK, RemoveInv, Walking
<1> QED BY <1>6, <1>7, <1>8, <1>11 DEF QueueInv

\* Every step of a queue that is used with its mutex.
LEMMA NextKeepsQueue ==
    ASSUME QueueInv, adding = NULL, adding' = adding, Next
    PROVE  QueueInv'
<1>1. CASE \E n \in Node, d \in Data : Enq(n, d)
  <2>1. PICK n \in Node, d \in Data : Enq(n, d)
        BY <1>1
  <2> QED BY <2>1, EnqKeeps DEF Enq
<1>2. CASE \E d \in Data : LockRemove(d)
  <2>1. PICK d \in Data : LockRemove(d)
        BY <1>2
  <2> QED BY <2>1, RemoveBeginKeeps DEF LockRemove
<1>3. CASE RemoveCurrent
  <2>1. op.d \in Data \cup {NULL}
        BY DEF QueueInv, OpType, OpRecord
  <2> QED BY <1>3, <2>1, RemoveBeginKeeps DEF RemoveCurrent
<1> QED BY <1>1, <1>2, <1>3, DeqKeeps, RestKeeps, IterateHeadKeeps, IterateNextKeeps,
           RemoveSkipsKeeps, RemoveUnlinksKeeps, RemoveFinds0Keeps DEF Next

----------------------------------------------------------------------------
(* The tables *)

\* A queue used with its mutex is no table.
LEMMA QueueStepKeeps ==
    ASSUME ListInv, use = "queue", Next, UNCHANGED <<use, tables>>
    PROVE  ListInv'
<1>1. adding = NULL
      BY DEF ListInv, AddingInv
<1>2. UNCHANGED <<use, adding, get, reg>>
      BY DEF tables
<1>3. QueueInv'
      BY <1>1, <1>2, NextKeepsQueue DEF ListInv
<1>4. GetType' /\ RegType' /\ AddingInv' /\ UseInv'
      BY <1>1, <1>2 DEF ListInv, GetType, RegType, AddingInv, UseInv
<1> QED BY <1>3, <1>4 DEF ListInv

\* fdmi_hashtable_add, first half: the tail is left behind by one node.
LEMMA AddKeeps ==
    ASSUME ListInv, NEW n \in Node, NEW k \in Key, NEW v \in Val, Add(n, k, v)
    PROVE  ListInv'
<1>1. /\ use = "itop" /\ adding = NULL /\ EnqLink(n, [key |-> k, val |-> v]) /\ adding' = n
      /\ UNCHANGED <<tail, ite, length, op, at, use, get, reg>>
      BY DEF Add
<1>2. [key |-> k, val |-> v] \in Data
      BY TablesAssumption
<1>3. /\ list' \in Seq(Node) /\ next' \in [Node -> Node \cup {NULL}]
      /\ data' \in [Node -> Data \cup {NULL}] /\ live' \subseteq Node
      /\ Chain'
      /\ Len(list') = Len(list) + 1 /\ list'[Len(list) + 1] = n
      /\ \A i \in 1 .. Len(list) : list'[i] = list[i]
  <2>1. QueueType /\ Chain /\ Ends
        BY DEF ListInv, QueueInv
  <2> QED BY <1>1, <1>2, <2>1, LinkKeepsChain
<1>4. /\ Len(list) \in Nat
      /\ \A i \in 1 .. Len(list) : list[i] \in Node /\ Entry(i) = list[i] /\ Entry(i) # NULL
      /\ \A i \in Int : i \notin 1 .. Len(list) => Entry(i) = NULL
      BY Entries DEF ListInv, QueueInv
<1>5. tail = Entry(Len(list)) /\ length = Len(list)
      BY <1>1, <1>4 DEF ListInv, QueueInv, Ends, Pending
<1>6. Ends'
  <2>1. n # NULL /\ Pending' = 1 /\ Len(list') - 1 = Len(list)
        BY <1>1, <1>3, <1>4, QueueAssumption DEF Pending
  <2>2. Entry(Len(list))= (IF Len(list) \in 1 .. Len(list') THEN list'[Len(list)] ELSE NULL)
    <3>1. CASE Len(list) = 0
          BY <1>4, <3>1
    <3>2. CASE Len(list) > 0
          BY <1>3, <1>4, <3>2
    <3> QED BY <1>4, <3>1, <3>2
  <2> QED BY <1>1, <1>5, <2>1, <2>2 DEF Ends, Entry
<1>7. op.pc = "idle"
      BY <1>1 DEF ListInv, UseInv
<1>8. QueueType' /\ OpType'
      BY <1>1, <1>3 DEF ListInv, QueueInv, QueueType, OpType
<1>9. WalkOK' /\ RemoveInv'
      BY <1>1, <1>7, NoWalk
<1>10. GetType' /\ RegType' /\ UseInv'
       BY <1>1 DEF ListInv, GetType, RegType, UseInv
<1>11. AddingInv'
       BY <1>1, <1>3, <1>4 DEF AddingInv
<1> QED BY <1>3, <1>6, <1>8, <1>9, <1>10, <1>11 DEF ListInv, QueueInv

\* The second half: it is the last node.
LEMMA AddEndsKeeps ==
    ASSUME ListInv, AddEnds
    PROVE  ListInv'
<1>1. /\ adding # NULL /\ tail' = adding /\ length' = length + 1 /\ adding' = NULL
      /\ UNCHANGED <<next, data, live, head, ite, op, list, at, use, get, reg>>
      BY DEF AddEnds, EnqEnds
<1>2. Len(list) \in Nat
      BY LenProperties DEF ListInv, QueueInv, QueueType
<1>3. use = "itop" /\ Len(list) > 0 /\ adding = list[Len(list)]
      BY <1>1 DEF ListInv, AddingInv
<1>4. length = Len(list) - 1
      BY <1>1 DEF ListInv, QueueInv, Ends, Pending
<1>5. Ends'
  <2>1. Pending' = 0 /\ Len(list') = Len(list) /\ Len(list) - 0 = Len(list)
        BY <1>1, <1>2 DEF Pending
  <2>2. length' = Len(list) /\ Len(list) \in 1 .. Len(list)
        BY <1>1, <1>2, <1>3, <1>4
  <2> QED BY <1>1, <1>3, <2>1, <2>2 DEF Ends, Entry
<1>6. QueueType' /\ OpType' /\ Chain'
      BY <1>1, <1>2, <1>4 DEF ListInv, QueueInv, QueueType, OpType, Chain, Entry
<1>7. op.pc = "idle"
      BY <1>3 DEF ListInv, UseInv
<1>8. WalkOK' /\ RemoveInv'
      BY <1>1, <1>7, NoWalk
<1>9. GetType' /\ RegType' /\ UseInv' /\ AddingInv'
      BY <1>1 DEF ListInv, GetType, RegType, UseInv, AddingInv
<1> QED BY <1>5, <1>6, <1>8, <1>9 DEF ListInv, QueueInv

\* A step of a table that changes no node: only ite, while nobody walks with the mutex.
LEMMA TableStep ==
    ASSUME ListInv, use # "queue", ite' \in Node \cup {NULL},
           UNCHANGED <<next, data, live, head, tail, length, op, list, at, use, adding>>
    PROVE  QueueInv' /\ AddingInv'
<1>1. QueueType' /\ Chain' /\ Ends'
  <2>1. at' \in Int
        BY DEF ListInv, QueueInv, QueueType
  <2> QED BY <2>1, SameList DEF ListInv
<1>2. op.pc = "idle"
      BY DEF ListInv, UseInv
<1>3. WalkOK' /\ RemoveInv'
      BY <1>2, NoWalk
<1>4. OpType' /\ AddingInv'
      BY DEF ListInv, QueueInv, OpType, AddingInv
<1> QED BY <1>1, <1>3, <1>4 DEF QueueInv

\* A lookup at a node.
LEMMA VisitKeeps ==
    ASSUME ListInv, use = "itop", NEW w \in Walkers, NEW n \in Node, NEW g,
           g \in [pc : {"idle", "next"}, key : Key \cup {NULL}, must : BOOLEAN,
                  disturbed : BOOLEAN, ret : Data \cup {NULL}],
           Visit(w, g, n), UNCHANGED getRest
    PROVE  ListInv'
<1>1. /\ UNCHANGED <<next, data, live, head, tail, length, op, list, at, use, adding, reg>>
      /\ ite' = next[n]
      BY DEF Visit, getRest
<1>2. ite' \in Node \cup {NULL} /\ data[n] \in Data \cup {NULL}
      BY <1>1 DEF ListInv, QueueInv, QueueType
<1>3. QueueInv' /\ AddingInv'
      BY <1>1, <1>2, TableStep
<1>4. GetType'
  <2>1. [g EXCEPT !.pc = "idle", !.ret = data[n]] \in
           [pc : {"idle", "next"}, key : Key \cup {NULL}, must : BOOLEAN,
            disturbed : BOOLEAN, ret : Data \cup {NULL}]
        BY <1>2
  <2>2. [g EXCEPT !.pc = "next"] \in
           [pc : {"idle", "next"}, key : Key \cup {NULL}, must : BOOLEAN,
            disturbed : BOOLEAN, ret : Data \cup {NULL}]
        OBVIOUS
  <2>3. ASSUME NEW u \in Walkers
        PROVE  [get[u] EXCEPT !.disturbed = (@ \/ get[u].pc = "next")] \in
           [pc : {"idle", "next"}, key : Key \cup {NULL}, must : BOOLEAN,
            disturbed : BOOLEAN, ret : Data \cup {NULL}]
        BY DEF ListInv, GetType
  <2> QED BY <2>1, <2>2, <2>3 DEF GetType, Visit
<1>5. RegType' /\ UseInv'
      BY <1>1 DEF ListInv, RegType, UseInv
<1> QED BY <1>3, <1>4, <1>5 DEF ListInv

\* A lookup that begins.
LEMMA NewGet ==
    ASSUME NEW key \in Key, NEW m \in BOOLEAN
    PROVE  [NoGet EXCEPT !.key = key, !.must = m] \in
              [pc : {"idle", "next"}, key : Key \cup {NULL}, must : BOOLEAN,
               disturbed : BOOLEAN, ret : Data \cup {NULL}]
<1>1. NoGet \in [pc : {"idle", "next"}, key : Key \cup {NULL}, must : BOOLEAN,
                 disturbed : BOOLEAN, ret : Data \cup {NULL}]
      BY DEF NoGet
<1> QED BY <1>1

\* A buffer found in the cache.
LEMMA NewReg ==
    ASSUME NEW key \in Key, NEW size \in Nat, NEW d \in Data \cup {NULL}
    PROVE  /\ [NoReg EXCEPT !.key = key, !.size = size, !.ret = d] \in
                 [pc : {"idle", "register", "insert"}, key : Key \cup {NULL},
                  size : Nat, try : Int, ret : Data \cup {NULL}]
           /\ [NoReg EXCEPT !.key = key, !.size = size, !.ret = d].pc = "idle"
<1>1. NoReg \in [pc : {"idle", "register", "insert"}, key : Key \cup {NULL},
                 size : Nat, try : Int, ret : Data \cup {NULL}]
      BY DEF NoReg
<1>2. NoReg.pc = "idle"
      BY DEF NoReg
<1> QED BY <1>1, <1>2

\* GetHead: the first step of a lookup.
LEMMA GetHeadKeeps ==
    ASSUME ListInv, NEW w \in Walkers, NEW key \in Key, GetHead(w, key)
    PROVE  ListInv'
<1> DEFINE g == [NoGet EXCEPT !.key = key, !.must = (key \in added)]
           G == [pc : {"idle", "next"}, key : Key \cup {NULL}, must : BOOLEAN,
                 disturbed : BOOLEAN, ret : Data \cup {NULL}]
<1>1. g \in G
  <2>1. (key \in added) \in BOOLEAN
        OBVIOUS
  <2> QED BY ONLY <2>1, key \in Key, NewGet
<1>2. use = "itop" /\ UNCHANGED getRest
      BY DEF GetHead
<1>3. CASE head = NULL /\ get' = [get EXCEPT ![w] = g] /\ ite' = ite
  <2>1. UNCHANGED <<next, data, live, head, tail, length, op, list, at, use, adding, reg>>
        BY <1>2 DEF getRest
  <2>2. QueueInv' /\ AddingInv'
    <3>1. ite' \in Node \cup {NULL}
          BY <1>3 DEF ListInv, QueueInv, QueueType
    <3> QED BY <1>2, <2>1, <3>1, TableStep
  <2>3. GetType'
    <3>1. get \in [Walkers -> G]
          BY DEF ListInv, GetType
    <3> HIDE DEF g, G
    <3>2. get' \in [Walkers -> G]
          BY <1>1, <1>3, <3>1
    <3> QED BY <3>2 DEF GetType, G
  <2>4. RegType' /\ UseInv'
        BY <1>2, <2>1 DEF ListInv, RegType, UseInv
  <2> QED BY <2>2, <2>3, <2>4 DEF ListInv
<1>4. CASE head # NULL /\ Visit(w, g, head)
  <2>1. head \in Node
    <3>1. head = Entry(1) /\ QueueType
          BY DEF ListInv, QueueInv, Chain
    <3> QED BY <1>4, <3>1, Entries
  <2> HIDE DEF g
  <2> QED BY <1>1, <1>2, <1>4, <2>1, VisitKeeps
<1> QED BY <1>3, <1>4 DEF GetHead

\* GetNext: a lookup goes on.
LEMMA GetNextKeeps ==
    ASSUME ListInv, NEW w \in Walkers, GetNext(w)
    PROVE  ListInv'
<1> DEFINE G == [pc : {"idle", "next"}, key : Key \cup {NULL}, must : BOOLEAN,
                 disturbed : BOOLEAN, ret : Data \cup {NULL}]
<1>1. get \in [Walkers -> G] /\ get[w] \in G
      BY DEF ListInv, GetType
<1>2. use = "itop" /\ UNCHANGED getRest
      BY DEF GetNext, ListInv, UseInv
<1>3. CASE ite = NULL /\ get' = [get EXCEPT ![w].pc = "idle"] /\ ite' = ite
  <2>1. UNCHANGED <<next, data, live, head, tail, length, op, list, at, use, adding, reg>>
        BY <1>2 DEF getRest
  <2>2. QueueInv' /\ AddingInv'
    <3>1. ite' \in Node \cup {NULL}
          BY <1>3 DEF ListInv, QueueInv, QueueType
    <3> QED BY <1>2, <2>1, <3>1, TableStep
  <2>3. GetType'
    <3>1. [get[w] EXCEPT !.pc = "idle"] \in G
          BY <1>1
    <3>2. get' \in [Walkers -> G]
          BY <1>1, <1>3, <3>1
    <3> QED BY <3>2 DEF GetType
  <2>4. RegType' /\ UseInv'
        BY <1>2, <2>1 DEF ListInv, RegType, UseInv
  <2> QED BY <2>2, <2>3, <2>4 DEF ListInv
<1>4. CASE ite # NULL /\ Visit(w, get[w], ite)
  <2>1. ite \in Node
        BY <1>4 DEF ListInv, QueueInv, QueueType
  <2> QED BY <1>1, <1>2, <1>4, <2>1, VisitKeeps
<1> QED BY <1>3, <1>4 DEF GetNext

\* A set of numbers has a least one: the hit that the search meets first.
LEMMA LeastOf ==
    ASSUME NEW T, T \subseteq Nat, T # {}
    PROVE  \E i \in T : \A j \in T : i <= j
<1> DEFINE R == {ss \in Nat \X Nat : ss[1] < ss[2]}
<1>1. IsWellFoundedOn(R, Nat)
      BY NatLessThanWellFounded, Zenon DEF OpToRel
<1>2. PICK i \in T : \A j \in T : ~ (<<j, i>> \in R)
  <2> HIDE DEF R
  <2> QED BY <1>1, WFMin
<1>3. ASSUME NEW j \in T PROVE i <= j
  <2>1. j \in Nat /\ i \in Nat /\ <<j, i>> \notin R
        BY <1>2
  <2> QED BY <2>1
<1> QED BY <1>3

\* The search of fdmi_reg_mr, under the mutex.
LEMMA RegSearchKeeps ==
    ASSUME ListInv, NEW t \in Thread, NEW key \in Key, NEW size \in Val, RegSearch(t, key, size)
    PROVE  ListInv'
<1> DEFINE found == Hits(key, size)
           first == CHOOSE i \in found : \A j \in found : i <= j
           R == [pc : {"idle", "register", "insert"}, key : Key \cup {NULL},
                 size : Nat, try : Int, ret : Data \cup {NULL}]
           a == [NoReg EXCEPT !.pc = "register", !.key = key, !.size = size, !.try = MaxTry]
           b == [NoReg EXCEPT !.key = key, !.size = size, !.ret = data[list[first]]]
<1>1. /\ use = "mr" /\ reg' = [reg EXCEPT ![t] = IF found = {} THEN a ELSE b]
      /\ UNCHANGED <<vars, regRest>>
      BY DEF RegSearch
<1>2. UNCHANGED <<next, data, live, head, tail, length, ite, op, list, at, use, adding, get>>
      BY <1>1 DEF vars, pointers, regRest
<1>3. size \in Nat /\ MaxTry \in Int
      BY TablesAssumption
<1>4. a \in R /\ a.key = key /\ a.size = size
      BY <1>3 DEF NoReg
<1>5. found # {} => b \in R /\ b.pc = "idle"
  <2> HAVE found # {}
  <2>1. found \subseteq DOMAIN list /\ DOMAIN list = 1 .. Len(list) /\ Len(list) \in Nat
        BY LenProperties DEF Hits, ListInv, QueueInv, QueueType
  <2>2. \E i \in found : \A j \in found : i <= j
    <3>1. found \subseteq Nat
          BY <2>1
    <3> HIDE DEF found
    <3> QED BY <3>1, LeastOf
  <2>3. first \in found
    <3> HIDE DEF found
    <3> QED BY <2>2
  <2>4. data[list[first]] \in Data \cup {NULL}
    <3> HIDE DEF first, found
    <3>1. list[first] \in Node
          BY <2>1, <2>3, ElementOfSeq DEF ListInv, QueueInv, QueueType
    <3> QED BY <3>1 DEF ListInv, QueueInv, QueueType
  <2> HIDE DEF first
  <2> QED BY <1>3, <2>4, NewReg
<1>6. reg \in [Thread -> R]
      BY DEF ListInv, RegType
<1> HIDE DEF a, b, found
<1>7. reg' \in [Thread -> R] /\ \A s \in Thread \ {t} : reg'[s] = reg[s]
  <2> HIDE DEF R
  <2> QED BY <1>1, <1>4, <1>5, <1>6
<1>8. reg'[t].pc # "idle" => reg'[t].key \in Key /\ reg'[t].size \in Val
      BY <1>1, <1>4, <1>5, <1>6
<1>9. QueueInv' /\ AddingInv'
  <2>1. ite' \in Node \cup {NULL}
        BY <1>2 DEF ListInv, QueueInv, QueueType
  <2> QED BY <1>1, <1>2, <2>1, TableStep
<1>10. GetType' /\ RegType'
       BY <1>2, <1>7 DEF ListInv, GetType, RegType
<1>11. UseInv'
  <2>1. /\ op'.pc # "idle" => use' = "queue"
        /\ \A w \in Walkers : get'[w].pc # "idle" => use' = "itop"
        BY <1>2 DEF ListInv, UseInv
  <2>2. ASSUME NEW s \in Thread, reg'[s].pc # "idle"
        PROVE  use' = "mr" /\ reg'[s].key \in Key /\ reg'[s].size \in Val
    <3>1. CASE s = t
          BY <1>1, <1>2, <1>8, <2>2, <3>1
    <3>2. CASE s # t
          BY <1>1, <1>2, <1>7, <2>2, <3>2 DEF ListInv, UseInv
    <3> QED BY <3>1, <3>2
  <2> QED BY <2>1, <2>2 DEF UseInv
<1> QED BY <1>9, <1>10, <1>11 DEF ListInv

\* The registration itself, which holds no mutex and touches no node.
LEMMA RegRegisterKeeps ==
    ASSUME ListInv, NEW t \in Thread, RegRegister(t)
    PROVE  ListInv'
<1> DEFINE R == [pc : {"idle", "register", "insert"}, key : Key \cup {NULL},
                 size : Nat, try : Int, ret : Data \cup {NULL}]
<1>1. reg[t].pc = "register" /\ UNCHANGED <<vars, regRest>>
      BY DEF RegRegister
<1>2. UNCHANGED <<next, data, live, head, tail, length, ite, op, list, at, use, adding, get>>
      BY <1>1 DEF vars, pointers, regRest
<1>3. use = "mr" /\ reg[t].key \in Key /\ reg[t].size \in Val
      BY <1>1 DEF ListInv, UseInv
<1>4. reg \in [Thread -> R]
      BY DEF ListInv, RegType
<1>5. /\ reg' \in [Thread -> R] /\ \A s \in Thread \ {t} : reg'[s] = reg[s]
      /\ reg'[t].key = reg[t].key /\ reg'[t].size = reg[t].size
  <2>1. CASE reg' = [reg EXCEPT ![t].pc = "insert"]
        BY <1>4, <2>1
  <2>2. CASE reg' = [reg EXCEPT ![t].try = @ - 1]
        BY <1>4, <2>2
  <2> QED BY <2>1, <2>2 DEF RegRegister
<1>6. QueueInv' /\ AddingInv'
  <2>1. ite' \in Node \cup {NULL}
        BY <1>2 DEF ListInv, QueueInv, QueueType
  <2> QED BY <1>2, <1>3, <2>1, TableStep
<1>7. GetType' /\ RegType'
      BY <1>2, <1>5 DEF ListInv, GetType, RegType
<1>8. UseInv'
  <2>1. /\ op'.pc # "idle" => use' = "queue"
        /\ \A w \in Walkers : get'[w].pc # "idle" => use' = "itop"
        BY <1>2 DEF ListInv, UseInv
  <2>2. ASSUME NEW s \in Thread, reg'[s].pc # "idle"
        PROVE  use' = "mr" /\ reg'[s].key \in Key /\ reg'[s].size \in Val
    <3>1. CASE s = t
          BY <1>2, <1>3, <1>5, <3>1
    <3>2. CASE s # t
          BY <1>2, <1>5, <2>2, <3>2 DEF ListInv, UseInv
    <3> QED BY <3>1, <3>2
  <2> QED BY <2>1, <2>2 DEF UseInv
<1> QED BY <1>6, <1>7, <1>8 DEF ListInv

\* The insertion of the registered buffer: an fdmi_queue_enq under the mutex.
LEMMA RegInsertKeeps ==
    ASSUME ListInv, NEW t \in Thread, NEW n \in Node, RegInsert(t, n)
    PROVE  ListInv'
<1> DEFINE mr == [key |-> reg[t].key, val |-> reg[t].size]
           R == [pc : {"idle", "register", "insert"}, key : Key \cup {NULL},
                 size : Nat, try : Int, ret : Data \cup {NULL}]
<1>1. /\ reg[t].pc = "insert" /\ EnqLink(n, mr) /\ EnqEnds(n)
      /\ reg' = [reg EXCEPT ![t].pc = "idle", ![t].ret = mr]
      /\ UNCHANGED <<ite, op, at, regRest>>
      BY DEF RegInsert
<1>2. use = "mr" /\ mr \in Data
  <2>1. use = "mr" /\ reg[t].key \in Key /\ reg[t].size \in Val
        BY <1>1 DEF ListInv, UseInv
  <2> QED BY <2>1, TablesAssumption
<1>3. reg \in [Thread -> R]
      BY DEF ListInv, RegType
<1> HIDE DEF mr
<1>4. UNCHANGED <<ite, op, at, use, adding, get>>
      BY <1>1 DEF regRest
<1>5. adding = NULL /\ op.pc = "idle"
      BY <1>2 DEF ListInv, AddingInv, UseInv
<1>6. QueueInv'
  <2>1. QueueInv
        BY DEF ListInv
  <2> QED BY <1>1, <1>2, <1>4, <1>5, <2>1, EnqKeeps
<1>7. AddingInv' /\ GetType'
      BY <1>4, <1>5 DEF ListInv, AddingInv, GetType
<1>8. /\ reg' \in [Thread -> R] /\ \A s \in Thread \ {t} : reg'[s] = reg[s]
      /\ reg'[t].pc = "idle"
      BY <1>1, <1>2, <1>3
<1>9. RegType'
      BY <1>8 DEF RegType
<1>10. UseInv'
  <2>1. /\ op'.pc # "idle" => use' = "queue"
        /\ \A w \in Walkers : get'[w].pc # "idle" => use' = "itop"
        BY <1>4 DEF ListInv, UseInv
  <2>2. ASSUME NEW s \in Thread, reg'[s].pc # "idle"
        PROVE  use' = "mr" /\ reg'[s].key \in Key /\ reg'[s].size \in Val
    <3>1. s # t /\ reg'[s] = reg[s]
          BY <1>8, <2>2
    <3> QED BY <1>4, <2>2, <3>1 DEF ListInv, UseInv
  <2> QED BY <2>1, <2>2 DEF UseInv
<1> QED BY <1>6, <1>7, <1>9, <1>10 DEF ListInv

----------------------------------------------------------------------------
(* The theorem *)

\* fdmi_queue_create, and tables that nobody uses yet.
LEMMA InitKeeps ==
    ASSUME TablesInit
    PROVE  ListInv
<1>1. /\ Init /\ adding = NULL
      /\ get = [w \in Walkers |-> NoGet] /\ reg = [t \in Thread |-> NoReg]
      BY DEF TablesInit
<1>2. op = Idle /\ op.pc = "idle" /\ OpType
      BY <1>1, IdleOp DEF Init, OpType
<1>3. list = <<>> /\ Len(list) = 0 /\ list \in Seq(Node)
      BY <1>1 DEF Init
<1>4. QueueType
  <2>1. /\ next \in [Node -> {NULL}] /\ data \in [Node -> {NULL}] /\ live = {}
        /\ length = 0 /\ at = 1 /\ ite \in Node \cup {NULL}
        BY <1>1 DEF Init
  <2>2. next \in [Node -> Node \cup {NULL}] /\ data \in [Node -> Data \cup {NULL}]
        BY <2>1
  <2> QED BY <1>3, <2>1, <2>2 DEF QueueType
<1>5. Chain /\ Ends
      BY <1>1, <1>3 DEF Init, Chain, Ends, Pending, Entry
<1>6. WalkOK /\ RemoveInv
      BY <1>2 DEF WalkOK, RemoveInv, Walking
<1>7. GetType
  <2>1. NoGet \in [pc : {"idle", "next"}, key : Key \cup {NULL}, must : BOOLEAN,
                   disturbed : BOOLEAN, ret : Data \cup {NULL}]
        BY DEF NoGet
  <2> QED BY <1>1, <2>1 DEF GetType
<1>8. RegType
  <2>1. NoReg \in [pc : {"idle", "register", "insert"}, key : Key \cup {NULL},
                   size : Nat, try : Int, ret : Data \cup {NULL}]
        BY DEF NoReg
  <2> QED BY <1>1, <2>1 DEF RegType
<1>9. AddingInv
      BY <1>1 DEF AddingInv
<1>10. UseInv
  <2>1. NoGet.pc = "idle" /\ NoReg.pc = "idle"
        BY DEF NoGet, NoReg
  <2> QED BY <1>1, <1>2, <2>1 DEF UseInv
<1> QED BY <1>2, <1>4, <1>5, <1>6, <1>7, <1>8, <1>9, <1>10 DEF ListInv, QueueInv

\* Every step of every use of the list.
LEMMA StepKeeps ==
    ASSUME ListInv, [TablesNext]_allVars
    PROVE  ListInv'
<1>1. CASE use = "queue" /\ Next /\ UNCHANGED <<use, tables>>
      BY <1>1, QueueStepKeeps
<1>2. CASE \E n \in Node, k \in Key, v \in Val : Add(n, k, v)
      BY <1>2, AddKeeps
<1>3. CASE AddEnds
      BY <1>3, AddEndsKeeps
<1>4. CASE \E w \in Walkers : GetNext(w) \/ \E k \in Key : GetHead(w, k)
      BY <1>4, GetNextKeeps, GetHeadKeeps
<1>5. CASE \E t \in Thread : \/ \E k \in Key, v \in Val : RegSearch(t, k, v)
                             \/ RegRegister(t) \/ \E n \in Node : RegInsert(t, n)
      BY <1>5, RegSearchKeeps, RegRegisterKeeps, RegInsertKeeps
<1>6. CASE UNCHANGED allVars
  <2>1. /\ UNCHANGED <<next, data, live, head, tail, length, ite, op, list, at>>
        /\ UNCHANGED <<use, adding, get, reg>>
        BY <1>6 DEF allVars, vars, pointers, tables
  <2>2. QueueType' /\ OpType' /\ Chain' /\ Ends'
        BY <2>1 DEF ListInv, QueueInv, QueueType, OpType, Chain, Ends, Entry, Pending
  <2>3. WalkOK' /\ RemoveInv'
        BY <2>1 DEF ListInv, QueueInv, WalkOK, RemoveInv, Walking, Entry
  <2>4. GetType' /\ RegType' /\ AddingInv' /\ UseInv'
        BY <2>1 DEF ListInv, GetType, RegType, AddingInv, UseInv
  <2> QED BY <2>2, <2>3, <2>4 DEF ListInv, QueueInv
<1> QED BY <1>1, <1>2, <1>3, <1>4, <1>5, <1>6 DEF TablesNext

\* Between two operations the ends are not behind.
LEMMA InvImplies ==
    ASSUME ListInv
    PROVE  ListInOrder
<1>1. ASSUME adding = NULL PROVE ListOK
  <2>1. Len(list) \in Nat
        BY LenProperties DEF ListInv, QueueInv, QueueType
  <2>2. tail = Entry(Len(list)) /\ length = Len(list)
        BY <1>1, <2>1 DEF ListInv, QueueInv, Ends, Pending
  <2> QED BY <2>2 DEF ListInv, QueueInv, Chain, ListOK
<1> QED BY <1>1 DEF ListInOrder, ListInv, QueueInv

\* fdmi_queue_enq, _deq, _remove and _iterate, fdmi_hashtable_add and fdmi_reg_mr: however
\* many nodes, elements and threads there are, following next from head gives the nodes of
\* the queue, allocated and each once, up to tail, length of them, whenever no insertion is
\* in progress; and a walk with the mutex never has its iterator at a freed node, also when
\* it removes the element it is at.
THEOREM ListStaysInOrder == TablesSpec => []ListInOrder
<1>1. TablesInit => ListInv
      BY InitKeeps
<1>2. ListInv /\ [TablesNext]_allVars => ListInv'
      BY StepKeeps
<1>3. ListInv => ListInOrder
      BY InvImplies
<1> QED BY <1>1, <1>2, <1>3, PTL DEF TablesSpec

----------------------------------------------------------------------------
(* Lookups in the hash table *)

\* The identifier that a lookup looks for is at the iterator or behind it.
OnTheWay(k) ==
    \E i, j \in 1 .. Len(list) : i <= j /\ ite = list[i] /\ data[list[j]].key = k

HoldsData == use # "queue" => \A i \in 1 .. Len(list) : data[list[i]] \in Data

AddedInv == \A k \in added : use = "itop" /\ \E j \in 1 .. Len(list) : data[list[j]].key = k

LookupInv ==
    \A w \in Walkers :
       get[w].pc = "next" =>
          /\ get[w].ret = NULL
          /\ get[w].must /\ ~ get[w].disturbed => \A k : k = get[w].key => OnTheWay(k)

\* While lookups are under way the iterator is in the list.
IteInv ==
    (\E w \in Walkers : get[w].pc = "next") => ite = NULL \/ \E i \in 1 .. Len(list) : ite = list[i]

TableInv == HoldsData /\ AddedInv /\ LookupInv /\ GetFinds

\* An insertion leaves the entries that are there and what they hold.
LEMMA LinkKeepsEntries ==
    ASSUME QueueType, Chain, Ends, adding = NULL, NEW n \in Node, NEW d \in Data, EnqLink(n, d)
    PROVE  /\ Len(list) \in Nat /\ Len(list') = Len(list) + 1
           /\ \A i \in 1 .. Len(list) : list'[i] = list[i] /\ data'[list'[i]] = data[list[i]]
           /\ data'[list'[Len(list) + 1]] = d
<1>1. /\ Len(list') = Len(list) + 1 /\ list'[Len(list) + 1] = n
      /\ \A i \in 1 .. Len(list) : list'[i] = list[i]
      BY LinkKeepsChain
<1>2. Len(list) \in Nat /\ \A i \in 1 .. Len(list) : list[i] \in Node
      BY Entries
<1>3. n \notin live /\ data' = [data EXCEPT ![n] = d]
      BY DEF EnqLink
<1>4. \A i \in 1 .. Len(list) : list[i] # n
      BY <1>3 DEF Chain
<1>5. data'[n] = d /\ \A x \in Node : x # n => data'[x] = data[x]
      BY <1>3 DEF QueueType
<1>6. \A i \in 1 .. Len(list) : data'[list'[i]] = data[list[i]]
      BY <1>1, <1>2, <1>4, <1>5
<1> QED BY <1>1, <1>2, <1>5, <1>6

\* What an insertion leaves of the invariant.
LEMMA LinkKeepsTable ==
    ASSUME ListInv, TableInv, adding = NULL, NEW n \in Node, NEW d \in Data, EnqLink(n, d),
           UNCHANGED <<use, ite, get, added>>
    PROVE  TableInv'
<1>1. QueueType /\ Chain /\ Ends
      BY DEF ListInv, QueueInv
<1>2. /\ Len(list) \in Nat /\ Len(list') = Len(list) + 1
      /\ \A i \in 1 .. Len(list) : list'[i] = list[i] /\ data'[list'[i]] = data[list[i]]
      /\ data'[list'[Len(list) + 1]] = d
      BY <1>1, LinkKeepsEntries
<1>3. HoldsData'
  <2> SUFFICES ASSUME use' # "queue", NEW i \in 1 .. Len(list') PROVE data'[list'[i]] \in Data
      BY TablesAssumption DEF HoldsData
  <2>1. CASE i \in 1 .. Len(list)
        BY <1>2, <2>1 DEF TableInv, HoldsData
  <2>2. CASE i = Len(list) + 1
        BY <1>2, <2>2
  <2> QED BY <1>2, <2>1, <2>2
<1>4. AddedInv'
  <2> SUFFICES ASSUME NEW k \in added
               PROVE  use = "itop" /\ \E j \in 1 .. Len(list') : data'[list'[j]].key = k
      BY DEF AddedInv
  <2>1. PICK j \in 1 .. Len(list) : use = "itop" /\ data[list[j]].key = k
        BY DEF TableInv, AddedInv
  <2>2. j \in 1 .. Len(list')
        BY <1>2
  <2> QED BY <1>2, <2>1, <2>2
<1>5. ASSUME NEW k, OnTheWay(k) PROVE OnTheWay(k)'
  <2>1. PICK i, j \in 1 .. Len(list) : i <= j /\ ite = list[i] /\ data[list[j]].key = k
        BY <1>5 DEF OnTheWay
  <2>2. i \in 1 .. Len(list') /\ j \in 1 .. Len(list')
        BY <1>2
  <2> QED BY <1>2, <2>1, <2>2 DEF OnTheWay
<1>6. LookupInv'
  <2>1. ASSUME NEW w \in Walkers, get'[w].pc = "next", get'[w].must, ~ get'[w].disturbed,
               NEW k, k = get'[w].key
        PROVE  OnTheWay(k)'
        BY <1>5, <2>1 DEF TableInv, LookupInv
  <2>2. \A w \in Walkers : get'[w].pc = "next" => get'[w].ret = NULL
        BY DEF TableInv, LookupInv
  <2> HIDE DEF OnTheWay
  <2> QED BY <2>1, <2>2 DEF LookupInv
<1>7. GetFinds'
      BY DEF TableInv, GetFinds
<1> QED BY <1>3, <1>4, <1>6, <1>7 DEF TableInv

\* A step that leaves the list and what its nodes hold.
LEMMA SameTable ==
    ASSUME TableInv, UNCHANGED <<list, data, use>>
    PROVE  /\ HoldsData'
           /\ UNCHANGED added => AddedInv'
           /\ UNCHANGED ite => \A k : OnTheWay(k) => OnTheWay(k)'
           /\ UNCHANGED <<ite, get>> => LookupInv' /\ GetFinds'
<1>1. HoldsData' /\ (UNCHANGED added => AddedInv')
      BY TablesAssumption DEF TableInv, HoldsData, AddedInv
<1>2. ASSUME UNCHANGED ite, NEW k, OnTheWay(k) PROVE OnTheWay(k)'
      BY <1>2 DEF OnTheWay
<1>3. ASSUME UNCHANGED <<ite, get>> PROVE LookupInv' /\ GetFinds'
  <2>1. ASSUME NEW w \in Walkers, get'[w].pc = "next", get'[w].must, ~ get'[w].disturbed,
               NEW k, k = get'[w].key
        PROVE  OnTheWay(k)'
        BY <1>2, <1>3, <2>1 DEF TableInv, LookupInv
  <2>2. \A w \in Walkers : get'[w].pc = "next" => get'[w].ret = NULL
        BY <1>3 DEF TableInv, LookupInv
  <2>3. GetFinds'
        BY <1>3 DEF TableInv, GetFinds
  <2> HIDE DEF OnTheWay
  <2> QED BY <2>1, <2>2, <2>3 DEF LookupInv
<1> QED BY <1>1, <1>2, <1>3

\* The lookups of a queue are idle.
LEMMA NoLookup ==
    ASSUME ListInv, TableInv, use # "itop", UNCHANGED <<use, get, added>>, HoldsData'
    PROVE  TableInv'
<1>1. added = {} /\ \A w \in Walkers : get[w].pc = "idle"
  <2>1. \A k \in added : FALSE
        BY DEF TableInv, AddedInv
  <2> QED BY <2>1 DEF ListInv, UseInv
<1>2. AddedInv'
      BY <1>1 DEF AddedInv
<1>3. LookupInv' /\ GetFinds'
      BY <1>1 DEF LookupInv, TableInv, GetFinds
<1> QED BY <1>2, <1>3 DEF TableInv

\* The identifier is added when both halves are done.
LEMMA AddEndsTable ==
    ASSUME ListInv, TableInv, AddEnds
    PROVE  TableInv'
<1>1. /\ adding # NULL /\ added' = added \cup {data[adding].key}
      /\ UNCHANGED <<data, ite, list, use, get>>
      BY DEF AddEnds
<1>2. HoldsData' /\ LookupInv' /\ GetFinds'
      BY <1>1, SameTable
<1>3. use = "itop" /\ Len(list) > 0 /\ adding = list[Len(list)] /\ Len(list) \in Nat
      BY <1>1, Entries DEF ListInv, AddingInv, QueueInv
<1>4. ASSUME NEW k \in added' PROVE use' = "itop" /\ \E j \in 1 .. Len(list') : data'[list'[j]].key = k
  <2>1. CASE k \in added
        BY <1>1, <2>1 DEF TableInv, AddedInv
  <2>2. CASE k = data[adding].key
    <3>1. Len(list) \in 1 .. Len(list)
          BY <1>3
    <3> QED BY <1>1, <1>3, <2>2, <3>1
  <2> QED BY <1>1, <2>1, <2>2
<1> QED BY <1>2, <1>4 DEF TableInv, AddedInv

\* A lookup at entry i of the list: it finds its identifier there or goes on with the next.
LEMMA VisitFinds ==
    ASSUME ListInv, TableInv, use = "itop", NEW w \in Walkers, NEW i \in 1 .. Len(list), NEW g,
           g \in [pc : {"idle", "next"}, key : Key \cup {NULL}, must : BOOLEAN,
                  disturbed : BOOLEAN, ret : Data \cup {NULL}],
           g.ret = NULL,
           g.must /\ ~ g.disturbed => \E j \in i .. Len(list) : data[list[j]].key = g.key,
           Visit(w, g, list[i]), UNCHANGED getRest
    PROVE  TableInv'
<1>1. UNCHANGED <<next, list, data, use, added>> /\ ite' = next[list[i]]
      BY DEF Visit, getRest
<1>2. HoldsData' /\ AddedInv'
      BY <1>1, SameTable
<1>3. data[list[i]] \in Data /\ data[list[i]] # NULL /\ Len(list) \in Nat
      BY Entries, QueueAssumption DEF TableInv, HoldsData, ListInv, QueueInv
<1>4. PICK e : e = data[list[i]]
      OBVIOUS
<1>5. get'[w] = IF e.key = g.key THEN [g EXCEPT !.pc = "idle", !.ret = e]
                ELSE [g EXCEPT !.pc = "next"]
      BY <1>4 DEF Visit
<1>6. \A v \in Walkers : v # w =>
         get'[v] = [get[v] EXCEPT !.disturbed = (@ \/ get[v].pc = "next")]
      BY DEF Visit
<1>7. ASSUME NEW v \in Walkers, v # w
      PROVE  /\ get'[v].pc = "next" => get'[v].ret = NULL /\ get'[v].disturbed
             /\ get'[v].pc = "idle" =>
                  /\ get'[v].must /\ ~ get'[v].disturbed => get'[v].ret # NULL
                  /\ get'[v].ret # NULL => get'[v].ret.key = get'[v].key
  <2>1. PICK h : h = get[v]
        OBVIOUS
  <2>2. h \in [pc : {"idle", "next"}, key : Key \cup {NULL}, must : BOOLEAN,
               disturbed : BOOLEAN, ret : Data \cup {NULL}]
        BY <2>1 DEF ListInv, GetType
  <2>3. get'[v] = [h EXCEPT !.disturbed = (h.disturbed \/ h.pc = "next")]
        BY <1>6, <1>7, <2>1
  <2>4. /\ get'[v].pc = h.pc /\ get'[v].ret = h.ret /\ get'[v].must = h.must
        /\ get'[v].key = h.key /\ get'[v].disturbed = (h.disturbed \/ h.pc = "next")
        BY <2>2, <2>3
  <2>5. /\ h.pc = "next" => h.ret = NULL
        /\ h.pc = "idle" => /\ h.must /\ ~ h.disturbed => h.ret # NULL
                            /\ h.ret # NULL => h.ret.key = h.key
        BY <2>1 DEF TableInv, LookupInv, GetFinds
  <2> QED BY <2>4, <2>5
<1>8. CASE e.key = g.key
  <2>1. get'[w].pc = "idle" /\ get'[w].ret = e /\ get'[w].key = g.key
        BY <1>5, <1>8
  <2>2. LookupInv'
        BY <1>7, <2>1 DEF LookupInv
  <2>3. GetFinds'
        BY <1>3, <1>4, <1>7, <1>8, <2>1 DEF GetFinds
  <2> QED BY <1>2, <2>2, <2>3 DEF TableInv
<1>9. CASE e.key # g.key
  <2>1. /\ get'[w].pc = "next" /\ get'[w].ret = NULL /\ get'[w].key = g.key
        /\ get'[w].must = g.must /\ get'[w].disturbed = g.disturbed
        BY <1>5, <1>9
  <2>2. ASSUME g.must, ~ g.disturbed PROVE OnTheWay(g.key)'
    <3>1. PICK j \in i .. Len(list) : data[list[j]].key = g.key
          BY <2>2
    <3>2. j # i /\ j \in 1 .. Len(list) /\ i + 1 \in 1 .. Len(list) /\ i + 1 <= j
          BY <1>3, <1>4, <1>9, <3>1
    <3>3. next[list[i]] = list[i + 1]
          BY <3>2 DEF ListInv, QueueInv, Chain, Entry
    <3> QED BY <1>1, <3>1, <3>2, <3>3 DEF OnTheWay
  <2>3. ASSUME NEW v \in Walkers, get'[v].pc = "next", get'[v].must, ~ get'[v].disturbed,
               NEW k, k = get'[v].key
        PROVE  OnTheWay(k)'
    <3>1. v = w
          BY <1>7, <2>3
    <3>2. g.must /\ ~ g.disturbed /\ k = g.key
          BY <2>1, <2>3, <3>1
    <3> QED BY <2>2, <3>2
  <2>4. \A v \in Walkers : get'[v].pc = "next" => get'[v].ret = NULL
        BY <1>7, <2>1
  <2>5. LookupInv'
    <3> HIDE DEF OnTheWay
    <3> QED BY <2>3, <2>4 DEF LookupInv
  <2>6. GetFinds'
        BY <1>7, <2>1 DEF GetFinds
  <2> QED BY <1>2, <2>5, <2>6 DEF TableInv
<1> QED BY <1>8, <1>9

\* One lookup ends, the others and the list stay as they are.
LEMMA LookupEnds ==
    ASSUME TableInv, NEW w \in Walkers, GetType, UNCHANGED <<list, data, use, added, ite>>,
           \A v \in Walkers : v # w => get'[v] = get[v],
           get'[w].pc = "idle", get'[w].ret = NULL,
           ~ (get'[w].must /\ ~ get'[w].disturbed)
    PROVE  TableInv'
<1>1. HoldsData' /\ AddedInv' /\ \A k : OnTheWay(k) => OnTheWay(k)'
      BY SameTable
<1>2. ASSUME NEW v \in Walkers, get'[v].pc = "next", get'[v].must, ~ get'[v].disturbed,
             NEW k, k = get'[v].key
      PROVE  OnTheWay(k)'
      BY <1>1, <1>2 DEF TableInv, LookupInv
<1>3. \A v \in Walkers : get'[v].pc = "next" => get'[v].ret = NULL
      BY DEF TableInv, LookupInv
<1>4. GetFinds'
      BY DEF TableInv, GetFinds
<1> HIDE DEF OnTheWay
<1>5. LookupInv'
      BY <1>2, <1>3 DEF LookupInv
<1> QED BY <1>1, <1>4, <1>5 DEF TableInv

LEMMA GetHeadTable ==
    ASSUME ListInv, TableInv, NEW w \in Walkers, NEW key \in Key, GetHead(w, key)
    PROVE  TableInv'
<1>1. use = "itop" /\ UNCHANGED getRest
      BY DEF GetHead
<1>2. PICK g : g = [NoGet EXCEPT !.key = key, !.must = (key \in added)]
      OBVIOUS
<1>3. g \in [pc : {"idle", "next"}, key : Key \cup {NULL}, must : BOOLEAN,
             disturbed : BOOLEAN, ret : Data \cup {NULL}]
  <2>1. (key \in added) \in BOOLEAN
        OBVIOUS
  <2>2. [NoGet EXCEPT !.key = key, !.must = (key \in added)] \in
           [pc : {"idle", "next"}, key : Key \cup {NULL}, must : BOOLEAN,
            disturbed : BOOLEAN, ret : Data \cup {NULL}]
        BY ONLY <2>1, key \in Key, NewGet
  <2> QED BY <1>2, <2>2
<1>4. g.pc = "idle" /\ g.ret = NULL /\ g.key = key /\ g.must = (key \in added) /\ g.disturbed = FALSE
      BY <1>2 DEF NoGet
<1>5. Len(list) \in Nat /\ (Len(list) > 0 => head = list[1]) /\ (Len(list) = 0 => head = NULL)
      BY ChainPoints, Entries DEF ListInv, QueueInv
<1>6. g.must => \E j \in 1 .. Len(list) : data[list[j]].key = g.key
      BY <1>4 DEF TableInv, AddedInv
<1>7. \A i \in 1 .. Len(list) : list[i] # NULL
      BY Entries DEF ListInv, QueueInv
<1>8. CASE head = NULL /\ get' = [get EXCEPT ![w] = g] /\ UNCHANGED ite
  <2>1. Len(list) = 0
        BY <1>5, <1>7, <1>8
  <2>2. ~ g.must
        BY <1>6, <2>1
  <2>3. get'[w] = g /\ \A v \in Walkers : v # w => get'[v] = get[v]
        BY <1>8 DEF ListInv, GetType
  <2> QED BY <1>1, <1>4, <1>8, <2>2, <2>3, LookupEnds DEF getRest, ListInv
<1>9. CASE head # NULL /\ Visit(w, g, head)
  <2>1. 1 \in 1 .. Len(list) /\ head = list[1]
        BY <1>5, <1>9
  <2>2. g.must /\ ~ g.disturbed => \E j \in 1 .. Len(list) : data[list[j]].key = g.key
        BY <1>6
  <2> QED BY <1>1, <1>3, <1>4, <1>9, <2>1, <2>2, VisitFinds
<1> QED BY <1>2, <1>8, <1>9 DEF GetHead

\* A lookup that goes on where the iterator is: if another one has moved it there, it may
\* miss its identifier, but not take another for it.
LEMMA GetNextTable ==
    ASSUME ListInv, TableInv, IteInv, NEW w \in Walkers, GetNext(w)
    PROVE  TableInv'
<1>1. use = "itop" /\ get[w].pc = "next" /\ UNCHANGED getRest
      BY DEF GetNext, ListInv, UseInv
<1>2. PICK g : g = get[w]
      OBVIOUS
<1>3. g \in [pc : {"idle", "next"}, key : Key \cup {NULL}, must : BOOLEAN,
             disturbed : BOOLEAN, ret : Data \cup {NULL}]
      BY <1>2 DEF ListInv, GetType
<1>4. g.ret = NULL /\ (g.must /\ ~ g.disturbed => OnTheWay(g.key))
      BY <1>1, <1>2 DEF TableInv, LookupInv
<1>5. CASE ite = NULL /\ get' = [get EXCEPT ![w].pc = "idle"] /\ UNCHANGED ite
  <2>1. ~ (g.must /\ ~ g.disturbed)
    <3>1. \A i \in 1 .. Len(list) : list[i] # NULL
          BY Entries DEF ListInv, QueueInv
    <3> QED BY <1>4, <1>5, <3>1 DEF OnTheWay
  <2>2. /\ get'[w].pc = "idle" /\ get'[w].ret = NULL /\ get'[w].must = g.must
        /\ get'[w].disturbed = g.disturbed
        /\ \A v \in Walkers : v # w => get'[v] = get[v]
        BY <1>2, <1>3, <1>4, <1>5 DEF ListInv, GetType
  <2> QED BY <1>1, <1>5, <2>1, <2>2, LookupEnds DEF getRest, ListInv
<1>6. CASE ite # NULL /\ Visit(w, g, ite)
  <2>1. PICK i \in 1 .. Len(list) : ite = list[i]
        BY <1>1, <1>6 DEF IteInv
  <2>2. g.must /\ ~ g.disturbed => \E j \in i .. Len(list) : data[list[j]].key = g.key
    <3> SUFFICES ASSUME g.must, ~ g.disturbed
                 PROVE  \E j \in i .. Len(list) : data[list[j]].key = g.key
        OBVIOUS
    <3>1. PICK a, b \in 1 .. Len(list) : a <= b /\ ite = list[a] /\ data[list[b]].key = g.key
          BY <1>4 DEF OnTheWay
    <3>2. a = i
          BY <2>1, <3>1, ChainPoints DEF ListInv, QueueInv
    <3>3. b \in i .. Len(list)
          BY <3>1, <3>2
    <3> QED BY <3>1, <3>3
  <2> QED BY <1>1, <1>3, <1>4, <1>6, <2>1, <2>2, VisitFinds
<1> QED BY <1>2, <1>5, <1>6 DEF GetNext

\* The iterator goes from an entry to the next or to the end.
LEMMA IteKeeps ==
    ASSUME ListInv, TableInv, IteInv, [TablesNext]_allVars
    PROVE  IteInv'
<1>1. ASSUME UNCHANGED <<ite, get>>, Len(list') >= Len(list),
             \A i \in 1 .. Len(list) : list'[i] = list[i]
      PROVE  IteInv'
  <2> SUFFICES ASSUME NEW w \in Walkers, get[w].pc = "next"
               PROVE  ite = NULL \/ \E i \in 1 .. Len(list') : ite = list'[i]
      BY <1>1 DEF IteInv
  <2>1. CASE ite = NULL
        BY <2>1
  <2>2. CASE \E i \in 1 .. Len(list) : ite = list[i]
    <3>1. PICK i \in 1 .. Len(list) : ite = list[i]
          BY <2>2
    <3>2. Len(list) \in Nat /\ Len(list') \in Nat
      <4>1. Len(list) \in Nat
            BY Entries DEF ListInv, QueueInv
      <4>2. ListInv'
            BY StepKeeps
      <4> QED BY <4>1, <4>2, LenProperties DEF ListInv, QueueInv, QueueType
    <3>3. i \in 1 .. Len(list')
          BY <1>1, <3>2
    <3> QED BY <1>1, <3>1, <3>3
  <2> QED BY <2>1, <2>2 DEF IteInv
<1>2. ASSUME NEW i \in 1 .. Len(list), ite' = next[list[i]], UNCHANGED list
      PROVE  IteInv'
  <2>1. /\ Len(list) \in Nat
        /\ \A j \in 1 .. Len(list) - 1 : next[list[j]] = list[j + 1]
        /\ Len(list) > 0 => next[list[Len(list)]] = NULL
        BY ChainPoints, Entries DEF ListInv, QueueInv
  <2>2. CASE i = Len(list)
        BY <1>2, <2>1, <2>2 DEF IteInv
  <2>3. CASE i # Len(list)
    <3>1. i \in 1 .. Len(list) - 1 /\ i + 1 \in 1 .. Len(list)
          BY <2>1, <2>3
    <3> QED BY <1>2, <2>1, <3>1 DEF IteInv
  <2> QED BY <2>2, <2>3
<1>3. ASSUME use # "itop", UNCHANGED get PROVE IteInv'
      BY <1>3 DEF ListInv, UseInv, IteInv
<1>4. CASE use = "queue" /\ Next /\ UNCHANGED <<use, tables>>
      BY <1>3, <1>4 DEF tables
<1>5. ASSUME NEW n \in Node, NEW k \in Key, NEW v \in Val, Add(n, k, v) PROVE IteInv'
  <2>1. [key |-> k, val |-> v] \in Data /\ QueueType /\ Chain /\ Ends /\ adding = NULL
        BY <1>5, TablesAssumption DEF Add, ListInv, QueueInv
  <2>2. EnqLink(n, [key |-> k, val |-> v]) /\ UNCHANGED <<ite, get>>
        BY <1>5 DEF Add
  <2>3. Len(list) \in Nat /\ Len(list') = Len(list) + 1 /\ \A i \in 1 .. Len(list) : list'[i] = list[i]
        BY <2>1, <2>2, LinkKeepsEntries
  <2>4. Len(list') >= Len(list)
        BY <2>3
  <2> QED BY <1>1, <2>2, <2>3, <2>4
<1>6. ASSUME UNCHANGED <<ite, get, list>> PROVE IteInv'
      BY <1>6 DEF IteInv
<1>7. CASE AddEnds
      BY <1>6, <1>7 DEF AddEnds
<1>8. ASSUME NEW w \in Walkers, GetNext(w) PROVE IteInv'
  <2>1. CASE ite = NULL /\ UNCHANGED ite
        BY <2>1 DEF IteInv
  <2>2. CASE ite # NULL /\ ite' = next[ite]
    <3>1. PICK i \in 1 .. Len(list) : ite = list[i]
          BY <1>8, <2>2 DEF GetNext, IteInv
    <3>2. UNCHANGED list
          BY <1>8 DEF GetNext, getRest
    <3> QED BY <1>2, <2>2, <3>1, <3>2
  <2> QED BY <1>8, <2>1, <2>2 DEF GetNext, Visit
<1>9. ASSUME NEW w \in Walkers, NEW k \in Key, GetHead(w, k) PROVE IteInv'
  <2>1. Len(list) \in Nat /\ (Len(list) > 0 => head = list[1]) /\ (Len(list) = 0 => head = NULL)
        BY ChainPoints, Entries DEF ListInv, QueueInv
  <2>2. UNCHANGED list
        BY <1>9 DEF GetHead, getRest
  <2>3. CASE head = NULL /\ ite' = ite /\ get' = [get EXCEPT ![w] = [NoGet EXCEPT !.key = k, !.must = (k \in added)]]
    <3>1. \A v \in Walkers : get'[v].pc = "next" => get[v].pc = "next"
      <4>1. [NoGet EXCEPT !.key = k, !.must = (k \in added)].pc = "idle"
            BY DEF NoGet
      <4> QED BY <2>3, <4>1 DEF ListInv, GetType
    <3> QED BY <2>2, <2>3, <3>1 DEF IteInv
  <2>4. CASE head # NULL /\ ite' = next[head]
    <3>1. 1 \in 1 .. Len(list) /\ head = list[1]
          BY <2>1, <2>4
    <3> QED BY <1>2, <2>2, <2>4, <3>1
  <2> QED BY <1>9, <2>3, <2>4 DEF GetHead, Visit
<1>10. ASSUME NEW t \in Thread, \/ \E k \in Key, v \in Val : RegSearch(t, k, v)
                                \/ RegRegister(t) \/ \E n \in Node : RegInsert(t, n)
       PROVE  IteInv'
  <2>1. use = "mr" /\ UNCHANGED get
        BY <1>10 DEF RegSearch, RegRegister, RegInsert, regRest, ListInv, UseInv
  <2> QED BY <1>3, <2>1
<1>11. CASE UNCHANGED allVars
       BY <1>6, <1>11 DEF allVars, vars, pointers, tables
<1> QED BY <1>4, <1>5, <1>7, <1>8, <1>9, <1>10, <1>11 DEF TablesNext

LEMMA TableInit ==
    ASSUME TablesInit
    PROVE  TableInv /\ IteInv
<1>1. list = <<>> /\ added = {} /\ get = [w \in Walkers |-> NoGet] /\ Len(list) = 0
      BY DEF TablesInit, Init
<1>2. NoGet.pc = "idle" /\ NoGet.must = FALSE /\ NoGet.ret = NULL
      BY DEF NoGet
<1>3. HoldsData
      BY <1>1 DEF HoldsData
<1>4. AddedInv
      BY <1>1 DEF AddedInv
<1>5. LookupInv /\ IteInv /\ GetFinds
      BY <1>1, <1>2 DEF LookupInv, IteInv, GetFinds
<1> QED BY <1>3, <1>4, <1>5 DEF TableInv

LEMMA TableStepKeeps ==
    ASSUME ListInv, TableInv, IteInv, [TablesNext]_allVars
    PROVE  TableInv'
<1>1. CASE use = "queue" /\ Next /\ UNCHANGED <<use, tables>>
  <2>1. use # "itop" /\ UNCHANGED <<use, get, added>> /\ HoldsData'
        BY <1>1 DEF tables, HoldsData
  <2> QED BY <2>1, NoLookup
<1>2. ASSUME NEW n \in Node, NEW k \in Key, NEW v \in Val, Add(n, k, v) PROVE TableInv'
  <2>1. [key |-> k, val |-> v] \in Data /\ adding = NULL
        BY <1>2, TablesAssumption DEF Add
  <2>2. EnqLink(n, [key |-> k, val |-> v]) /\ UNCHANGED <<use, ite, get, added>>
        BY <1>2 DEF Add
  <2> QED BY <2>1, <2>2, LinkKeepsTable
<1>3. CASE AddEnds
      BY <1>3, AddEndsTable
<1>4. CASE \E w \in Walkers : GetNext(w) \/ \E k \in Key : GetHead(w, k)
      BY <1>4, GetNextTable, GetHeadTable
<1>5. ASSUME UNCHANGED <<list, data, use, added, ite, get>> PROVE TableInv'
      BY <1>5, SameTable DEF TableInv
<1>6. ASSUME NEW t \in Thread, \/ \E k \in Key, v \in Val : RegSearch(t, k, v)
                               \/ RegRegister(t)
      PROVE  TableInv'
      BY <1>5, <1>6 DEF RegSearch, RegRegister, regRest, vars, pointers
<1>7. ASSUME NEW t \in Thread, NEW n \in Node, RegInsert(t, n) PROVE TableInv'
  <2>1. PICK mr : mr = [key |-> reg[t].key, val |-> reg[t].size]
        OBVIOUS
  <2>2. reg[t].pc = "insert" /\ EnqLink(n, mr) /\ UNCHANGED <<use, ite, get, added>>
        BY <1>7, <2>1 DEF RegInsert, regRest
  <2>3. mr \in Data /\ adding = NULL
    <3>1. use = "mr" /\ reg[t].key \in Key /\ reg[t].size \in Val
          BY <2>2 DEF ListInv, UseInv
    <3> QED BY <2>1, <3>1, TablesAssumption DEF ListInv, AddingInv
  <2> QED BY <2>2, <2>3, LinkKeepsTable
<1>8. CASE UNCHANGED allVars
      BY <1>5, <1>8 DEF allVars, vars, pointers, tables
<1> QED BY <1>1, <1>2, <1>3, <1>4, <1>6, <1>7, <1>8 DEF TablesNext

\* fdmi_hashtable_add and _get without a lock, for any number of threads and identifiers: a
\* lookup that began after its identifier was added finds it, although insertions may come
\* between its steps and half of one may be done, unless another lookup has moved the
\* iterator that they share; and what a lookup returns always has its identifier.
THEOREM LookupsFind == TablesSpec => []GetFinds
<1>1. TablesInit => ListInv /\ TableInv /\ IteInv
      BY InitKeeps, TableInit
<1>2. ListInv /\ TableInv /\ IteInv /\ [TablesNext]_allVars => ListInv' /\ TableInv' /\ IteInv'
      BY StepKeeps, TableStepKeeps, IteKeeps
<1>3. TableInv => GetFinds
      BY DEF TableInv
<1> QED BY <1>1, <1>2, <1>3, PTL DEF TablesSpec

----------------------------------------------------------------------------
(* The cache of registered buffers *)

\* The entries that hold buffer d, and the calls that have missed it and not inserted it.
Copies(d)  == {i \in 1 .. Len(list) : data[list[i]] = d}
Wanting(d) == {t \in Thread : reg[t].pc # "idle" /\ reg[t].key = d.key /\ reg[t].size = d.val}

\* What is in the cache is registered, and so is what is about to be put there.
CachedInv == \A i \in 1 .. Len(list) : data[list[i]] \in registered
InsertInv ==
    \A t \in Thread : reg[t].pc = "insert" => [key |-> reg[t].key, val |-> reg[t].size] \in registered

RetInv ==
    \A t \in Thread : reg[t].ret # NULL =>
       /\ reg[t].ret \in registered
       /\ reg[t].ret.key = reg[t].key /\ reg[t].ret.val >= reg[t].size

\* A call misses a buffer only while there is no copy of it: from then on copies and calls
\* that have missed it together are no more than the threads.
CountInv == \A d \in Data : Cardinality(Copies(d)) + Cardinality(Wanting(d)) <= Cardinality(Thread)

SumInv == cached_size = Sum(list)

CacheInv == use = "mr" => CachedInv /\ InsertInv /\ RetInv /\ CountInv /\ SumInv

\* f holds the sums of the lengths of the first i buffers of s.
PartSums(f, n, s, d) == f = [i \in 0 .. n |-> IF i = 0 THEN 0 ELSE f[i - 1] + d[s[i]].val]

LEMMA SumsExist ==
    ASSUME NEW s, NEW d, NEW n \in Nat
    PROVE  \E f : PartSums(f, n, s, d)
<1> DEFINE bad == {m \in Nat : ~ \E f : PartSums(f, m, s, d)}
<1> SUFFICES ASSUME bad # {} PROVE FALSE
    OBVIOUS
<1>1. PICK m \in bad : \A j \in bad : m <= j
  <2>1. bad \subseteq Nat
        OBVIOUS
  <2> HIDE DEF bad
  <2> QED BY <2>1, LeastOf
<1>2. CASE m = 0
  <2>1. PICK f : f = [i \in 0 .. 0 |-> 0]
        OBVIOUS
  <2>2. \A i \in 0 .. 0 : i = 0
        OBVIOUS
  <2>3. PartSums(f, 0, s, d)
        BY <2>1, <2>2 DEF PartSums
  <2> QED BY <1>2, <2>3
<1>3. CASE m # 0
  <2>1. m \in Nat /\ m - 1 \in Nat /\ m - 1 \notin bad
        BY <1>1, <1>3
  <2>2. PICK f : PartSums(f, m - 1, s, d)
        BY <2>1
  <2>3. \A i \in 0 .. m - 1 : f[i] = IF i = 0 THEN 0 ELSE f[i - 1] + d[s[i]].val
        BY <2>2 DEF PartSums
  <2>4. PICK g : g = [i \in 0 .. m |-> IF i = m THEN f[m - 1] + d[s[m]].val ELSE f[i]]
        OBVIOUS
  <2>5. \A i \in 0 .. m : g[i] = IF i = 0 THEN 0 ELSE g[i - 1] + d[s[i]].val
    <3> TAKE i \in 0 .. m
    <3>1. CASE i = 0
      <4>1. g[i] = f[0] /\ 0 \in 0 .. m - 1
            BY <1>3, <2>1, <2>4, <3>1
      <4> QED BY <2>3, <3>1, <4>1
    <3>2. CASE i = m
      <4>1. g[i] = f[m - 1] + d[s[m]].val /\ g[m - 1] = f[m - 1]
            BY <2>1, <2>4, <3>2
      <4> QED BY <1>3, <3>2, <4>1
    <3>3. CASE i # 0 /\ i # m
      <4>1. g[i] = f[i] /\ g[i - 1] = f[i - 1] /\ i \in 0 .. m - 1
            BY <2>1, <2>4, <3>3
      <4> QED BY <2>3, <3>3, <4>1
    <3> QED BY <3>1, <3>2, <3>3
  <2>6. PartSums(g, m, s, d)
    <3>1. PICK h : h = [i \in 0 .. m |-> IF i = 0 THEN 0 ELSE g[i - 1] + d[s[i]].val]
          OBVIOUS
    <3>2. \A i \in 0 .. m : h[i] = g[i]
          BY <2>5, <3>1
    <3>3. g = [i \in 0 .. m |-> g[i]] /\ h = [i \in 0 .. m |-> h[i]]
          BY <2>4, <3>1
    <3>4. g = h
          BY <3>2, <3>3
    <3> QED BY <3>1, <3>4 DEF PartSums
  <2> QED BY <2>6
<1> QED BY <1>2, <1>3

\* The sums of two lists that begin in the same way.
LEMMA SumsAgree ==
    ASSUME NEW n \in Nat, NEW m \in Nat, n <= m, NEW f, NEW g, NEW s, NEW d, NEW t, NEW e,
           PartSums(f, n, s, d), PartSums(g, m, t, e),
           \A i \in 1 .. n : d[s[i]].val = e[t[i]].val
    PROVE  f[n] = g[n]
<1> DEFINE bad == {i \in 0 .. n : f[i] # g[i]}
<1> SUFFICES ASSUME bad # {} PROVE FALSE
    OBVIOUS
<1>1. PICK i \in bad : \A j \in bad : i <= j
  <2>1. bad \subseteq Nat
        OBVIOUS
  <2> HIDE DEF bad
  <2> QED BY <2>1, LeastOf
<1>2. \A j \in 0 .. n : /\ f[j] = IF j = 0 THEN 0 ELSE f[j - 1] + d[s[j]].val
                        /\ g[j] = IF j = 0 THEN 0 ELSE g[j - 1] + e[t[j]].val
      BY DEF PartSums
<1>3. i # 0
      BY <1>1, <1>2
<1>4. i - 1 \in 0 .. n /\ i - 1 \notin bad /\ i \in 1 .. n
      BY <1>1, <1>3
<1>5. f[i - 1] = g[i - 1] /\ d[s[i]].val = e[t[i]].val
      BY <1>4
<1>6. f[i] = f[i - 1] + d[s[i]].val /\ g[i] = g[i - 1] + e[t[i]].val
      BY <1>2, <1>3, <1>4
<1> QED BY <1>1, <1>5, <1>6

\* Sum is the last of these sums.
LEMMA SumIs ==
    ASSUME NEW s, NEW d, Len(s) \in Nat
    PROVE  PartSums(CHOOSE f : PartSums(f, Len(s), s, d), Len(s), s, d)
<1>1. \E f : PartSums(f, Len(s), s, d)
      BY SumsExist
<1> HIDE DEF PartSums
<1> QED BY <1>1

\* One more buffer.
LEMMA SumAppends ==
    ASSUME Len(list) \in Nat, Len(list') = Len(list) + 1,
           \A i \in 1 .. Len(list) : data'[list'[i]] = data[list[i]]
    PROVE  Sum(list)' = Sum(list) + data'[list'[Len(list) + 1]].val
<1>1. PICK f : f = CHOOSE h : PartSums(h, Len(list), list, data)
      OBVIOUS
<1>2. PICK g : g = CHOOSE h : PartSums(h, Len(list'), list', data')
      OBVIOUS
<1>3. Sum(list) = f[Len(list)] /\ Sum(list)' = g[Len(list')]
  <2>1. Sum(list) = f[Len(list)]
        BY <1>1, Zenon DEF Sum, PartSums
  <2>2. Sum(list)' = g[Len(list')]
        BY <1>2, Zenon DEF Sum, PartSums
  <2> QED BY <2>1, <2>2
<1>4. PICK n \in Nat : n = Len(list)
      OBVIOUS
<1>5. PartSums(f, n, list, data)
      BY <1>1, <1>4, SumIs
<1>6. Len(list') = n + 1 /\ n + 1 \in Nat
      BY <1>4
<1>7. PartSums(g, n + 1, list', data')
      BY <1>2, <1>6, SumIs
<1>8. f[n] = g[n]
  <2>1. \A i \in 1 .. n : data[list[i]].val = data'[list'[i]].val
        BY <1>4
  <2>2. n <= n + 1
        BY <1>4
  <2> QED BY <1>5, <1>6, <1>7, <2>1, <2>2, SumsAgree
<1>9. g[n + 1] = g[n] + data'[list'[n + 1]].val
  <2>1. n + 1 \in 0 .. n + 1 /\ n + 1 # 0 /\ (n + 1) - 1 = n
        BY <1>4
  <2>2. g[n + 1] = g[(n + 1) - 1] + data'[list'[n + 1]].val
        BY <1>7, <2>1 DEF PartSums
  <2> QED BY <2>1, <2>2
<1> QED BY <1>3, <1>4, <1>6, <1>8, <1>9

\* The two sets that are counted are finite.
LEMMA CountsFinite ==
    ASSUME ListInv, NEW d
    PROVE  /\ IsFiniteSet(Copies(d)) /\ Cardinality(Copies(d)) \in Nat
           /\ IsFiniteSet(Wanting(d)) /\ Cardinality(Wanting(d)) \in Nat
           /\ Cardinality(Wanting(d)) <= Cardinality(Thread) /\ Cardinality(Thread) \in Nat
<1>1. Len(list) \in Nat
      BY Entries DEF ListInv, QueueInv
<1>2. IsFiniteSet(1 .. Len(list)) /\ Copies(d) \in SUBSET (1 .. Len(list))
      BY <1>1, FS_Interval DEF Copies
<1>3. IsFiniteSet(Thread) /\ Wanting(d) \in SUBSET Thread
      BY TablesAssumption DEF Wanting
<1> HIDE DEF Copies, Wanting
<1>4. IsFiniteSet(Copies(d)) /\ IsFiniteSet(Wanting(d)) /\ Cardinality(Wanting(d)) <= Cardinality(Thread)
      BY <1>2, <1>3, FS_Subset
<1> QED BY <1>3, <1>4, FS_CardinalityType

\* The search: a hit is registered and long enough, and after a miss there is no copy of a
\* buffer of this address and length.
LEMMA RegSearchCache ==
    ASSUME ListInv, HoldsData, CacheInv, NEW t \in Thread, NEW key \in Key, NEW size \in Val,
           RegSearch(t, key, size)
    PROVE  CacheInv'
<1>1. /\ use = "mr" /\ reg[t].pc = "idle"
      /\ UNCHANGED <<list, data, use, registered, cached_size>>
      BY DEF RegSearch, vars, pointers, regRest
<1>2. CachedInv /\ InsertInv /\ RetInv /\ CountInv /\ SumInv
      BY <1>1 DEF CacheInv
<1>3. PICK found : found = Hits(key, size)
      OBVIOUS
<1>4. PICK first : first = CHOOSE i \in found : \A j \in found : i <= j
      OBVIOUS
<1>5. PICK r : r = IF found = {}
                   THEN [NoReg EXCEPT !.pc = "register", !.key = key, !.size = size, !.try = MaxTry]
                   ELSE [NoReg EXCEPT !.key = key, !.size = size, !.ret = data[list[first]]]
      OBVIOUS
<1>6. \A s \in Thread : reg'[s] = IF s = t THEN r ELSE reg[s]
  <2>1. reg' = [reg EXCEPT ![t] = r]
        BY <1>3, <1>4, <1>5 DEF RegSearch
  <2> QED BY <2>1 DEF ListInv, RegType
<1>7. /\ r.key = key /\ r.size = size
      /\ found = {} => r.pc = "register" /\ r.ret = NULL
      /\ found # {} => r.pc = "idle" /\ r.ret = data[list[first]]
      BY <1>5 DEF NoReg
<1>8. /\ Len(list) \in Nat /\ DOMAIN list = 1 .. Len(list) /\ found \subseteq 1 .. Len(list)
      /\ found = {i \in 1 .. Len(list) : data[list[i]].key = key /\ data[list[i]].val >= size}
      BY <1>3, LenProperties DEF Hits, ListInv, QueueInv, QueueType
<1>9. found # {} => first \in found
  <2> HAVE found # {}
  <2>1. found \subseteq Nat
        BY <1>8
  <2>2. \E i \in found : \A j \in found : i <= j
        BY <2>1, LeastOf
  <2> QED BY <1>4, <2>2
<1>10. CachedInv'
       BY <1>1, <1>2 DEF CachedInv
<1>11. InsertInv'
       BY <1>1, <1>2, <1>6, <1>7 DEF InsertInv
<1>12. RetInv'
  <2> SUFFICES ASSUME NEW s \in Thread, reg'[s].ret # NULL
               PROVE  /\ reg'[s].ret \in registered'
                      /\ reg'[s].ret.key = reg'[s].key /\ reg'[s].ret.val >= reg'[s].size
      BY DEF RetInv
  <2>1. CASE s # t
        BY <1>1, <1>2, <1>6, <2>1 DEF RetInv
  <2>2. CASE s = t
    <3>1. reg'[s] = r /\ found # {} /\ r.ret = data[list[first]]
          BY <1>6, <1>7, <2>2
    <3>2. first \in 1 .. Len(list) /\ r.ret.key = key /\ r.ret.val >= size
          BY <1>8, <1>9, <3>1
    <3>3. r.ret \in registered
          BY <1>2, <3>1, <3>2 DEF CachedInv
    <3> QED BY <1>1, <1>7, <3>1, <3>2, <3>3
  <2> QED BY <2>1, <2>2
<1>13. ASSUME NEW d \in Data
       PROVE  Cardinality(Copies(d)') + Cardinality(Wanting(d)') <= Cardinality(Thread)
  <2>1. Copies(d)' = Copies(d)
        BY <1>1 DEF Copies
  <2>2. CASE found = {} /\ d.key = key /\ d.val = size
    <3>1. d.val \in Nat
          BY TablesAssumption, <2>2
    <3>2. Copies(d) = {}
          BY <1>8, <2>2, <3>1 DEF Copies
    <3>3. Cardinality(Copies(d)') = 0
          BY <2>1, <3>2, FS_EmptySet
    <3>4. Cardinality(Wanting(d)') \in Nat /\ Cardinality(Wanting(d)') <= Cardinality(Thread)
      <4>1. IsFiniteSet(Thread) /\ Wanting(d)' \in SUBSET Thread
            BY TablesAssumption DEF Wanting
      <4>2. PICK W : W = Wanting(d)'
            OBVIOUS
      <4>3. IsFiniteSet(W) /\ Cardinality(W) <= Cardinality(Thread)
            BY <4>1, <4>2, FS_Subset
      <4> QED BY <4>2, <4>3, FS_CardinalityType
    <3> QED BY <3>3, <3>4
  <2>3. CASE ~ (found = {} /\ d.key = key /\ d.val = size)
    <3>1. Wanting(d)' = Wanting(d)
      <4>1. \A s \in Thread : s \in Wanting(d)' <=> s \in Wanting(d)
        <5> TAKE s \in Thread
        <5>1. CASE s = t
              BY <1>1, <1>6, <1>7, <2>3, <5>1 DEF Wanting
        <5>2. CASE s # t
              BY <1>6, <5>2 DEF Wanting
        <5> QED BY <5>1, <5>2
      <4>2. Wanting(d)' \subseteq Thread /\ Wanting(d) \subseteq Thread
            BY DEF Wanting
      <4> QED BY <4>1, <4>2
    <3> QED BY <1>2, <2>1, <3>1 DEF CountInv
  <2> QED BY <2>2, <2>3
<1>14. SumInv'
  <2>1. Sum(list)' = Sum(list)
        BY <1>1 DEF Sum
  <2> QED BY <1>1, <1>2, <2>1 DEF SumInv
<1> HIDE DEF Copies, Wanting
<1>15. CountInv'
       BY <1>13 DEF CountInv
<1> QED BY <1>10, <1>11, <1>12, <1>14, <1>15 DEF CacheInv

\* The registration: it is made before it is needed.
LEMMA RegRegisterCache ==
    ASSUME ListInv, CacheInv, NEW t \in Thread, RegRegister(t)
    PROVE  CacheInv'
<1>1. /\ reg[t].pc = "register" /\ UNCHANGED <<list, data, use, cached_size>>
      BY DEF RegRegister, vars, pointers, regRest
<1>2. use = "mr" /\ CachedInv /\ InsertInv /\ RetInv /\ CountInv /\ SumInv
      BY <1>1 DEF CacheInv, ListInv, UseInv
<1>3. /\ \A s \in Thread \ {t} : reg'[s] = reg[s]
      /\ reg'[t].pc \in {"register", "insert"} /\ registered \subseteq registered'
      /\ reg'[t].key = reg[t].key /\ reg'[t].size = reg[t].size /\ reg'[t].ret = reg[t].ret
      /\ reg'[t].pc = "insert" => [key |-> reg[t].key, val |-> reg[t].size] \in registered'
  <2>1. CASE /\ reg' = [reg EXCEPT ![t].pc = "insert"]
             /\ registered' = registered \cup {[key |-> reg[t].key, val |-> reg[t].size]}
        BY <2>1 DEF ListInv, RegType
  <2>2. CASE reg' = [reg EXCEPT ![t].try = @ - 1] /\ UNCHANGED registered
        BY <1>1, <2>2 DEF ListInv, RegType
  <2> QED BY <2>1, <2>2 DEF RegRegister
<1>4. CachedInv'
      BY <1>1, <1>2, <1>3 DEF CachedInv
<1>5. InsertInv'
  <2> SUFFICES ASSUME NEW s \in Thread, reg'[s].pc = "insert"
               PROVE  [key |-> reg'[s].key, val |-> reg'[s].size] \in registered'
      BY DEF InsertInv
  <2>1. CASE s = t
        BY <1>3, <2>1
  <2>2. CASE s # t
        BY <1>2, <1>3, <2>2 DEF InsertInv
  <2> QED BY <2>1, <2>2
<1>6. RetInv'
  <2> SUFFICES ASSUME NEW s \in Thread, reg'[s].ret # NULL
               PROVE  /\ reg'[s].ret \in registered'
                      /\ reg'[s].ret.key = reg'[s].key /\ reg'[s].ret.val >= reg'[s].size
      BY DEF RetInv
  <2>1. reg'[s].ret = reg[s].ret /\ reg'[s].key = reg[s].key /\ reg'[s].size = reg[s].size
        BY <1>3
  <2> QED BY <1>2, <1>3, <2>1 DEF RetInv
<1>7. ASSUME NEW d \in Data PROVE Copies(d)' = Copies(d) /\ Wanting(d)' = Wanting(d)
  <2>1. Copies(d)' = Copies(d)
        BY <1>1 DEF Copies
  <2>2. ASSUME NEW s \in Thread PROVE s \in Wanting(d)' <=> s \in Wanting(d)
    <3>1. CASE s = t
          BY <1>1, <1>3, <3>1 DEF Wanting
    <3>2. CASE s # t
          BY <1>3, <3>2 DEF Wanting
    <3> QED BY <3>1, <3>2
  <2>3. Wanting(d)' \subseteq Thread /\ Wanting(d) \subseteq Thread
        BY DEF Wanting
  <2> QED BY <2>1, <2>2, <2>3
<1>8. SumInv'
  <2>1. Sum(list)' = Sum(list)
        BY <1>1 DEF Sum
  <2> QED BY <1>1, <1>2, <2>1 DEF SumInv
<1> HIDE DEF Copies, Wanting
<1>9. CountInv'
      BY <1>2, <1>7 DEF CountInv
<1> QED BY <1>4, <1>5, <1>6, <1>8, <1>9 DEF CacheInv

\* The insertion: one call that wanted the buffer becomes one copy of it.
LEMMA RegInsertCache ==
    ASSUME ListInv, CacheInv, NEW t \in Thread, NEW n \in Node, RegInsert(t, n)
    PROVE  CacheInv'
<1>1. PICK mr : mr = [key |-> reg[t].key, val |-> reg[t].size]
      OBVIOUS
<1>2. /\ reg[t].pc = "insert" /\ EnqLink(n, mr) /\ UNCHANGED <<use, registered>>
      /\ cached_size' = cached_size + reg[t].size
      /\ reg' = [reg EXCEPT ![t].pc = "idle", ![t].ret = mr]
      BY <1>1 DEF RegInsert, regRest
<1>3. use = "mr" /\ mr \in Data /\ adding = NULL /\ reg[t].size \in Nat
  <2>1. use = "mr" /\ reg[t].key \in Key /\ reg[t].size \in Val
        BY <1>2 DEF ListInv, UseInv
  <2> QED BY <1>1, <2>1, TablesAssumption DEF ListInv, AddingInv
<1>4. CachedInv /\ InsertInv /\ RetInv /\ CountInv /\ SumInv
      BY <1>3 DEF CacheInv
<1>5. /\ Len(list) \in Nat /\ Len(list') = Len(list) + 1
      /\ \A i \in 1 .. Len(list) : list'[i] = list[i] /\ data'[list'[i]] = data[list[i]]
      /\ data'[list'[Len(list) + 1]] = mr
      BY <1>2, <1>3, LinkKeepsEntries DEF ListInv, QueueInv
<1>6. /\ \A s \in Thread \ {t} : reg'[s] = reg[s]
      /\ reg'[t].pc = "idle" /\ reg'[t].ret = mr
      /\ reg'[t].key = reg[t].key /\ reg'[t].size = reg[t].size
      BY <1>2 DEF ListInv, RegType
<1>7. mr \in registered /\ mr.key = reg[t].key /\ mr.val = reg[t].size
      BY <1>1, <1>2, <1>4 DEF InsertInv
<1>8. CachedInv'
  <2> SUFFICES ASSUME NEW i \in 1 .. Len(list') PROVE data'[list'[i]] \in registered
      BY <1>2 DEF CachedInv
  <2>1. CASE i \in 1 .. Len(list)
        BY <1>4, <1>5, <2>1 DEF CachedInv
  <2>2. CASE i = Len(list) + 1
        BY <1>5, <1>7, <2>2
  <2> QED BY <1>5, <2>1, <2>2
<1>9. InsertInv'
  <2> SUFFICES ASSUME NEW s \in Thread, reg'[s].pc = "insert"
               PROVE  [key |-> reg'[s].key, val |-> reg'[s].size] \in registered
      BY <1>2 DEF InsertInv
  <2>1. s # t
        BY <1>6
  <2> QED BY <1>4, <1>6, <2>1 DEF InsertInv
<1>10. RetInv'
  <2> SUFFICES ASSUME NEW s \in Thread, reg'[s].ret # NULL
               PROVE  /\ reg'[s].ret \in registered
                      /\ reg'[s].ret.key = reg'[s].key /\ reg'[s].ret.val >= reg'[s].size
      BY <1>2 DEF RetInv
  <2>1. CASE s # t
        BY <1>4, <1>6, <2>1 DEF RetInv
  <2>2. CASE s = t
        BY <1>3, <1>6, <1>7, <2>2
  <2> QED BY <2>1, <2>2
<1>11. SumInv'
  <2>1. Sum(list)' = Sum(list) + data'[list'[Len(list) + 1]].val
        BY <1>5, SumAppends
  <2> QED BY <1>2, <1>4, <1>5, <1>7, <2>1 DEF SumInv
<1>12. ASSUME NEW d \in Data
       PROVE  Cardinality(Copies(d)') + Cardinality(Wanting(d)') <= Cardinality(Thread)
  <2>1. /\ IsFiniteSet(Copies(d)) /\ Cardinality(Copies(d)) \in Nat
        /\ IsFiniteSet(Wanting(d)) /\ Cardinality(Wanting(d)) \in Nat
        /\ Cardinality(Thread) \in Nat
        BY CountsFinite
  <2>2. Cardinality(Copies(d)) + Cardinality(Wanting(d)) <= Cardinality(Thread)
        BY <1>4 DEF CountInv
  <2>3. CASE d = mr
    <3>1. Copies(d)' = Copies(d) \cup {Len(list) + 1} /\ Len(list) + 1 \notin Copies(d)
      <4>1. \A i : i \in 1 .. Len(list') <=> i \in 1 .. Len(list) \/ i = Len(list) + 1
            BY <1>5
      <4>2. \A i : i \in Copies(d)' <=> i \in 1 .. Len(list') /\ data'[list'[i]] = d
            BY DEF Copies
      <4>3. \A i : i \in Copies(d) <=> i \in 1 .. Len(list) /\ data[list[i]] = d
            BY DEF Copies
      <4>4. Len(list) + 1 \notin 1 .. Len(list)
            BY <1>5
      <4> HIDE DEF Copies
      <4>5. \A i : i \in Copies(d)' <=> i \in Copies(d) \/ i = Len(list) + 1
            BY <1>5, <2>3, <4>1, <4>2, <4>3
      <4> QED BY <4>3, <4>4, <4>5
    <3>2. Wanting(d)' = Wanting(d) \ {t} /\ t \in Wanting(d)
      <4>1. t \in Wanting(d) /\ t \notin Wanting(d)'
            BY <1>2, <1>6, <1>7, <2>3 DEF Wanting
      <4>2. ASSUME NEW s \in Thread, s # t PROVE s \in Wanting(d)' <=> s \in Wanting(d)
            BY <1>6, <4>2 DEF Wanting
      <4>3. Wanting(d)' \subseteq Thread /\ Wanting(d) \subseteq Thread
            BY DEF Wanting
      <4> QED BY <4>1, <4>2, <4>3
    <3>3. Cardinality(Copies(d)') = Cardinality(Copies(d)) + 1
          BY <2>1, <3>1, FS_AddElement
    <3>4. Cardinality(Wanting(d)') = Cardinality(Wanting(d)) - 1
          BY <2>1, <3>2, FS_RemoveElement
    <3> QED BY <2>1, <2>2, <3>3, <3>4
  <2>4. CASE d # mr
    <3>1. Copies(d)' = Copies(d)
      <4>1. \A i : i \in 1 .. Len(list') <=> i \in 1 .. Len(list) \/ i = Len(list) + 1
            BY <1>5
      <4>2. \A i : i \in Copies(d)' <=> i \in 1 .. Len(list') /\ data'[list'[i]] = d
            BY DEF Copies
      <4>3. \A i : i \in Copies(d) <=> i \in 1 .. Len(list) /\ data[list[i]] = d
            BY DEF Copies
      <4> HIDE DEF Copies
      <4>4. \A i : i \in Copies(d)' <=> i \in Copies(d)
            BY <1>5, <2>4, <4>1, <4>2, <4>3
      <4> QED BY <4>4
    <3>2. Wanting(d)' = Wanting(d)
      <4>1. ~ (d.key = mr.key /\ d.val = mr.val)
            BY <1>3, <2>4, TablesAssumption
      <4>2. t \notin Wanting(d) /\ t \notin Wanting(d)'
            BY <1>6, <1>7, <4>1 DEF Wanting
      <4>3. ASSUME NEW s \in Thread, s # t PROVE s \in Wanting(d)' <=> s \in Wanting(d)
            BY <1>6, <4>3 DEF Wanting
      <4>4. Wanting(d)' \subseteq Thread /\ Wanting(d) \subseteq Thread
            BY DEF Wanting
      <4> QED BY <4>2, <4>3, <4>4
    <3> QED BY <2>2, <3>1, <3>2
  <2> QED BY <2>3, <2>4
<1> HIDE DEF Copies, Wanting
<1>13. CountInv'
       BY <1>12 DEF CountInv
<1> QED BY <1>8, <1>9, <1>10, <1>11, <1>13 DEF CacheInv

LEMMA CacheInit ==
    ASSUME TablesInit
    PROVE  CacheInv
<1>1. /\ list = <<>> /\ Len(list) = 0 /\ cached_size = 0
      /\ reg = [t \in Thread |-> NoReg] /\ NoReg.pc = "idle" /\ NoReg.ret = NULL
      BY DEF TablesInit, Init, NoReg
<1>2. CachedInv /\ InsertInv /\ RetInv
      BY <1>1 DEF CachedInv, InsertInv, RetInv
<1>3. ASSUME NEW d \in Data
      PROVE  Cardinality(Copies(d)) + Cardinality(Wanting(d)) <= Cardinality(Thread)
  <2>1. Copies(d) = {} /\ Wanting(d) = {}
        BY <1>1 DEF Copies, Wanting
  <2>2. Cardinality(Thread) \in Nat
        BY TablesAssumption, FS_CardinalityType
  <2> QED BY <2>1, <2>2, FS_EmptySet
<1>4. Sum(list) = 0
  <2>1. PICK f : f = CHOOSE h : PartSums(h, Len(list), list, data)
        OBVIOUS
  <2>2. Sum(list) = f[Len(list)]
        BY <2>1, Zenon DEF Sum, PartSums
  <2>3. PartSums(f, 0, list, data)
        BY <1>1, <2>1, SumIs
  <2>4. f[0] = 0
        BY <2>3 DEF PartSums
  <2> QED BY <1>1, <2>2, <2>4
<1> HIDE DEF Copies, Wanting
<1> QED BY <1>1, <1>2, <1>3, <1>4 DEF CacheInv, CountInv, SumInv

LEMMA CacheStepKeeps ==
    ASSUME ListInv, HoldsData, CacheInv, [TablesNext]_allVars
    PROVE  CacheInv'
<1>1. ASSUME use # "mr", UNCHANGED use PROVE CacheInv'
      BY <1>1 DEF CacheInv
<1>2. CASE use = "queue" /\ Next /\ UNCHANGED <<use, tables>>
      BY <1>1, <1>2
<1>3. ASSUME NEW n \in Node, NEW k \in Key, NEW v \in Val, Add(n, k, v) PROVE CacheInv'
      BY <1>1, <1>3 DEF Add
<1>4. CASE AddEnds
      BY <1>1, <1>4 DEF AddEnds, ListInv, AddingInv
<1>5. CASE \E w \in Walkers : GetNext(w) \/ \E k \in Key : GetHead(w, k)
      BY <1>1, <1>5 DEF GetNext, GetHead, getRest, ListInv, UseInv
<1>6. CASE \E t \in Thread : \/ \E k \in Key, v \in Val : RegSearch(t, k, v)
                             \/ RegRegister(t) \/ \E n \in Node : RegInsert(t, n)
      BY <1>6, RegSearchCache, RegRegisterCache, RegInsertCache
<1>7. CASE UNCHANGED allVars
  <2>1. UNCHANGED <<list, data, use, reg, registered, cached_size>>
        BY <1>7 DEF allVars, vars, pointers, tables
  <2>2. (CachedInv /\ InsertInv /\ RetInv) => (CachedInv /\ InsertInv /\ RetInv)'
        BY <2>1 DEF CachedInv, InsertInv, RetInv
  <2>3. CountInv => CountInv'
        BY <2>1 DEF CountInv, Copies, Wanting
  <2>4. Sum(list)' = Sum(list)
        BY <2>1 DEF Sum
  <2> QED BY <2>1, <2>2, <2>3, <2>4 DEF CacheInv, SumInv
<1> QED BY <1>2, <1>3, <1>4, <1>5, <1>6, <1>7 DEF TablesNext

\* The copies alone are no more than the threads.
LEMMA CacheImplies ==
    ASSUME ListInv, CacheInv
    PROVE  MrCacheOK
<1> SUFFICES ASSUME use = "mr" PROVE MrCacheOK
    BY DEF MrCacheOK
<1>1. RetInv /\ CountInv /\ SumInv
      BY DEF CacheInv
<1>2. ASSUME NEW d \in Data
      PROVE  Cardinality({i \in DOMAIN list : data[list[i]] = d}) <= Cardinality(Thread)
  <2>1. Cardinality(Copies(d)) + Cardinality(Wanting(d)) <= Cardinality(Thread)
        BY <1>1 DEF CountInv
  <2>2. /\ Cardinality(Copies(d)) \in Nat /\ Cardinality(Wanting(d)) \in Nat
        /\ Cardinality(Thread) \in Nat
        BY CountsFinite
  <2>3. Copies(d) = {i \in DOMAIN list : data[list[i]] = d}
        BY LenProperties DEF Copies, ListInv, QueueInv, QueueType
  <2> QED BY <2>1, <2>2, <2>3
<1> QED BY <1>1, <1>2 DEF MrCacheOK, RetInv, SumInv

\* fdmi_reg_mr with the mutex free between search and insertion, for any number of threads,
\* buffers and lengths: a call returns a region that is registered, of its address and long
\* enough; no buffer is cached more often than there are threads; and reg_mr_cached_size is
\* the sum of what is cached.
THEOREM CacheIsRight == TablesSpec => []MrCacheOK
<1>1. TablesInit => ListInv /\ TableInv /\ IteInv /\ CacheInv
      BY InitKeeps, TableInit, CacheInit
<1>2. ListInv /\ TableInv /\ IteInv /\ CacheInv /\ [TablesNext]_allVars
         => ListInv' /\ TableInv' /\ IteInv' /\ CacheInv'
      BY StepKeeps, TableStepKeeps, IteKeeps, CacheStepKeeps DEF TableInv
<1>3. ListInv /\ CacheInv => MrCacheOK
      BY CacheImplies
<1> QED BY <1>1, <1>2, <1>3, PTL DEF TablesSpec

----------------------------------------------------------------------------
(* The elements of a list of nodes *)

\* What a node of the list holds.
Elem == Data \cup {NULL}

\* Values of a list, for any contents of the nodes: also those after a step.
Image(dt, l) == [i \in 1 .. Len(l) |-> dt[l[i]]]

\* The values of a list are a sequence as long as the list.
LEMMA ImageSeq ==
    ASSUME NEW dt \in [Node -> Elem], NEW l \in Seq(Node)
    PROVE  /\ Len(l) \in Nat
           /\ Image(dt, l) \in Seq(Elem) /\ Len(Image(dt, l)) = Len(l)
           /\ DOMAIN Image(dt, l) = 1 .. Len(l)
           /\ \A i \in 1 .. Len(l) : Image(dt, l)[i] = dt[l[i]]
<1>1. Len(l) \in Nat /\ \A i \in 1 .. Len(l) : l[i] \in Node
      BY LenProperties, ElementOfSeq
<1>2. Image(dt, l) \in [1 .. Len(l) -> Elem]
      BY <1>1 DEF Image
<1>3. Image(dt, l) \in Seq(Elem)
      BY <1>1, <1>2, SeqDef
<1>4. Len(Image(dt, l)) = Len(l)
  <2>1. DOMAIN Image(dt, l) = 1 .. Len(l)
        BY DEF Image
  <2>2. DOMAIN Image(dt, l) = 1 .. Len(Image(dt, l)) /\ Len(Image(dt, l)) \in Nat
        BY <1>3, LenProperties
  <2> QED BY <1>1, <2>1, <2>2
<1> QED BY <1>1, <1>3, <1>4 DEF Image

\* The part of a list from entry a on.
LEMMA ImageRest ==
    ASSUME NEW dt \in [Node -> Elem], NEW l \in Seq(Node), NEW a \in 1 .. Len(l) + 1
    PROVE  LET t == Image(dt, SubSeq(l, a, Len(l)))
           IN  /\ t \in Seq(Elem) /\ Len(t) = Len(l) - a + 1
               /\ \A i \in 1 .. Len(l) - a + 1 : t[i] = dt[l[a + i - 1]]
<1> DEFINE s == SubSeq(l, a, Len(l))
<1>1. Len(l) \in Nat /\ a \in Int /\ \A i \in a .. Len(l) : l[i] \in Node
      BY LenProperties, ElementOfSeq
<1>2. /\ s \in Seq(Node) /\ Len(s) = Len(l) - a + 1
      /\ \A i \in 1 .. Len(l) - a + 1 : s[i] = l[a + i - 1]
  <2>1. /\ s \in Seq(Node) /\ Len(s) = IF a <= Len(l) THEN Len(l) - a + 1 ELSE 0
        /\ \A i \in 1 .. Len(l) - a + 1 : s[i] = l[a + i - 1]
        BY <1>1, SubSeqProperties
  <2> QED BY <1>1, <2>1
<1> HIDE DEF s
<1>3. Image(dt, s) \in Seq(Elem) /\ Len(Image(dt, s)) = Len(s)
      /\ \A i \in 1 .. Len(s) : Image(dt, s)[i] = dt[s[i]]
      BY <1>2, ImageSeq
<1> QED BY <1>2, <1>3 DEF s

\* A list that has grown by one node.
LEMMA ImageAppend ==
    ASSUME NEW dt \in [Node -> Elem], NEW du \in [Node -> Elem], NEW l \in Seq(Node),
           NEW m \in Seq(Node), Len(m) = Len(l) + 1,
           \A i \in 1 .. Len(l) : m[i] = l[i] /\ du[l[i]] = dt[l[i]]
    PROVE  Image(du, m) = Append(Image(dt, l), du[m[Len(l) + 1]])
<1> DEFINE x == du[m[Len(l) + 1]]
           v == Image(dt, l)
           w == Image(du, m)
<1>1. /\ Len(l) \in Nat /\ v \in Seq(Elem) /\ Len(v) = Len(l)
      /\ \A i \in 1 .. Len(l) : v[i] = dt[l[i]]
      BY ImageSeq
<1>2. /\ w \in Seq(Elem) /\ Len(w) = Len(l) + 1
      /\ \A i \in 1 .. Len(l) + 1 : w[i] = du[m[i]]
      BY ImageSeq
<1>3. x \in Elem
      BY <1>1, ElementOfSeq
<1> HIDE DEF x, v, w
<1>4. /\ Append(v, x) \in Seq(Elem) /\ Len(Append(v, x)) = Len(l) + 1
      /\ \A i \in 1 .. Len(l) : Append(v, x)[i] = v[i]
      /\ Append(v, x)[Len(l) + 1] = x
      BY <1>1, <1>3, AppendProperties
<1>5. ASSUME NEW i \in 1 .. Len(l) + 1 PROVE w[i] = Append(v, x)[i]
  <2>1. CASE i = Len(l) + 1
        BY <1>1, <1>2, <1>4, <2>1 DEF x
  <2>2. CASE i # Len(l) + 1
    <3>1. i \in 1 .. Len(l)
          BY <1>1, <2>2
    <3> QED BY <1>1, <1>2, <1>4, <3>1
  <2> QED BY <2>1, <2>2
<1>6. w = Append(v, x)
      BY <1>2, <1>4, <1>5, SeqEqual
<1> QED BY <1>6 DEF w, v, x

\* A list without its first node.
LEMMA ImageTail ==
    ASSUME NEW dt \in [Node -> Elem], NEW l \in Seq(Node), l # <<>>
    PROVE  /\ Image(dt, l) # <<>>
           /\ Image(dt, Tail(l)) = Tail(Image(dt, l))
           /\ Image(dt, SubSeq(l, 2, Len(l))) = Tail(Image(dt, l))
<1> DEFINE v == Image(dt, l)
           t == Tail(l)
           w == Image(dt, t)
<1>1. Len(l) \in Nat /\ Len(l) > 0
      BY EmptySeq
<1>2. /\ v \in Seq(Elem) /\ Len(v) = Len(l)
      /\ \A i \in 1 .. Len(l) : v[i] = dt[l[i]]
      BY ImageSeq
<1>3. /\ t \in Seq(Node) /\ Len(t) = Len(l) - 1
      /\ \A i \in 1 .. Len(l) - 1 : t[i] = l[i + 1]
      BY HeadTailProperties
<1>4. t = SubSeq(l, 2, Len(l))
      BY TailIsSubSeq
<1> HIDE DEF t, v
<1>5. /\ w \in Seq(Elem) /\ Len(w) = Len(l) - 1
      /\ \A i \in 1 .. Len(l) - 1 : w[i] = dt[t[i]]
      BY <1>3, ImageSeq
<1>6. v # <<>>
      BY <1>1, <1>2, EmptySeq
<1>7. /\ Tail(v) \in Seq(Elem) /\ Len(Tail(v)) = Len(l) - 1
      /\ \A i \in 1 .. Len(l) - 1 : Tail(v)[i] = v[i + 1]
      BY <1>2, <1>6, HeadTailProperties
<1> HIDE DEF w
<1>8. ASSUME NEW i \in 1 .. Len(l) - 1 PROVE w[i] = Tail(v)[i]
  <2>1. i + 1 \in 1 .. Len(l)
        BY <1>1
  <2> QED BY <1>2, <1>3, <1>5, <1>7, <2>1
<1>9. w = Tail(v)
      BY <1>5, <1>7, <1>8, SeqEqual
<1> QED BY <1>4, <1>6, <1>9 DEF w, v, t

\* A list without the node at entry k.
LEMMA ImageRemoveAt ==
    ASSUME NEW dt \in [Node -> Elem], NEW l \in Seq(Node), NEW k \in 1 .. Len(l)
    PROVE  Image(dt, RemoveAt(l, k)) = RemoveAt(Image(dt, l), k)
<1> DEFINE v == Image(dt, l)
           t == RemoveAt(l, k)
           w == Image(dt, t)
           u == RemoveAt(v, k)
<1>1. Len(l) \in Nat
      BY LenProperties
<1>2. /\ v \in Seq(Elem) /\ Len(v) = Len(l)
      /\ \A i \in 1 .. Len(l) : v[i] = dt[l[i]]
      BY ImageSeq
<1>3. /\ t \in Seq(Node) /\ Len(t) = Len(l) - 1
      /\ \A j \in 1 .. Len(l) - 1 : t[j] = IF j < k THEN l[j] ELSE l[j + 1]
      BY RemoveAtPoints
<1> HIDE DEF t, v
<1>4. /\ u \in Seq(Elem) /\ Len(u) = Len(l) - 1
      /\ \A j \in 1 .. Len(l) - 1 : u[j] = IF j < k THEN v[j] ELSE v[j + 1]
      BY <1>2, RemoveAtPoints
<1>5. /\ w \in Seq(Elem) /\ Len(w) = Len(l) - 1
      /\ \A i \in 1 .. Len(l) - 1 : w[i] = dt[t[i]]
      BY <1>3, ImageSeq, ZenonT(120)
<1> HIDE DEF w, u
<1>6. ASSUME NEW i \in 1 .. Len(l) - 1 PROVE w[i] = u[i]
  <2>1. i \in 1 .. Len(l) /\ i + 1 \in 1 .. Len(l)
        BY <1>1
  <2>2. w[i] = dt[t[i]] /\ t[i] = IF i < k THEN l[i] ELSE l[i + 1]
        BY <1>3, <1>5
  <2>3. u[i] = IF i < k THEN v[i] ELSE v[i + 1]
        BY <1>4
  <2>4. v[i] = dt[l[i]] /\ v[i + 1] = dt[l[i + 1]]
        BY <1>2, <2>1
  <2> QED BY <2>2, <2>3, <2>4
<1>7. w = u
      BY <1>4, <1>5, <1>6, SeqEqual
<1> QED BY <1>7 DEF w, u, v, t

\* What a walk has still to visit, when a node before its iterator is removed.
LEMMA ImageRestKept ==
    ASSUME NEW dt \in [Node -> Elem], NEW l \in Seq(Node), NEW m \in Seq(Node),
           Len(m) = Len(l) - 1, NEW a \in 2 .. Len(l) + 1,
           \A i \in a - 1 .. Len(l) - 1 : m[i] = l[i + 1]
    PROVE  Image(dt, SubSeq(m, a - 1, Len(m))) = Image(dt, SubSeq(l, a, Len(l)))
<1> DEFINE t == Image(dt, SubSeq(l, a, Len(l)))
           u == Image(dt, SubSeq(m, a - 1, Len(m)))
<1>1. Len(l) \in Nat /\ Len(m) \in Nat
      BY LenProperties
<1>2. /\ t \in Seq(Elem) /\ Len(t) = Len(l) - a + 1
      /\ \A i \in 1 .. Len(l) - a + 1 : t[i] = dt[l[a + i - 1]]
  <2>1. a \in 1 .. Len(l) + 1
        BY <1>1
  <2> QED BY <2>1, ImageRest
<1>3. /\ u \in Seq(Elem) /\ Len(u) = Len(m) - (a - 1) + 1
      /\ \A i \in 1 .. Len(m) - (a - 1) + 1 : u[i] = dt[m[(a - 1) + i - 1]]
  <2>1. a - 1 \in 1 .. Len(m) + 1
        BY <1>1
  <2> QED BY <2>1, ImageRest
<1> HIDE DEF t, u
<1>4. Len(u) = Len(t) /\ Len(m) - (a - 1) + 1 = Len(l) - a + 1
      BY <1>1, <1>2, <1>3
<1>5. ASSUME NEW i \in 1 .. Len(l) - a + 1 PROVE u[i] = t[i]
  <2> DEFINE e == (a - 1) + i - 1
  <2>1. e \in a - 1 .. Len(l) - 1 /\ e + 1 = a + i - 1
        BY <1>1
  <2>2. u[i] = dt[m[e]] /\ t[i] = dt[l[a + i - 1]]
        BY <1>2, <1>3, <1>4
  <2> HIDE DEF e
  <2>3. m[e] = l[e + 1]
        BY <2>1
  <2> QED BY <2>1, <2>2, <2>3
<1>6. u = t
      BY <1>2, <1>3, <1>4, <1>5, SeqEqual
<1> QED BY <1>6 DEF t, u

\* A walk that goes on.
LEMMA ImageRestTail ==
    ASSUME NEW dt \in [Node -> Elem], NEW l \in Seq(Node), NEW a \in 1 .. Len(l)
    PROVE  LET t == Image(dt, SubSeq(l, a, Len(l)))
           IN  t # <<>> /\ Image(dt, SubSeq(l, a + 1, Len(l))) = Tail(t)
<1> DEFINE s == SubSeq(l, a, Len(l))
<1>1. Len(l) \in Nat /\ a \in 1 .. Len(l) + 1 /\ Len(l) \in a .. Len(l)
      BY LenProperties
<1>2. Tail(s) = SubSeq(l, a + 1, Len(l))
      BY <1>1, HeadTailOfSubSeq
<1>3. s \in Seq(Node) /\ Len(s) = Len(l) - a + 1
  <2>1. \A i \in a .. Len(l) : l[i] \in Node
        BY <1>1, ElementOfSeq
  <2>2. s \in Seq(Node) /\ Len(s) = IF a <= Len(l) THEN Len(l) - a + 1 ELSE 0
        BY <1>1, <2>1, SubSeqProperties
  <2> QED BY <1>1, <2>2
<1> HIDE DEF s
<1>4. s # <<>>
      BY <1>1, <1>3, EmptySeq
<1>5. Image(dt, s) # <<>> /\ Image(dt, Tail(s)) = Tail(Image(dt, s))
      BY <1>3, <1>4, ImageTail
<1> QED BY <1>2, <1>5 DEF s

----------------------------------------------------------------------------
(* The steps *)

\* What the list holds was put there, and a search has passed over what it does not look
\* for: together with ListInv, inductive.
SearchInv ==
    /\ \A i \in 1 .. Len(list) : data[list[i]] \in Data
    /\ op.pc = "remove" => \A i \in 1 .. op.k - 1 : data[list[i]] # op.d

Contents == Values(list)
Todo     == IF Walking THEN Values(SubSeq(list, at, Len(list))) ELSE <<>>

\* A step of ListQueue, in terms of the list.
AbstractStep ==
    \/ \E d \in Data : ~ Walking /\ Contents' = Append(Contents, d) /\ Walking' = Walking /\ Todo' = Todo
    \/ \E d \in Data :
          /\ \E i \in DOMAIN Contents :
                /\ Contents[i] = d /\ \A j \in 1 .. i - 1 : Contents[j] # d
                /\ Contents' = RemoveAt(Contents, i)
          /\ Walking' = Walking /\ Todo' = Todo
    \/ /\ ~ Walking /\ Contents # <<>>
       /\ Contents' = Tail(Contents) /\ Walking' = Walking /\ Todo' = Todo
    \/ /\ ~ Walking /\ Contents # <<>>
       /\ Walking' = TRUE /\ Todo' = Tail(Contents) /\ Contents' = Contents
    \/ /\ Walking /\ Todo # <<>>
       /\ Todo' = Tail(Todo) /\ Contents' = Contents /\ Walking' = Walking
    \/ Walking /\ Walking' = FALSE /\ Todo' = <<>> /\ Contents' = Contents
    \/ Contents' = Contents /\ Walking' = Walking /\ Todo' = Todo

\* Each of the ways in which the elements and the walk may change is a step of ListQueue.
LEMMA StepsAreSteps ==
    ASSUME AbstractStep
    PROVE  [Abstract!Next]_(Abstract!queue)
BY DEF AbstractStep, Contents, Todo, Abstract!Next, Abstract!Enq, Abstract!Deq, Abstract!TakeOut,
       Abstract!Start, Abstract!Step, Abstract!Stop, Abstract!queue, RemoveAt, Abstract!RemoveAt

\* fdmi_queue_create makes an empty sequence.
LEMMA InitIsInit == TablesInit => Abstract!Init
BY DEF TablesInit, Init, Abstract!Init, Values, Walking, Idle

\* The elements and what a walk has still to visit, before and after a step.
LEMMA ContentsImage ==
    /\ Contents = Image(data, list) /\ Contents' = Image(data', list')
    /\ Walking => Todo = Image(data, SubSeq(list, at, Len(list)))
    /\ Walking' => Todo' = Image(data', SubSeq(list', at', Len(list')))
    /\ ~ Walking => Todo = <<>>
    /\ ~ Walking' => Todo' = <<>>
BY DEF Contents, Todo, Values, Image

\* The elements are the data of the nodes, in their order.
LEMMA QueueTypes ==
    ASSUME QueueInv
    PROVE  /\ data \in [Node -> Elem] /\ list \in Seq(Node) /\ Len(list) \in Nat
           /\ DOMAIN Contents = 1 .. Len(list)
           /\ \A i \in 1 .. Len(list) : Contents[i] = data[list[i]]
<1>1. data \in [Node -> Elem] /\ list \in Seq(Node)
      BY DEF QueueInv, QueueType, Elem
<1> QED BY <1>1, ImageSeq, ContentsImage

\* A step that changes neither the nodes nor whether somebody walks.
LEMMA SameStep ==
    ASSUME SearchInv, UNCHANGED <<data, list>>, Walking' = Walking, Walking => at' = at,
           op'.pc = "remove" => op.pc = "remove" /\ op'.k = op.k /\ op'.d = op.d
    PROVE  SearchInv' /\ AbstractStep
<1>1. SearchInv'
      BY DEF SearchInv
<1>2. Contents' = Contents
      BY ContentsImage
<1>3. Todo' = Todo
      BY ContentsImage
<1> QED BY <1>1, <1>2, <1>3 DEF AbstractStep

\* A new node: Enq.
LEMMA GrowStep ==
    ASSUME QueueInv, SearchInv, adding = NULL, op.pc = "idle", op' = op,
           NEW n \in Node, NEW d \in Data, EnqLink(n, d)
    PROVE  SearchInv' /\ AbstractStep
<1>1. /\ data \in [Node -> Elem] /\ list \in Seq(Node) /\ Len(list) \in Nat
      BY QueueTypes
<1>2. /\ list' \in Seq(Node) /\ data' \in [Node -> Elem]
      /\ Len(list') = Len(list) + 1 /\ list'[Len(list) + 1] = n
      /\ \A i \in 1 .. Len(list) : list'[i] = list[i]
      BY LinkKeepsChain DEF QueueInv, Elem
<1>3. data'[n] = d /\ \A i \in 1 .. Len(list) : data'[list[i]] = data[list[i]]
  <2>1. \A i \in 1 .. Len(list) : list[i] \in live /\ list[i] \in Node
        BY <1>1, ElementOfSeq DEF QueueInv, Chain
  <2>2. n \notin live /\ data' = [data EXCEPT ![n] = d]
        BY DEF EnqLink
  <2> QED BY <1>1, <2>1, <2>2
<1>4. Contents' = Append(Contents, d)
  <2>1. Image(data', list') = Append(Image(data, list), data'[list'[Len(list) + 1]])
        BY <1>1, <1>2, <1>3, ImageAppend
  <2> QED BY <1>2, <1>3, <2>1, ContentsImage
<1>5. ~ Walking /\ ~ Walking' /\ Walking' = Walking /\ Todo' = Todo
  <2>1. ~ Walking /\ ~ Walking'
        BY DEF Walking
  <2>2. Walking' = Walking
        BY DEF Walking
  <2> QED BY <2>1, <2>2, ContentsImage
<1>6. SearchInv'
  <2>1. ASSUME NEW i \in 1 .. Len(list') PROVE data'[list'[i]] \in Data
    <3>1. CASE i = Len(list) + 1
          BY <1>2, <1>3, <3>1
    <3>2. CASE i # Len(list) + 1
      <4>1. i \in 1 .. Len(list)
            BY <1>1, <1>2, <3>2
      <4> QED BY <1>2, <1>3, <4>1 DEF SearchInv
    <3> QED BY <3>1, <3>2
  <2> QED BY <2>1 DEF SearchInv
<1> QED BY <1>4, <1>5, <1>6 DEF AbstractStep

\* The list is not empty when it has a head.
LEMMA HasHead ==
    ASSUME QueueInv, head # NULL
    PROVE  list # <<>> /\ Len(list) > 0 /\ head = list[1]
<1>1. Len(list) \in Nat /\ (Len(list) = 0 => head = NULL) /\ (Len(list) > 0 => head = list[1])
      BY QueueTypes, ChainPoints DEF QueueInv
<1>2. Len(list) > 0
      BY <1>1
<1> QED BY <1>1, <1>2, EmptySeq

\* The first node goes, for fdmi_queue_deq and fdmi_queue_remove.
LEMMA TakeHeadContents ==
    ASSUME QueueInv, SearchInv, head # NULL, TakeHead, data' = data
    PROVE  /\ Contents # <<>> /\ Contents' = Tail(Contents)
           /\ Contents' = RemoveAt(Contents, 1)
           /\ 1 \in DOMAIN Contents /\ Contents[1] = data[head] /\ data[head] \in Data
           /\ list' \in Seq(Node) /\ Len(list') = Len(list) - 1
           /\ \A i \in 1 .. Len(list) - 1 : list'[i] = list[i + 1]
           /\ \A i \in 1 .. Len(list') : data'[list'[i]] \in Data
<1>1. /\ data \in [Node -> Elem] /\ list \in Seq(Node) /\ Len(list) \in Nat
      /\ DOMAIN Contents = 1 .. Len(list)
      /\ \A i \in 1 .. Len(list) : Contents[i] = data[list[i]]
      BY QueueTypes
<1>2. list # <<>> /\ Len(list) > 0 /\ head = list[1] /\ list' = Tail(list)
      BY HasHead DEF TakeHead
<1>3. Contents # <<>> /\ Contents' = Tail(Contents)
      BY <1>1, <1>2, ImageTail, ContentsImage
<1>4. 1 \in 1 .. Len(list)
      BY <1>1, <1>2
<1>5. Contents' = RemoveAt(Contents, 1)
  <2>1. RemoveAt(list, 1) = Tail(list)
    <3>1. /\ RemoveAt(list, 1) \in Seq(Node) /\ Len(RemoveAt(list, 1)) = Len(list) - 1
          /\ \A j \in 1 .. Len(list) - 1 : RemoveAt(list, 1)[j] = IF j < 1 THEN list[j] ELSE list[j + 1]
          BY <1>1, <1>4, RemoveAtPoints
    <3>2. /\ Tail(list) \in Seq(Node) /\ Len(Tail(list)) = Len(list) - 1
          /\ \A j \in 1 .. Len(list) - 1 : Tail(list)[j] = list[j + 1]
          BY <1>1, <1>2, HeadTailProperties
    <3>3. \A j \in 1 .. Len(list) - 1 : RemoveAt(list, 1)[j] = Tail(list)[j]
          BY <1>1, <3>1, <3>2
    <3> QED BY <3>1, <3>2, <3>3, SeqEqual
  <2>2. Image(data, RemoveAt(list, 1)) = RemoveAt(Image(data, list), 1)
        BY <1>1, <1>4, ImageRemoveAt
  <2> QED BY <1>2, <2>1, <2>2, ContentsImage
<1>6. /\ list' \in Seq(Node) /\ Len(list') = Len(list) - 1
      /\ \A i \in 1 .. Len(list) - 1 : list'[i] = list[i + 1]
      BY <1>1, <1>2, HeadTailProperties
<1>7. ASSUME NEW i \in 1 .. Len(list') PROVE data'[list'[i]] \in Data
  <2>1. i + 1 \in 1 .. Len(list) /\ i \in 1 .. Len(list) - 1
        BY <1>1, <1>6
  <2> QED BY <1>6, <2>1 DEF SearchInv
<1> QED BY <1>1, <1>2, <1>3, <1>4, <1>5, <1>6, <1>7 DEF SearchInv

\* fdmi_queue_deq: Deq.
LEMMA DeqStep ==
    ASSUME QueueInv, SearchInv, Deq
    PROVE  SearchInv' /\ AbstractStep
<1>1. op.pc \in {"idle", "destroy"} /\ op' = op /\ head # NULL /\ TakeHead /\ data' = data
      BY DEF Deq
<1>2. /\ Contents # <<>> /\ Contents' = Tail(Contents)
      /\ \A i \in 1 .. Len(list') : data'[list'[i]] \in Data
      BY <1>1, TakeHeadContents
<1>3. ~ Walking /\ ~ Walking'
      BY <1>1 DEF Walking
<1>4. Walking' = Walking
      BY <1>1 DEF Walking
<1>5. SearchInv'
      BY <1>1, <1>2 DEF SearchInv
<1> QED BY <1>2, <1>3, <1>4, <1>5, ContentsImage DEF AbstractStep

\* A walk begins: Start.
LEMMA IterateHeadStep ==
    ASSUME QueueInv, SearchInv, IterateHead
    PROVE  SearchInv' /\ AbstractStep
<1>1. /\ op.pc = "idle" /\ head # NULL /\ at' = 2 /\ UNCHANGED <<data, list>>
      /\ op' = [Idle EXCEPT !.pc = "walk", !.d = data[head], !.held = TRUE]
      BY DEF IterateHead
<1>2. op'.pc = "walk"
      BY <1>1 DEF Idle
<1>3. ~ Walking /\ Walking' /\ Walking' = TRUE
      BY <1>1, <1>2 DEF Walking
<1>4. data \in [Node -> Elem] /\ list \in Seq(Node) /\ list # <<>>
      BY <1>1, QueueTypes, HasHead
<1>5. Contents # <<>> /\ Image(data, SubSeq(list, 2, Len(list))) = Tail(Contents)
      BY <1>4, ImageTail, ContentsImage
<1>6. Todo' = Tail(Contents) /\ Contents' = Contents
      BY <1>1, <1>3, <1>5, ContentsImage
<1>7. SearchInv'
      BY <1>1, <1>2 DEF SearchInv
<1> QED BY <1>3, <1>5, <1>6, <1>7 DEF AbstractStep

\* A walk goes on: Step.
LEMMA IterateNextStep ==
    ASSUME QueueInv, SearchInv, IterateNext
    PROVE  SearchInv' /\ AbstractStep
<1>1. /\ op.pc = "walk" /\ ite # NULL /\ at' = at + 1 /\ UNCHANGED <<data, list>>
      /\ op' = [op EXCEPT !.d = data[ite], !.held = TRUE]
      BY DEF IterateNext
<1>2. op'.pc = "walk"
      BY <1>1 DEF QueueInv, OpType, OpRecord
<1>3. Walking /\ Walking' /\ Walking' = Walking
      BY <1>1, <1>2 DEF Walking
<1>4. data \in [Node -> Elem] /\ list \in Seq(Node) /\ Len(list) \in Nat
      BY QueueTypes
<1>5. at \in 1 .. Len(list)
  <2>1. at \in 1 .. Len(list) + 1 /\ ite = Entry(at)
        BY <1>3 DEF QueueInv, WalkOK
  <2> QED BY <1>1, <1>4, <2>1 DEF Entry
<1>6. Todo # <<>> /\ Image(data, SubSeq(list, at + 1, Len(list))) = Tail(Todo)
      BY <1>3, <1>4, <1>5, ImageRestTail, ContentsImage
<1>7. Todo' = Tail(Todo) /\ Contents' = Contents
      BY <1>1, <1>3, <1>6, ContentsImage
<1>8. SearchInv'
      BY <1>1, <1>2 DEF SearchInv
<1> QED BY <1>3, <1>6, <1>7, <1>8 DEF AbstractStep

\* A walk ends: Stop.
LEMMA WalkEndsStep ==
    ASSUME QueueInv, SearchInv, WalkEnds
    PROVE  SearchInv' /\ AbstractStep
<1>1. op.pc = "walk" /\ op'.pc = "idle" /\ UNCHANGED <<data, list>>
      BY IdleOp DEF WalkEnds, pointers
<1>2. Walking /\ ~ Walking' /\ Walking' = FALSE
      BY <1>1 DEF Walking
<1>3. Contents' = Contents /\ Todo' = <<>>
      BY <1>1, <1>2, ContentsImage
<1>4. SearchInv'
      BY <1>1 DEF SearchInv
<1> QED BY <1>2, <1>3, <1>4 DEF AbstractStep

\* fdmi_queue_remove up to its loop: TakeOut of the first element, or nothing yet.
LEMMA RemoveBeginStep ==
    ASSUME QueueInv, SearchInv, NEW d \in Data \cup {NULL}, NEW back \in {"idle", "walk"},
           op.pc = back, back = "walk" => op.held, RemoveBegin(d, back)
    PROVE  SearchInv' /\ AbstractStep
<1>1. op \in OpRecord
      BY DEF QueueInv, OpType
<1>2. CASE head = NULL /\ op' = [op EXCEPT !.pc = back, !.held = FALSE] /\ UNCHANGED <<data, list, at>>
  <2>1. op'.pc = back
        BY <1>1, <1>2 DEF OpRecord
  <2>2. Walking' = Walking
        BY <2>1 DEF Walking
  <2> QED BY <1>2, <2>1, <2>2, SameStep
<1>3. CASE /\ head # NULL /\ data[head] = d /\ TakeHead /\ data' = data
           /\ at' = (IF back = "walk" THEN at - 1 ELSE at)
           /\ op' = [op EXCEPT !.pc = back, !.held = FALSE]
  <2>1. op'.pc = back
        BY <1>1, <1>3 DEF OpRecord
  <2>2. /\ Walking' = Walking /\ (Walking <=> back = "walk")
        BY <2>1 DEF Walking
  <2>3. /\ Contents' = RemoveAt(Contents, 1) /\ 1 \in DOMAIN Contents
        /\ Contents[1] = d /\ d \in Data
        /\ list' \in Seq(Node) /\ Len(list') = Len(list) - 1
        /\ \A i \in 1 .. Len(list) - 1 : list'[i] = list[i + 1]
        /\ \A i \in 1 .. Len(list') : data'[list'[i]] \in Data
        BY <1>3, TakeHeadContents
  <2>4. Todo' = Todo
    <3>1. CASE back = "walk"
      <4>1. data \in [Node -> Elem] /\ list \in Seq(Node) /\ Len(list) \in Nat
            BY QueueTypes
      <4>2. at \in 2 .. Len(list) + 1
        <5>1. at \in 1 .. Len(list) + 1 /\ at > 1
              BY <2>2, <3>1 DEF QueueInv, WalkOK
        <5> QED BY <4>1, <5>1
      <4>3. \A i \in at - 1 .. Len(list) - 1 : list'[i] = list[i + 1]
            BY <2>3, <4>1, <4>2
      <4>4. Image(data, SubSeq(list', at - 1, Len(list'))) = Image(data, SubSeq(list, at, Len(list)))
            BY <2>3, <4>1, <4>2, <4>3, ImageRestKept
      <4> QED BY <1>3, <2>2, <3>1, <4>4, ContentsImage
    <3>2. CASE back # "walk"
          BY <2>2, <3>2, ContentsImage
    <3> QED BY <3>1, <3>2
  <2>5. SearchInv'
        BY <2>1, <2>3 DEF SearchInv
  <2>6. \E i \in DOMAIN Contents : /\ Contents[i] = d /\ \A j \in 1 .. i - 1 : Contents[j] # d
                                   /\ Contents' = RemoveAt(Contents, i)
    <3>1. \A j \in 1 .. 1 - 1 : Contents[j] # d
          OBVIOUS
    <3> QED BY <2>3, <3>1
  <2> QED BY <2>2, <2>3, <2>4, <2>5, <2>6 DEF AbstractStep
<1>4. CASE /\ head # NULL /\ data[head] # d /\ UNCHANGED <<data, list, at>>
           /\ op' = [op EXCEPT !.pc = "remove", !.d = d, !.held = FALSE, !.old_d = head,
                               !.cur_d = next[head], !.k = 2, !.back = back]
  <2>1. op'.pc = "remove" /\ op'.d = d /\ op'.k = 2 /\ op'.back = back
        BY <1>1, <1>4 DEF OpRecord
  <2>2. Walking' = Walking
        BY <2>1 DEF Walking
  <2>3. Contents' = Contents /\ Todo' = Todo
        BY <1>4, <2>2, ContentsImage
  <2>4. SearchInv'
    <3>1. head = list[1]
          BY <1>4, HasHead
    <3>2. \A i \in 1 .. 2 - 1 : data'[list'[i]] # d
          BY <1>4, <3>1
    <3> QED BY <1>4, <2>1, <3>2 DEF SearchInv
  <2> QED BY <2>2, <2>3, <2>4 DEF AbstractStep
<1> QED BY <1>2, <1>3, <1>4 DEF RemoveBegin, pointers

\* The search passes over a node: no step.
LEMMA RemoveSkipsStep ==
    ASSUME QueueInv, SearchInv, RemoveSkips
    PROVE  SearchInv' /\ AbstractStep
<1>1. /\ op.pc = "remove" /\ op.cur_d # NULL /\ data[op.cur_d] # op.d
      /\ op' = [op EXCEPT !.old_d = op.cur_d, !.cur_d = next[op.cur_d], !.k = @ + 1]
      /\ UNCHANGED <<data, list, at>>
      BY DEF RemoveSkips, pointers
<1>2. op \in OpRecord /\ op.k \in Int
      BY DEF QueueInv, OpType, OpRecord
<1>3. op'.pc = "remove" /\ op'.d = op.d /\ op'.k = op.k + 1 /\ op'.back = op.back
      BY <1>1, <1>2 DEF OpRecord
<1>4. Walking' = Walking
      BY <1>1, <1>3 DEF Walking
<1>5. Contents' = Contents /\ Todo' = Todo
      BY <1>1, <1>4, ContentsImage
<1>6. data[list[op.k]] # op.d
  <2>1. op.cur_d = Entry(op.k)
        BY <1>1 DEF QueueInv, WalkOK
  <2> QED BY <1>1, <2>1 DEF Entry
<1>7. ASSUME NEW i \in 1 .. op'.k - 1 PROVE data'[list'[i]] # op'.d
  <2>1. i = op.k \/ i \in 1 .. op.k - 1
        BY <1>2, <1>3
  <2> QED BY <1>1, <1>3, <1>6, <2>1 DEF SearchInv
<1>8. SearchInv'
      BY <1>1, <1>7 DEF SearchInv
<1> QED BY <1>4, <1>5, <1>8 DEF AbstractStep

\* The search has found the element: TakeOut, of the first one that is equal.
LEMMA RemoveUnlinksStep ==
    ASSUME QueueInv, SearchInv, RemoveUnlinks
    PROVE  SearchInv' /\ AbstractStep
<1>1. /\ op.pc = "remove" /\ op.cur_d # NULL /\ data[op.cur_d] = op.d
      /\ list' = RemoveAt(list, op.k) /\ data' = data
      /\ at' = (IF op.back = "walk" THEN at - 1 ELSE at) /\ RemoveEnds
      BY DEF RemoveUnlinks
<1>2. /\ data \in [Node -> Elem] /\ list \in Seq(Node) /\ Len(list) \in Nat
      /\ DOMAIN Contents = 1 .. Len(list)
      /\ \A i \in 1 .. Len(list) : Contents[i] = data[list[i]]
      BY QueueTypes
<1>3. /\ op.k \in 2 .. Len(list) + 1 /\ op.cur_d = Entry(op.k)
      /\ op.back = "walk" =>
            at \in 1 .. Len(list) + 1 /\ \E j \in op.k .. at - 1 : data[list[j]] = op.d
      BY <1>1 DEF QueueInv, WalkOK, RemoveInv, Walking
<1>4. op.k \in 1 .. Len(list) /\ op.cur_d = list[op.k]
      BY <1>1, <1>2, <1>3 DEF Entry
<1>5. op.d \in Data /\ Contents[op.k] = op.d
      BY <1>1, <1>2, <1>4 DEF SearchInv
<1>6. \A j \in 1 .. op.k - 1 : Contents[j] # op.d
  <2>1. ASSUME NEW j \in 1 .. op.k - 1 PROVE j \in 1 .. Len(list)
        BY <1>2, <1>4
  <2> QED BY <1>1, <1>2, <2>1 DEF SearchInv
<1>7. Contents' = RemoveAt(Contents, op.k)
      BY <1>1, <1>2, <1>4, ImageRemoveAt, ContentsImage
<1>8. /\ list' \in Seq(Node) /\ Len(list') = Len(list) - 1
      /\ \A j \in 1 .. Len(list) - 1 : list'[j] = IF j < op.k THEN list[j] ELSE list[j + 1]
      BY <1>1, <1>2, <1>4, RemoveAtPoints
<1>9. op'.pc = op.back /\ op.back \in {"idle", "walk"}
      BY <1>1, RemoveEndsOp DEF QueueInv, OpType, OpRecord
<1>10. Walking' = Walking /\ (Walking <=> op.back = "walk")
       BY <1>1, <1>9 DEF Walking
<1>11. Todo' = Todo
  <2>1. CASE op.back = "walk"
    <3>1. PICK j \in op.k .. at - 1 : data[list[j]] = op.d
          BY <1>3, <2>1
    <3>2. at \in 2 .. Len(list) + 1 /\ op.k <= at - 1
          BY <1>2, <1>3, <2>1, <3>1
    <3>3. \A i \in at - 1 .. Len(list) - 1 : list'[i] = list[i + 1]
      <4>1. ASSUME NEW i \in at - 1 .. Len(list) - 1 PROVE i \in 1 .. Len(list) - 1 /\ ~ (i < op.k)
            BY <1>2, <1>4, <3>2
      <4> QED BY <1>8, <4>1
    <3>4. Image(data, SubSeq(list', at - 1, Len(list'))) = Image(data, SubSeq(list, at, Len(list)))
          BY <1>2, <1>8, <3>2, <3>3, ImageRestKept
    <3> QED BY <1>1, <1>10, <2>1, <3>4, ContentsImage
  <2>2. CASE op.back # "walk"
        BY <1>10, <2>2, ContentsImage
  <2> QED BY <2>1, <2>2
<1>12. SearchInv'
  <2>1. ASSUME NEW i \in 1 .. Len(list') PROVE data'[list'[i]] \in Data
    <3>1. i \in 1 .. Len(list) - 1 /\ i \in 1 .. Len(list) /\ i + 1 \in 1 .. Len(list)
          BY <1>2, <1>8
    <3> QED BY <1>1, <1>8, <3>1 DEF SearchInv
  <2> QED BY <1>9, <2>1 DEF SearchInv
<1> QED BY <1>2, <1>4, <1>5, <1>6, <1>7, <1>10, <1>11, <1>12 DEF AbstractStep

\* The search has found nothing, or the queue is destroyed: no step.
LEMMA RemoveFinds0Step ==
    ASSUME QueueInv, SearchInv, RemoveFinds0
    PROVE  SearchInv' /\ AbstractStep
<1>1. op.pc = "remove" /\ RemoveEnds /\ UNCHANGED <<data, list, at>>
      BY DEF RemoveFinds0, pointers
<1>2. op'.pc = op.back /\ op.back \in {"idle", "walk"}
      BY <1>1, RemoveEndsOp DEF QueueInv, OpType, OpRecord
<1>3. Walking' = Walking
      BY <1>1, <1>2 DEF Walking
<1> QED BY <1>1, <1>2, <1>3, SameStep

\* fdmi_queue_destroy begins and ends: no step.
LEMMA DestroyStep ==
    ASSUME SearchInv, Destroy \/ DestroyEnds
    PROVE  SearchInv' /\ AbstractStep
<1>1. op.pc \in {"idle", "destroy"} /\ op'.pc \in {"destroy", "gone"} /\ UNCHANGED <<data, list, at>>
      BY DEF Destroy, DestroyEnds, Idle, pointers
<1>2. Walking' = Walking
      BY <1>1 DEF Walking
<1> QED BY <1>1, <1>2, SameStep

\* Every step of a queue used with its mutex.
LEMMA QueueStep ==
    ASSUME QueueInv, SearchInv, adding = NULL, Next
    PROVE  SearchInv' /\ AbstractStep
<1>1. CASE \E n \in Node, d \in Data : Enq(n, d)
      BY <1>1, GrowStep DEF Enq
<1>2. CASE \E d \in Data : LockRemove(d)
  <2>1. PICK d \in Data : LockRemove(d)
        BY <1>2
  <2> QED BY <2>1, RemoveBeginStep DEF LockRemove
<1>3. CASE RemoveCurrent
  <2>1. op.d \in Data \cup {NULL}
        BY DEF QueueInv, OpType, OpRecord
  <2> QED BY <1>3, <2>1, RemoveBeginStep DEF RemoveCurrent
<1> QED BY <1>1, <1>2, <1>3, DeqStep, DestroyStep, IterateHeadStep, IterateNextStep, WalkEndsStep,
           RemoveSkipsStep, RemoveUnlinksStep, RemoveFinds0Step DEF Next

\* Every step of every use of the list.
LEMMA StepMaps ==
    ASSUME ListInv, SearchInv, [TablesNext]_allVars
    PROVE  SearchInv' /\ AbstractStep
<1>1. QueueInv
      BY DEF ListInv
<1>2. CASE use = "queue" /\ Next
  <2>1. adding = NULL
        BY <1>2 DEF ListInv, AddingInv
  <2> QED BY <1>1, <1>2, <2>1, QueueStep
<1>3. CASE \E n \in Node, k \in Key, v \in Val : Add(n, k, v)
  <2>1. PICK n \in Node, k \in Key, v \in Val : Add(n, k, v)
        BY <1>3
  <2>2. /\ use = "itop" /\ adding = NULL /\ EnqLink(n, [key |-> k, val |-> v]) /\ op' = op
        BY <2>1 DEF Add
  <2>3. op.pc = "idle" /\ [key |-> k, val |-> v] \in Data
        BY <2>2, TablesAssumption DEF ListInv, UseInv
  <2> QED BY <1>1, <2>2, <2>3, GrowStep
<1>4. CASE \E t \in Thread, n \in Node : RegInsert(t, n)
  <2>1. PICK t \in Thread, n \in Node : RegInsert(t, n)
        BY <1>4
  <2> DEFINE mr == [key |-> reg[t].key, val |-> reg[t].size]
  <2>2. reg[t].pc = "insert" /\ EnqLink(n, mr) /\ op' = op
        BY <2>1 DEF RegInsert
  <2>3. use = "mr" /\ reg[t].key \in Key /\ reg[t].size \in Val
        BY <2>2 DEF ListInv, UseInv
  <2>4. op.pc = "idle" /\ adding = NULL /\ mr \in Data
        BY <2>3, TablesAssumption DEF ListInv, UseInv, AddingInv
  <2> HIDE DEF mr
  <2> QED BY <1>1, <2>2, <2>4, GrowStep
<1>5. CASE UNCHANGED <<data, list, op, at>>
  <2>1. Walking' = Walking
        BY <1>5 DEF Walking
  <2> QED BY <1>5, <2>1, SameStep
<1>6. CASE \/ AddEnds
           \/ \E w \in Walkers : GetNext(w) \/ \E k \in Key : GetHead(w, k)
           \/ \E t \in Thread : RegRegister(t) \/ \E k \in Key, v \in Val : RegSearch(t, k, v)
           \/ UNCHANGED allVars
  <2>1. UNCHANGED <<data, list, op, at>>
        BY <1>6 DEF AddEnds, GetNext, GetHead, getRest, RegRegister, RegSearch, allVars, vars, pointers
  <2> QED BY <1>5, <2>1
<1> QED BY <1>2, <1>3, <1>4, <1>6 DEF TablesNext

\* fdmi_queue_enq, _deq, _remove, _iterate and _destroy act as a sequence: whatever the list
\* is used for and however many nodes, elements and threads there are, every step of it is
\* one step of ListQueue or none.  A removal takes out the first element that is equal, and a
\* walk that removes the element it is at visits the others, each once.
THEOREM QueueActsAsList == TablesSpec => ActsAsList
<1>1. TablesInit => ListInv /\ SearchInv /\ Abstract!Init
  <2>1. TablesInit => SearchInv
        BY IdleOp DEF TablesInit, Init, SearchInv
  <2> QED BY <2>1, InitKeeps, InitIsInit
<1>2. ListInv /\ [TablesNext]_allVars => ListInv'
      BY StepKeeps
<1>3. ListInv /\ SearchInv /\ [TablesNext]_allVars => SearchInv' /\ [Abstract!Next]_(Abstract!queue)
      BY StepMaps, StepsAreSteps
<1> QED BY <1>1, <1>2, <1>3, PTL DEF TablesSpec, ActsAsList, Abstract!Spec

=============================================================================
