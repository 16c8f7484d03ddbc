----------------------------- MODULE FdmiTables -----------------------------
(***************************************************************************)
(* Two tables that threads share, and the list of FdmiQueue under them.    *)
(*                                                                         *)
(*   "itop"  a bucket of the hash table of ranks: the application thread   *)
(*           adds identifiers (fdmi_rmap_itop_add in fdmi_verbs_connect),  *)
(*           the event thread and the completion-queue thread look them up *)
(*           (fdmi_rmap_itop_get); the table takes no lock and lookups use *)
(*           the list's own iterator, which they share;                    *)
(*   "mr"    the cache of fdmi_reg_mr: a search and an insertion, each     *)
(*           under the mutex of reg_mr_q, which is free in between;        *)
(*   "queue" a queue used as FdmiQueue describes.                          *)
(*                                                                         *)
(* What is stored is a record [key, val]: identifier and rank, or address  *)
(* and length of a registered buffer.                                      *)
(***************************************************************************)
EXTENDS FdmiQueue, FiniteSets

CONSTANTS
    Uses,        \* which of the three are checked
    Walkers,     \* the threads that look identifiers up
    Key, Val,
    Thread,      \* the threads that register buffers
    MaxTry       \* attempts to register (1000)

ASSUME TablesAssumption ==
    /\ Data = [key : Key, val : Val] /\ Val \subseteq Nat /\ MaxTry \in Nat
    /\ IsFiniteSet(Thread)

VARIABLES
    use,
    adding,      \* the node that fdmi_hashtable_add has linked and not finished
    added,       \* identifiers whose add has returned (not in the code)
    get,         \* per walker: its lookup
    reg,         \* per thread: its call of fdmi_reg_mr
    registered,  \* what ibv_reg_mr has registered
    cached_size, \* reg_mr_cached_size
    exited       \* fdmi_err has ended the process

tables  == <<adding, added, get, reg, registered, cached_size, exited>>
allVars == <<vars, use, tables>>

\* must: the identifier had been added when the lookup began; disturbed: another thread
\* has moved the iterator during it (both not in the code).
NoGet == [pc |-> "idle", key |-> NULL, must |-> FALSE, disturbed |-> FALSE, ret |-> NULL]
NoReg == [pc |-> "idle", key |-> NULL, size |-> 0, try |-> 0, ret |-> NULL]

TablesInit ==
    /\ Init /\ use \in Uses
    /\ adding = NULL /\ added = {} /\ get = [w \in Walkers |-> NoGet]
    /\ reg = [t \in Thread |-> NoReg]
    /\ registered = {} /\ cached_size = 0 /\ exited = FALSE

----------------------------------------------------------------------------
\* fdmi_hashtable_add: two steps, that a lookup may come between
Add(n, k, v) ==
    /\ use = "itop" /\ adding = NULL /\ k \notin added
    /\ EnqLink(n, [key |-> k, val |-> v]) /\ adding' = n
    /\ UNCHANGED <<tail, ite, length, op, at, use, added, get, reg, registered, cached_size,
                   exited>>

AddEnds ==
    /\ adding # NULL /\ EnqEnds(adding) /\ adding' = NULL
    /\ added' = added \cup {data[adding].key}
    /\ UNCHANGED <<next, data, live, head, ite, op, list, at, use, get, reg, registered,
                   cached_size, exited>>

\* fdmi_hashtable_get: what it does with a node that the iterator gave it, while the
\* iterator moves on, for the other lookups as well
Visit(w, g, n) ==
    /\ get' = [v \in Walkers |->
                 IF v # w THEN [get[v] EXCEPT !.disturbed = (@ \/ get[v].pc = "next")]
                 ELSE IF data[n].key = g.key THEN [g EXCEPT !.pc = "idle", !.ret = data[n]]
                 ELSE [g EXCEPT !.pc = "next"]]
    /\ ite' = next[n]

getRest == <<next, data, live, head, tail, length, op, list, at, use, adding, added, reg,
             registered, cached_size, exited>>

GetHead(w, k) ==
    LET g == [NoGet EXCEPT !.key = k, !.must = (k \in added)] IN
    /\ use = "itop" /\ get[w].pc = "idle"
    /\ \/ /\ head = NULL
          /\ get' = [get EXCEPT ![w] = g] /\ UNCHANGED ite
       \/ /\ head # NULL
          /\ Visit(w, g, head)
    /\ UNCHANGED getRest

\* Test and use of ite are one step, though another lookup may move it in between.
GetNext(w) ==
    /\ get[w].pc = "next"
    /\ \/ /\ ite = NULL
          /\ get' = [get EXCEPT ![w].pc = "idle"] /\ UNCHANGED ite
       \/ /\ ite # NULL
          /\ Visit(w, get[w], ite)
    /\ UNCHANGED getRest

----------------------------------------------------------------------------
\* Faulty: a cached buffer of any length is taken.
HitsShort(k, size) == {i \in DOMAIN list : data[list[i]].key = k}

\* The cached buffers that fdmi_reg_mr takes for this one.
Hits(k, size) ==
    {i \in DOMAIN list : data[list[i]].key = k /\ data[list[i]].val >= size}

regRest == <<use, adding, added, get>>

\* fdmi_reg_mr: the search, under the mutex
RegSearch(t, k, size) ==
    LET found == Hits(k, size) IN
    /\ use = "mr" /\ reg[t].pc = "idle" /\ ~ exited
    /\ reg' = [reg EXCEPT ![t] =
                 IF found = {} THEN [NoReg EXCEPT !.pc = "register", !.key = k, !.size = size,
                                                  !.try = MaxTry]
                 ELSE LET first == CHOOSE i \in found : \A j \in found : i <= j
                      IN  [NoReg EXCEPT !.key = k, !.size = size, !.ret = data[list[first]]]]
    /\ UNCHANGED <<vars, regRest, registered, cached_size, exited>>

\* ibv_reg_mr, with the mutex free
RegRegister(t) ==
    /\ reg[t].pc = "register" /\ ~ exited
    /\ \/ /\ reg' = [reg EXCEPT ![t].pc = "insert"]
          /\ registered' = registered \cup {[key |-> reg[t].key, val |-> reg[t].size]}
          /\ UNCHANGED exited
       \/ /\ reg' = [reg EXCEPT ![t].try = @ - 1]
          /\ exited' = (reg[t].try = 0) /\ UNCHANGED registered
    /\ UNCHANGED <<vars, regRest, cached_size>>

\* the insertion, under the mutex
RegInsert(t, n) ==
    LET mr == [key |-> reg[t].key, val |-> reg[t].size] IN
    /\ reg[t].pc = "insert" /\ ~ exited
    /\ EnqLink(n, mr) /\ EnqEnds(n)
    /\ cached_size' = cached_size + reg[t].size
    /\ reg' = [reg EXCEPT ![t].pc = "idle", ![t].ret = mr]
    /\ UNCHANGED <<ite, op, at, regRest, registered, exited>>

----------------------------------------------------------------------------
TablesNext ==
    \/ use = "queue" /\ Next /\ UNCHANGED <<use, tables>>
    \/ \E n \in Node, k \in Key, v \in Val : Add(n, k, v)
    \/ AddEnds
    \/ \E w \in Walkers : GetNext(w) \/ \E k \in Key : GetHead(w, k)
    \/ \E t \in Thread : \/ \E k \in Key, v \in Val : RegSearch(t, k, v)
                         \/ RegRegister(t) \/ \E n \in Node : RegInsert(t, n)

TablesSpec == TablesInit /\ [][TablesNext]_allVars

----------------------------------------------------------------------------
\* fdmi_queue_enq, _deq and _remove keep the list in order, whichever way it is used, as
\* soon as no insertion is in progress, and a walk with the mutex stays on the list, also
\* over the removal of the element it holds.
ListInOrder == /\ adding = NULL => ListOK
               /\ use = "queue" => WalkOK

\* fdmi_hashtable_add and _get: a lookup that started after its identifier was added finds
\* it, whatever is inserted meanwhile, unless another lookup has moved the iterator; and
\* even then none returns the rank of another identifier.
GetFinds ==
    \A w \in Walkers :
       get[w].pc = "idle" =>
          /\ get[w].must /\ ~ get[w].disturbed => get[w].ret # NULL
          /\ get[w].ret # NULL => get[w].ret.key = get[w].key

\* fdmi_reg_mr: the region it returns is registered and covers the buffer; since the mutex
\* is free between search and insertion one buffer may be cached more than once, but not
\* more often than there are threads; and the cached size is the sum of the regions.
Sum(s) == LET sum[i \in 0 .. Len(s)] == IF i = 0 THEN 0 ELSE sum[i - 1] + data[s[i]].val
          IN  sum[Len(s)]
MrCacheOK ==
    use = "mr" =>
       /\ \A t \in Thread : reg[t].ret # NULL =>
             /\ reg[t].ret \in registered
             /\ reg[t].ret.key = reg[t].key /\ reg[t].ret.val >= reg[t].size
       /\ \A d \in Data : Cardinality({i \in DOMAIN list : data[list[i]] = d}) <= Cardinality(Thread)
       /\ cached_size = Sum(list)
=============================================================================
