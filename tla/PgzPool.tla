------------------------------ MODULE PgzPool ------------------------------
(***************************************************************************)
(* The pools of buffers of examples/pgz.c.  A space has a use count kept in *)
(* its lock `use`; a pool has a list of unused spaces and their number, kept *)
(* in its lock `have`.  get_space holds `have` while it possesses `use`, and *)
(* drop_space holds `use` while it possesses `have`: both are split at every *)
(* point where they wait for a second lock or have released one of the two.  *)
(*                                                                         *)
(* A thread starts one of the three operations in the step that calls it    *)
(* and goes on when call[t] is Idle again.                                  *)
(***************************************************************************)
EXTENDS Integers, Sequences, SequencesExt

CONSTANTS
  Threads,      \* every thread of the program
  Pools         \* the pools

VARIABLES
  pool,         \* per pool: [head, have, limit, made, lock]
  space,        \* per space made so far: [use, lock, buf]
  call,         \* per thread: the pool operation in progress
  got           \* per thread: what its last get_space returned

poolVars == <<pool, space, call, got>>

None == <<>>                          \* the null pointer, a free lock
Idle == [op |-> "none", space |-> None]

\* a space is named by its pool and the order in which it was made
PoolOf(s) == s[1]

\* new_pool: limit is the number of spaces that may be made, -1 for any number
NewPool(limit) == [head |-> <<>>, have |-> 0, limit |-> limit, made |-> 0, lock |-> None]

PoolInit ==
  /\ pool = [p \in Pools |-> NewPool(0)]
  /\ space = <<>>
  /\ call = [t \in Threads |-> Idle]
  /\ got = [t \in Threads |-> None]

Free(p) == pool[p].lock = None

\* get_space, with `have` possessed: takes the head of the list in a second step,
\* or makes a new space at once
GetSpace(t, p) ==
  /\ call[t] = Idle /\ Free(p)
  /\ pool[p].limit = 0 => pool[p].have # 0
  /\ IF pool[p].head # <<>>
     THEN /\ pool' = [pool EXCEPT ![p].lock = <<t>>]
          /\ call' = [call EXCEPT ![t] = [op |-> "get", space |-> Head(pool[p].head)]]
          /\ UNCHANGED <<space, got>>
     ELSE LET s == <<p, pool[p].made + 1>>
          IN  /\ pool' = [pool EXCEPT ![p].made = @ + 1,
                                      ![p].limit = IF @ > 0 THEN @ - 1 ELSE @]
              /\ space' = [x \in DOMAIN space \cup {s} |->
                             IF x = s THEN [use |-> 1, lock |-> None, buf |-> <<>>]
                                      ELSE space[x]]
              /\ got' = [got EXCEPT ![t] = s]
              /\ UNCHANGED call

\* the rest of get_space, once `use` is possessed too
GetSpaceTakes(t) ==
  LET s == call[t].space
      p == PoolOf(s)
  IN  /\ call[t].op = "get"
      /\ space[s].lock = None
      /\ pool' = [pool EXCEPT ![p].head = Tail(@), ![p].have = @ - 1, ![p].lock = None]
      /\ space' = [space EXCEPT ![s] = [use |-> 1, lock |-> None, buf |-> <<>>]]
      /\ got' = [got EXCEPT ![t] = s]
      /\ call' = [call EXCEPT ![t] = Idle]

UseSpace(t, s) ==
  /\ call[t] = Idle /\ space[s].lock = None
  /\ space' = [space EXCEPT ![s].use = @ + 1]
  /\ UNCHANGED <<pool, call, got>>

\* drop_space, with `use` possessed: done when other users remain
DropSpace(t, s) ==
  /\ call[t] = Idle /\ space[s].lock = None
  /\ IF space[s].use = 1
     THEN /\ space' = [space EXCEPT ![s].lock = <<t>>]
          /\ call' = [call EXCEPT ![t] = [op |-> "drop", space |-> s]]
     ELSE /\ space' = [space EXCEPT ![s].use = @ - 1]
          /\ UNCHANGED call
  /\ UNCHANGED <<pool, got>>

\* the last user puts the space in the list, `have` possessed too ...
DropSpaceReturns(t) ==
  LET s == call[t].space
      p == PoolOf(s)
  IN  /\ call[t].op = "drop" /\ Free(p)
      /\ pool' = [pool EXCEPT ![p].head = <<s>> \o @, ![p].have = @ + 1]
      /\ call' = [call EXCEPT ![t].op = "dropped"]
      /\ UNCHANGED <<space, got>>

\* ... and then lets `use` go
DropSpaceEnds(t) ==
  LET s == call[t].space
  IN  /\ call[t].op = "dropped"
      /\ space' = [space EXCEPT ![s].use = @ - 1, ![s].lock = None]
      /\ call' = [call EXCEPT ![t] = Idle]
      /\ UNCHANGED <<pool, got>>

PoolStep(t) == GetSpaceTakes(t) \/ DropSpaceReturns(t) \/ DropSpaceEnds(t)

\* free_pool: what it counts, and the pool and its spaces gone
Counted(p) == Len(pool[p].head)

FreePools ==
  /\ \A p \in Pools : Free(p)
  /\ pool' = [p \in Pools |-> NewPool(0)]
  /\ space' = <<>>
  /\ UNCHANGED <<call, got>>

-----------------------------------------------------------------------------
\* In get_space: the assertion that a new space is allowed; in drop_space: that
\* the space is in use.
PoolTypeOK ==
  /\ \A p \in Pools :
       /\ Range(pool[p].head) \subseteq DOMAIN space
       /\ pool[p].made \in Nat /\ pool[p].have \in Nat /\ pool[p].limit >= -1
       /\ pool[p].lock \in {None} \cup {<<t>> : t \in Threads}
  /\ \A s \in DOMAIN space : space[s].use \in Nat /\ PoolOf(s) \in Pools
  /\ \A t \in Threads : call[t].op \in {"none", "get", "drop", "dropped"}

=============================================================================
