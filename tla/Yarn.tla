-------------------------------- MODULE Yarn --------------------------------
(***************************************************************************)
(* The thread list of examples/yarn.c: threads that were launched and not  *)
(* joined yet, which of them announced their end (reenter), and the value  *)
(* of threads_lock, the number of those announcements not yet consumed by  *)
(* join or join_all.                                                       *)
(*                                                                         *)
(* A yarn lock is a mutex with a value.  A section from possess to the     *)
(* next twist or release, with no other lock taken inside, is one step of  *)
(* the models that use it; wait_for is a guard on the value, since twist   *)
(* wakes every waiter.  threads_lock is used only in such sections.        *)
(***************************************************************************)
EXTENDS Integers, Sequences, SequencesExt

VARIABLES
  threads,      \* the list: records [id, done], newest or last done first
  reentered,    \* threads_lock.value
  exited        \* ids of the threads whose function has returned to the system

yarnVars == <<threads, reentered, exited>>

YarnInit == threads = <<>> /\ reentered = 0 /\ exited = {}

Ids == {threads[i].id : i \in DOMAIN threads}

DoneIds == {threads[i].id : i \in {j \in DOMAIN threads : threads[j].done}}

\* launch: the new thread is at the head of the list before anyone can look for it
Launch(t) ==
  /\ threads' = <<[id |-> t, done |-> FALSE]>> \o threads
  /\ exited' = exited \ {t}
  /\ UNCHANGED reentered

\* threads without thread t, which is there once
Without(t) == RemoveAt(threads, CHOOSE i \in DOMAIN threads : threads[i].id = t)

\* reenter, called by ignition when the thread's function returned: the entry is
\* marked and moved to the head
Reenter(t) ==
  /\ t \in Ids /\ t \notin DoneIds
  /\ threads' = <<[id |-> t, done |-> TRUE]>> \o Without(t)
  /\ reentered' = reentered + 1
  /\ UNCHANGED exited

\* the last instructions of ignition: the system thread ends
ThreadExit(t) ==
  /\ t \in DoneIds \ exited
  /\ exited' = exited \cup {t}
  /\ UNCHANGED <<threads, reentered>>

\* the list without one joined thread, which had announced its end or not
Unlink(t) ==
  /\ threads' = Without(t)
  /\ reentered' = IF t \in DoneIds THEN reentered - 1 ELSE reentered
  /\ UNCHANGED exited

\* join: waits for the end of the thread, then removes it from the list
Join(t) == t \in exited /\ t \in Ids /\ Unlink(t)

\* one turn of the loop of join_all: the first entry marked done is joined
JoinNext ==
  /\ threads # <<>> /\ reentered # 0
  /\ LET first == CHOOSE i \in DOMAIN threads :
                    /\ threads[i].done
                    /\ \A j \in 1..(i - 1) : ~threads[j].done
     IN  threads[first].id \in exited /\ Unlink(threads[first].id)

=============================================================================
