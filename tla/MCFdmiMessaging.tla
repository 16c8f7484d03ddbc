-------------------------- MODULE MCFdmiMessaging --------------------------
(* Instances of FdmiMessaging for TLC. *)
EXTENDS FdmiMessaging, TLC

CONSTANTS p1, p2, s1, s2, r1, r2, t1, t2, c1

\* processes, operations of one kind and tags are interchangeable
OpSymmetry == Permutations(Proc) \cup Permutations(Send) \cup Permutations(Recv)
              \cup Permutations(Tag)

\* everyone sends to everyone; p1 sends to p2 only
AllPairs   == {pd \in Proc \X Proc : pd[1] # pd[2]}
OnePair    == {<<p1, p2>>}

\* what remains interchangeable when the traffic is fixed
CallSymmetry == Permutations(Send) \cup Permutations(Recv) \cup Permutations(Tag)

=============================================================================
