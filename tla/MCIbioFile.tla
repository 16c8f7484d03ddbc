----------------------------- MODULE MCIbioFile -----------------------------
(* Instances of IbioFile for TLC. *)
EXTENDS IbioFile, TLC

CONSTANTS client1, client2

\* Clients that write; that write in both ways; that close their files; that read.
MCPlans == {[ops |-> {"write"}, counts |-> {2, 3}, stored |-> 0],
            [ops |-> {"write", "dwrite"}, counts |-> {3}, stored |-> 0],
            [ops |-> {"write", "close"}, counts |-> {3}, stored |-> 0],
            [ops |-> {"read"}, counts |-> {2, 4}, stored |-> 6]}
=============================================================================
