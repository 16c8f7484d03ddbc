-------------------------- MODULE MCFdmiQueryPool --------------------------
(* Instances of FdmiQueryPool for TLC. *)
EXTENDS FdmiQueryPool, TLC

CONSTANTS t1, s1, r1, r2    \* a tag, a send and two receives
=============================================================================
