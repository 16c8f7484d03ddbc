---------------------------- MODULE MCFdmiTables ----------------------------
(* Instances of FdmiTables for TLC. *)
EXTENDS FdmiTables

MCData == [key : Key, val : Val]
=============================================================================
